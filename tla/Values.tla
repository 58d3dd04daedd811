------------------------------- MODULE Values -------------------------------
(***************************************************************************)
(* The values of variables (class VariableValue) and the texts they are    *)
(* written in.  A value is a pair of its type and its contents.  A text is *)
(* a sequence of symbols: <<"int", 2>> and <<"dec", r>> for numbers without *)
(* and with a decimal point, <<"name", n>> for words, <<"op", o>> for       *)
(* operators and parentheses, <<"quoted", t>> for a quoted text t and       *)
(* <<"hole", n>> for ${n}.  Spaces stand only between words.  Doubles are  *)
(* exact fractions <<n, d>> in lowest terms: rounding is left out, and so   *)
(* is the tolerance of 1e-9 that hides it.                                 *)
(***************************************************************************)
EXTENDS Integers, Sequences, FiniteSetsExt

CONSTANT TextBefore(_, _)   \* the order of std::string

Fraction(n, d) ==
  LET s == IF d < 0 THEN -1 ELSE 1
      size == IF n < 0 THEN -n ELSE n
      g == IF n = 0 THEN s * d
           ELSE Max({k \in 1..size : size % k = 0 /\ (s * d) % k = 0})
  IN  <<(s * n) \div g, (s * d) \div g>>

Plus(a, b)  == Fraction(a[1] * b[2] + b[1] * a[2], a[2] * b[2])
Minus(a, b) == Fraction(a[1] * b[2] - b[1] * a[2], a[2] * b[2])
Times(a, b) == Fraction(a[1] * b[1], a[2] * b[2])
Quotient(a, b) == Fraction(a[1] * b[2], a[2] * b[1])
Less(a, b)  == a[1] * b[2] < b[1] * a[2]

\* With a positive denominator.
Doubles == Int \X (Nat \ {0})

\* Roots are taken only of squares: others have no exact value.
IsSquare(a) == \E r \in (0..a[1]) \X (1..a[2]) : Times(r, r) = a
Root(a) == CHOOSE r \in (0..a[1]) \X (1..a[2]) : Times(r, r) = a

Word(n)  == <<"name", n>>
Sym(o)   == <<"op", o>>
Whole(n) == <<"int", n>>
Flag(b)  == <<"bool", b>>
Text(t)  == <<"text", t>>
Double(r) == <<"double", r>>
Unknown  == <<"unknown">>
Throws   == <<"throws">>     \* no value: an exception

TrueWords  == {Word("true"), Word("TRUE"), Word("True")}
FalseWords == {Word("false"), Word("FALSE"), Word("False")}

IsNumber(symbol) == symbol[1] \in {"int", "dec"}

\* The number behind a symbol, negated or not, and the value it is stored as.
Magnitude(symbol) == IF symbol[1] = "int" THEN <<symbol[2], 1>> ELSE symbol[2]

Stored(symbol, sign) ==
  IF symbol[1] = "int" THEN Whole(sign * symbol[2])
  ELSE Double(Times(<<sign, 1>>, symbol[2]))

\* tryParseNumberLiteral, and std::stoi / std::stod on a whole text: an
\* optional sign and a number.
NumberLiteral(text) ==
  CASE Len(text) = 1 /\ IsNumber(text[1]) -> Stored(text[1], 1)
    [] Len(text) = 2 /\ text[1] \in {Sym("-"), Sym("+")} /\ IsNumber(text[2])
         -> Stored(text[2], IF text[1] = Sym("-") THEN -1 ELSE 1)
    [] OTHER -> Throws

\* Fault variant: decimal numbers are stored as texts.
LiteralIntOnly(text) ==
  IF NumberLiteral(text) # Throws /\ NumberLiteral(text)[1] = "int"
    THEN NumberLiteral(text)
  ELSE IF Len(text) = 1 /\ text[1] \in TrueWords THEN Flag(TRUE)
  ELSE IF Len(text) = 1 /\ text[1] \in FalseWords THEN Flag(FALSE)
  ELSE Text(text)

\* VariableManager::setFromParams: the value a parameter's text is stored as.
Literal(text) ==
  IF NumberLiteral(text) # Throws THEN NumberLiteral(text)
  ELSE IF Len(text) = 1 /\ text[1] \in TrueWords THEN Flag(TRUE)
  ELSE IF Len(text) = 1 /\ text[1] \in FalseWords THEN Flag(FALSE)
  ELSE Text(text)

-----------------------------------------------------------------------------
(* VariableValue's conversions and ConstraintEvaluator::compare.           *)

AsDouble(v) ==
  CASE v[1] = "double" -> v[2]
    [] v[1] = "int"    -> <<v[2], 1>>
    [] OTHER           -> Throws

\* std::to_string of a double always writes six decimals.
AsText(v) ==
  CASE v[1] = "text"   -> v[2]
    [] v[1] = "int"    -> IF v[2] < 0 THEN <<Sym("-"), Whole(-v[2])>> ELSE <<v>>
    [] v[1] = "double" -> <<<<"fixed", v[2]>>>>
    [] v[1] = "bool"   -> <<IF v[2] THEN Word("true") ELSE Word("false")>>
    [] OTHER           -> <<>>

\* VariableValue::asBool, which knows no doubles.
AsBool(v) ==
  CASE v[1] = "bool" -> v
    [] v[1] = "int"  -> Flag(v[2] # 0)
    [] v[1] = "text" -> Flag(v[2] # <<>>)
    [] OTHER         -> Throws

\* The truth of an operand when the other operand is a bool.
Truth(v) ==
  CASE v[1] = "bool"   -> v[2]
    [] v[1] = "int"    -> v[2] # 0
    [] v[1] = "double" -> v[2][1] # 0
    [] v[1] = "text"   -> v[2] # <<>> /\ ~(Len(v[2]) = 1 /\ v[2][1] \in FalseWords)
    [] OTHER           -> FALSE

\* What op says of operands of which the first is equal to or before the other.
Ordered(op, equal, before) ==
  CASE op \in {"==", "="} -> equal
    [] op = "!="          -> ~equal
    [] op = "<"           -> before /\ ~equal
    [] op = "<="          -> before \/ equal
    [] op = ">"           -> ~before /\ ~equal
    [] op = ">="          -> ~before
    [] OTHER              -> FALSE

Compare(l, op, r) ==
  IF "bool" \in {l[1], r[1]}
    THEN Ordered(op, Truth(l) = Truth(r), ~Truth(l) /\ Truth(r))
  ELSE IF "text" \in {l[1], r[1]}
    THEN Ordered(op, AsText(l) = AsText(r), TextBefore(AsText(l), AsText(r)))
  ELSE IF Throws \in {AsDouble(l), AsDouble(r)}
    THEN FALSE
  ELSE Ordered(op, AsDouble(l) = AsDouble(r), Less(AsDouble(l), AsDouble(r)))
=============================================================================
