---------------------------- MODULE Expressions ----------------------------
(***************************************************************************)
(* The two evaluators of expressions: evaluateValueExpression with its     *)
(* NumericExpressionParser, for the values commands store, and             *)
(* ConstraintEvaluator, for conditions.  Both are recursive-descent        *)
(* parsers that evaluate as they go: they take the text, the position and  *)
(* the visible variables env and return the value and the position after   *)
(* it, or Throws.                                                          *)
(***************************************************************************)
EXTENDS Values

-----------------------------------------------------------------------------
(* NumericExpressionParser                                                 *)

VariableToDouble(name, env) ==
  IF name \notin DOMAIN env THEN Throws
  ELSE LET v == env[name] IN
       CASE v[1] = "bool" -> IF v[2] THEN <<1, 1>> ELSE <<0, 1>>
         [] v[1] = "text" -> AsDouble(NumberLiteral(v[2]))
         [] OTHER         -> AsDouble(v)

\* What an operator makes of two numbers.
Apply(o, a, b) ==
  CASE o = "+" -> Plus(a, b)
    [] o = "-" -> Minus(a, b)
    [] o = "*" -> Times(a, b)
    [] OTHER   -> IF b[1] = 0 THEN Throws ELSE Quotient(a, b)

\* The operators of parseTerm and of parseExpression.
OpsOf == [products |-> {Sym("*"), Sym("/")}, sums |-> {Sym("+"), Sym("-")}]

\* Fault variant: the right operand takes all that follows.
RightOperandAll == [products |-> "term", sums |-> "sum"]

RightOperand == [products |-> "factor", sums |-> "term"]

Is(text, p, o) == p <= Len(text) /\ text[p] = Sym(o)

\* What read gives at a level and a place.  The loops go on with a value.
At(read, level, p) == read[<<level, <<0, 1>>, p>>]

GoOn(read, loop, first) ==
  IF first = Throws THEN Throws ELSE read[<<loop, first[1], first[2]>>]

\* An expression and the parenthesis after it.
Enclosed(read, text, p) ==
  LET e == At(read, "sum", p) IN
  IF e # Throws /\ Is(text, e[2], ")") THEN <<e[1], e[2] + 1>> ELSE Throws

Negated(f) == IF f = Throws THEN Throws ELSE <<Minus(<<0, 1>>, f[1]), f[2]>>

\* Of the functions only the square root is known.
Called(name, arg) ==
  IF arg = Throws \/ name # "sqrt" \/ ~IsSquare(arg[1]) THEN Throws
  ELSE <<Root(arg[1]), arg[2]>>

Variable(name, env, p) ==
  LET v == VariableToDouble(name, env) IN IF v = Throws THEN Throws ELSE <<v, p + 1>>

Factor(read, text, env, p) ==
  IF p > Len(text) THEN Throws
  ELSE IF Is(text, p, "+") THEN At(read, "factor", p + 1)
  ELSE IF Is(text, p, "-") THEN Negated(At(read, "factor", p + 1))
  ELSE IF Is(text, p, "(") THEN Enclosed(read, text, p + 1)
  ELSE IF IsNumber(text[p]) THEN <<Magnitude(text[p]), p + 1>>
  ELSE IF text[p][1] # "name" THEN Throws
  ELSE IF Is(text, p + 1, "(") THEN Called(text[p][2], Enclosed(read, text, p + 2))
  ELSE Variable(text[p][2], env, p)

\* The loops of parseTerm and of parseExpression, with left read so far.
Operations(read, text, loop, left, p) ==
  IF p > Len(text) \/ text[p] \notin OpsOf[loop] THEN <<left, p>>
  ELSE LET r == At(read, RightOperand[loop], p + 1)
           v == IF r = Throws THEN Throws ELSE Apply(text[p][2], left, r[1])
       IN  IF v = Throws THEN Throws ELSE read[<<loop, v, r[2]>>]

\* The parser of a text: for a level, what a loop has read so far and the place,
\* it gives the value and the place after it.
Parser(text, env) ==
  LET read[x \in {"factor", "term", "sum", "products", "sums"} \X Doubles \X (Nat \ {0})] ==
        CASE x[1] = "factor" -> Factor(read, text, env, x[3])
          [] x[1] = "term"   -> GoOn(read, "products", At(read, "factor", x[3]))
          [] x[1] = "sum"    -> GoOn(read, "sums", At(read, "term", x[3]))
          [] OTHER           -> Operations(read, text, x[1], x[2], x[3])
  IN  read

\* parse(): nothing may follow the expression.
Number(text, env) ==
  LET e == At(Parser(text, env), "sum", 1) IN
  IF e # Throws /\ e[2] > Len(text) THEN e[1] ELSE Throws

-----------------------------------------------------------------------------
(* ConstraintEvaluator.  Its tokens are pairs of type and value.           *)

WordToken(w) ==
  CASE w \in {"and", "AND"} -> <<"AND">>
    [] w \in {"or", "OR"}   -> <<"OR">>
    [] w \in {"not", "NOT"} -> <<"NOT">>
    [] Word(w) \in TrueWords  -> <<"NUMBER", Whole(1)>>
    [] Word(w) \in FalseWords -> <<"NUMBER", Whole(0)>>
    [] OTHER -> <<"IDENTIFIER", w>>

OpTokens(o) ==
  CASE o = "("  -> <<<<"LPAREN">>>>
    [] o = ")"  -> <<<<"RPAREN">>>>
    [] o = "&&" -> <<<<"AND">>>>
    [] o = "||" -> <<<<"OR">>>>
    [] o \in {"==", "!=", "<=", ">=", "<", ">", "=", "!"} -> <<<<"OPERATOR", o>>>>
    [] OTHER    -> <<>>     \* + - * / are skipped

\* tokenize(): a minus belongs to the digits right after it.
TokensAt(text, p) ==
  LET s == text[p] IN
  CASE s[1] = "name"   -> <<WordToken(s[2])>>
    [] s[1] = "quoted" -> <<<<"STRING", s[2]>>>>
    [] IsNumber(s)     -> <<<<"NUMBER", Stored(s, IF p > 1 /\ text[p - 1] = Sym("-")
                                                 THEN -1 ELSE 1)>>>>
    [] s[1] = "op"     -> OpTokens(s[2])
    [] OTHER           -> <<>>

Tokenize(text) ==
  LET upTo[n \in 0..Len(text)] ==
        IF n = 0 THEN <<>> ELSE upTo[n - 1] \o TokensAt(text, n)
  IN  Append(upTo[Len(text)], <<"END">>)

IsA(tokens, p, type) == p <= Len(tokens) /\ tokens[p][1] = type

Operand(token, env) ==
  CASE token[1] = "NUMBER" -> token[2]
    [] token[1] = "STRING" -> Text(token[2])
    [] token[1] = "IDENTIFIER" ->
         IF token[2] \in DOMAIN env THEN env[token[2]] ELSE Throws
    [] OTHER -> Unknown

\* A name alone, or a name, an operator and one more token.
Comparison(tokens, p, env) ==
  LET left == Operand(tokens[p], env) IN
  IF ~IsA(tokens, p + 1, "OPERATOR")
    THEN IF left = Throws THEN Throws
         ELSE LET b == AsBool(left) IN
              IF b = Throws THEN Throws ELSE <<b[2], p + 1>>
  ELSE IF p + 2 > Len(tokens) THEN Throws
  ELSE LET right == Operand(tokens[p + 2], env) IN
       IF Throws \in {left, right} THEN Throws
       ELSE <<Compare(left, tokens[p + 1][2], right), p + 3>>

\* What read gives at a level and a place.
From(read, level, p) == read[<<level, FALSE, p>>]

Primary(read, tokens, env, p) ==
  IF p > Len(tokens) THEN Throws
  ELSE CASE tokens[p][1] = "LPAREN" ->
              LET e == From(read, "or", p + 1) IN
              IF e # Throws /\ IsA(tokens, e[2], "RPAREN")
                THEN <<e[1], e[2] + 1>> ELSE Throws
         [] tokens[p][1] = "NUMBER" ->
              <<tokens[p][2] \notin {Whole(0), Double(<<0, 1>>)}, p + 1>>
         [] tokens[p][1] = "IDENTIFIER" -> Comparison(tokens, p, env)
         [] OTHER -> Throws

Not(read, tokens, env, p) ==
  IF IsA(tokens, p, "NOT")
    THEN LET e == From(read, "not", p + 1) IN
         IF e = Throws THEN Throws ELSE <<~e[1], e[2]>>
    ELSE Primary(read, tokens, env, p)

\* The loops of parseAndExpression and of parseOrExpression, with left read so
\* far.
Connective == [ands |-> "AND", ors |-> "OR"]
RightSide  == [ands |-> "not", ors |-> "and"]

\* Fault variant: the right side is not read when the left side decides.
GoesOnShort(tokens, loop, left, p) ==
  IsA(tokens, p, Connective[loop]) /\ left = (loop = "ands")

\* Both sides are always evaluated: neither may throw.
GoesOn(tokens, loop, left, p) == IsA(tokens, p, Connective[loop])

Connected(read, tokens, loop, left, p) ==
  IF ~GoesOn(tokens, loop, left, p) THEN <<left, p>>
  ELSE LET r == From(read, RightSide[loop], p + 1) IN
       IF r = Throws THEN Throws
       ELSE read[<<loop, IF loop = "ands" THEN left /\ r[1] ELSE left \/ r[1], r[2]>>]

Evaluator(tokens, env) ==
  LET read[x \in {"not", "and", "or", "ands", "ors"} \X BOOLEAN \X (Nat \ {0})] ==
        CASE x[1] = "not" -> Not(read, tokens, env, x[3])
          [] x[1] = "and" -> GoOn(read, "ands", From(read, "not", x[3]))
          [] x[1] = "or"  -> GoOn(read, "ors", From(read, "and", x[3]))
          [] OTHER        -> Connected(read, tokens, x[1], x[2], x[3])
  IN  read

\* evaluate(): an exception, like an empty text, is a condition not satisfied.
\* What follows the expression is not looked at.
Holds(text, env) ==
  LET tokens == Tokenize(text)
      e == From(Evaluator(tokens, env), "or", 1)
  IN  Len(tokens) > 1 /\ e # Throws /\ e[1]

-----------------------------------------------------------------------------
(* evaluateValueExpression                                                 *)

Comparisons == {Sym(o) : o \in {"==", "!=", ">=", "<=", ">", "<", "&&", "||"}}
Arithmetic  == {Sym(o) : o \in {"+", "-", "*", "/"}} \union {Word("sqrt")}

Contains(text, symbols) == \E p \in DOMAIN text : text[p] \in symbols

\* A text between two quotes loses them, whatever else is in between.
IsQuoted(text) == text[1][1] = "quoted" /\ text[Len(text)][1] = "quoted"

Unquoted(text) ==
  IF Len(text) = 1 THEN text[1][2]
  ELSE text[1][2] \o SubSeq(text, 2, Len(text) - 1) \o text[Len(text)][2]

\* A number without a fraction becomes an int.
Rounded(r) == IF r = Throws THEN Throws ELSE IF r[2] = 1 THEN Whole(r[1]) ELSE Double(r)

Value(text, env) ==
  CASE text = <<>>     -> Text(<<>>)
    [] text # <<>> /\ IsQuoted(text) -> Text(Unquoted(text))
    [] OTHER ->
         IF Len(text) = 1 /\ text[1] \in TrueWords THEN Flag(TRUE)
         ELSE IF Len(text) = 1 /\ text[1] \in FalseWords THEN Flag(FALSE)
         ELSE IF Len(text) = 1 /\ text[1][1] = "name" /\ text[1][2] \in DOMAIN env
           THEN env[text[1][2]]
         ELSE IF Contains(text, Comparisons) THEN Flag(Holds(text, env))
         ELSE IF NumberLiteral(text) # Throws THEN NumberLiteral(text)
         ELSE IF Contains(text, Arithmetic) THEN Rounded(Number(text, env))
         ELSE Text(text)
=============================================================================
