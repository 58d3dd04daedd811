------------------------- MODULE ExpressionGrammar --------------------------
(***************************************************************************)
(* What expressions mean, as a reference for the evaluators: phrases are   *)
(* built together with their meaning, on a stack, in any order the usual   *)
(* grammar allows, one kind at a time.  A phrase is a record of its kind   *)
(* ("num" or "cond"), its level (how tightly its outermost operator        *)
(* binds), its text, its meaning, and the numbers of leaves and operators  *)
(* in it.                                                                  *)
(***************************************************************************)
EXTENDS Expressions

CONSTANTS
  Symbols,    \* the symbols that texts are made of
  Leaves,     \* the phrases of one operand or one comparison: kind, text, val
  Env,        \* the visible variables
  MaxLeaves,  \* bounds on a phrase
  MaxOps

\* Words that are no names of variables.  What contains sqrt is no name either.
Keywords ==
  {Word(w) : w \in {"and", "AND", "or", "OR", "not", "NOT", "sqrt"}}
    \union TrueWords \union FalseWords

Names == {s \in Symbols : s = Word(s[2]) /\ s \notin Keywords}

Numerals == {s \in Symbols : IsNumber(s)}

\* A number, or a variable that is to be read as one.
IsNumericLeaf(l) ==
  /\ l.kind = "num"
  /\ \E s \in Numerals \union Names :
       /\ l.text = <<s>>
       /\ l.val = IF s \in Numerals THEN Double(Magnitude(s))
                  ELSE IF VariableToDouble(s[2], Env) = Throws THEN Throws
                  ELSE Double(VariableToDouble(s[2], Env))

Lookup(name) == IF name \in DOMAIN Env THEN Env[name] ELSE Throws

\* What may stand to the right of a comparison, and its value there.
RightOperands ==
  {[text |-> <<s>>, val |-> Stored(s, 1)] : s \in Numerals}
    \union {[text |-> <<Sym("-"), s>>, val |-> Stored(s, -1)] : s \in Numerals}
    \union {[text |-> <<s>>, val |-> Text(s[2])] : s \in {q \in Symbols : q[1] = "quoted"}}
    \union {[text |-> <<s>>, val |-> Lookup(s[2])] : s \in Names}
    \union {[text |-> <<s>>, val |-> Whole(1)] : s \in TrueWords}
    \union {[text |-> <<s>>, val |-> Whole(0)] : s \in FalseWords}

Compared == {"==", "!=", "<=", ">=", "<", ">", "="}

\* A number, a variable, or a variable compared with something.
IsConditionLeaf(l) ==
  /\ l.kind = "cond"
  /\ \/ \E s \in Numerals :
          l.text = <<s>> /\ l.val = Flag(Stored(s, 1) \notin {Whole(0), Double(<<0, 1>>)})
     \/ \E s \in Names :
          /\ l.text = <<s>>
          /\ l.val = IF Lookup(s[2]) = Throws THEN Throws ELSE AsBool(Lookup(s[2]))
     \/ \E s \in Names, o \in Compared, r \in RightOperands :
          /\ l.text = <<s, Sym(o)>> \o r.text
          /\ l.val = IF Throws \in {Lookup(s[2]), r.val} THEN Throws
                     ELSE Flag(Compare(Lookup(s[2]), o, r.val))

\* What a variable may hold.
Contents ==
  ({"int"} \X Int) \union ({"double"} \X Doubles) \union ({"bool"} \X BOOLEAN)
    \union ({"text"} \X Seq(Symbols))

ASSUME GrammarAssumption ==
  /\ \A s \in Symbols : IsNumber(s) => Magnitude(s) \in Doubles
  /\ \A l \in Leaves : IsNumericLeaf(l) \/ IsConditionLeaf(l)
  /\ \A n \in DOMAIN Env : Env[n] \in Contents
  /\ {Sym(o) : o \in {"(", ")", "+", "-", "*", "/", "!", "&&", "||"} \union Compared}
       \union Keywords \subseteq Symbols

VARIABLE stack

Total(field) == MapThenSumSet(LAMBDA i : stack[i][field], DOMAIN stack)

Phrase(kind, level, text, val, leaves, ops) ==
  [kind |-> kind, level |-> level, text |-> text, val |-> val,
   leaves |-> leaves, ops |-> ops]

GrammarInit == stack = <<>>

PushLeaf ==
  /\ Total("leaves") < MaxLeaves
  /\ \E l \in Leaves :
       /\ \A i \in DOMAIN stack : stack[i].kind = l.kind
       /\ stack' = Append(stack, Phrase(l.kind, 1, l.text, l.val, 1, 0))

Top == stack[Len(stack)]

Rest == SubSeq(stack, 1, Len(stack) - 1)

OneMore == Total("ops") < MaxOps

\* The top phrase becomes text, at a level, with a meaning.
Replace(level, text, val) ==
  stack' = Append(Rest, Phrase(Top.kind, level, text, val, Top.leaves, Top.ops + 1))

Enclose ==
  /\ stack # <<>> /\ OneMore
  /\ Replace(1, <<Sym("(")>> \o Top.text \o <<Sym(")")>>, Top.val)

Negate ==
  /\ stack # <<>> /\ OneMore /\ Top.kind = "num" /\ Top.level = 1
  /\ Replace(1, <<Sym("-")>> \o Top.text,
             IF Top.val = Throws THEN Throws ELSE Double(Minus(<<0, 1>>, Top.val[2])))

Roots == {<<1, 1>>, <<2, 1>>, <<1, 2>>}

\* The square root of what is a square.
SquareRoot ==
  /\ stack # <<>> /\ OneMore /\ Top.kind = "num"
  /\ \/ Top.val = Throws
     \/ \E r \in Roots : Top.val = Double(Times(r, r))
  /\ Replace(1, <<Word("sqrt"), Sym("(")>> \o Top.text \o <<Sym(")")>>,
             IF Top.val = Throws THEN Throws
             ELSE Double(CHOOSE r \in Roots : Top.val = Double(Times(r, r))))

NotOf ==
  /\ stack # <<>> /\ OneMore /\ Top.kind = "cond" /\ Top.level <= 2
  /\ Replace(2, <<Word("not")>> \o Top.text,
             IF Top.val = Throws THEN Throws ELSE Flag(~Top.val[2]))

\* The evaluator has no "!": the condition cannot be evaluated.
Bang ==
  /\ stack # <<>> /\ OneMore /\ Top.kind = "cond" /\ Top.level <= 2
  /\ Replace(2, <<Sym("!")>> \o Top.text, Throws)

\* How tightly each operator binds; what stands to its right binds tighter.
Binds == [o \in {"*", "/", "+", "-"} |-> IF o \in {"*", "/"} THEN 2 ELSE 3]
Joins == [o \in {"and", "&&", "or", "||"} |-> IF o \in {"and", "&&"} THEN 3 ELSE 4]

OpSymbol(o) == IF o \in {"and", "or"} THEN Word(o) ELSE Sym(o)

Both(o, a, b) ==
  IF Throws \in {a, b} THEN Throws
  ELSE IF o \in DOMAIN Binds THEN
    CASE o = "+" -> Double(Plus(a[2], b[2]))
      [] o = "-" -> Double(Minus(a[2], b[2]))
      [] o = "*" -> Double(Times(a[2], b[2]))
      [] o = "/" -> IF b[2][1] = 0 THEN Throws ELSE Double(Quotient(a[2], b[2]))
  ELSE IF Joins[o] = 3 THEN Flag(a[2] /\ b[2]) ELSE Flag(a[2] \/ b[2])

Combine(table, kind) ==
  /\ Len(stack) >= 2 /\ OneMore
  /\ LET a == stack[Len(stack) - 1]
         b == Top
     IN  /\ a.kind = kind /\ b.kind = kind
         /\ \E o \in DOMAIN table :
              /\ a.level <= table[o] /\ b.level < table[o]
              /\ stack' = Append(SubSeq(stack, 1, Len(stack) - 2),
                   Phrase(kind, table[o], a.text \o <<OpSymbol(o)>> \o b.text,
                          Both(o, a.val, b.val), a.leaves + b.leaves,
                          a.ops + b.ops + 1))

GrammarNext ==
  \/ PushLeaf \/ Enclose \/ Negate \/ SquareRoot \/ NotOf \/ Bang
  \/ Combine(Binds, "num") \/ Combine(Joins, "cond")

GrammarSpec == GrammarInit /\ [][GrammarNext]_stack

-----------------------------------------------------------------------------

\* Arithmetic means what it says: *, / before +, -, each from left to right,
\* and an unknown variable or a division by zero, wherever it stands, makes
\* the whole an exception.  A command stores the result as an int if it is
\* whole, unless a sign and a number are all of the text.
NumericAgrees == \A i \in DOMAIN stack :
  LET p == stack[i] IN
  p.kind = "num" =>
    LET r == IF p.val = Throws THEN Throws ELSE p.val[2] IN
    /\ Number(p.text, Env) = r
    /\ Contains(p.text, Arithmetic) =>
         /\ AsDouble(Value(p.text, Env)) = r
         /\ NumberLiteral(p.text) = Throws => Value(p.text, Env) = Rounded(r)

\* A condition is satisfied if it means TRUE, with not before and before or,
\* and if every operand of it can be evaluated, whatever the others say.
ConditionAgrees == \A i \in DOMAIN stack :
  LET p == stack[i] IN
  p.kind = "cond" => (Holds(p.text, Env) <=> p.val = Flag(TRUE))

\* A text without names is the same value to a task's parameter, stored by
\* setFromParams, and to a command, by evaluateValueExpression.
LiteralsAgree == \A i \in DOMAIN stack :
  LET text == stack[i].text IN
  Len(text) = 1 \/ NumberLiteral(text) # Throws =>
    Literal(text) = Value(text, [n \in {} |-> n])
=============================================================================
