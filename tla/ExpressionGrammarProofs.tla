---------------------- MODULE ExpressionGrammarProofs ----------------------
(***************************************************************************)
(* Both evaluators of expressions read every phrase of the grammar as what *)
(* it means, for phrases of any size: NumericAgrees, ConditionAgrees and   *)
(* LiteralsAgree hold in every reachable state.                            *)
(*                                                                         *)
(* The inductive invariant, PhrasesMean, says of each phrase on the stack  *)
(* how it is read inside any text: when a phrase of its level stands in a  *)
(* text from a place on, and what follows it is no operator that binds     *)
(* tighter, then the parser's function of that level returns the phrase's  *)
(* meaning and the place after it, or goes on with it in its loop.  The    *)
(* three properties speak of whole texts only, and of them alone nothing   *)
(* follows for a longer text: that is why they are not inductive.          *)
(*                                                                         *)
(* Before that, the parsers, which are functions defined by recursion, are *)
(* shown to exist and to satisfy their equations, and the tokens of a text *)
(* that is put together of two are shown to be those of its parts.         *)
(***************************************************************************)
EXTENDS ExpressionGrammar, SequenceTheorems, WellFoundedInduction, TLAPS

-----------------------------------------------------------------------------
(* Least elements, induction and recursion.                                *)

\* Every set of natural numbers that is not empty has a least element.
LEMMA LeastElement ==
  ASSUME NEW T \in SUBSET Nat, T # {}
  PROVE  \E n \in T : \A m \in T : n <= m
<1> DEFINE R == {ss \in Nat \X Nat : ss[1] < ss[2]}
<1>1. R = OpToRel(<, Nat) BY DEF OpToRel
<1>2. IsWellFoundedOn(R, Nat) BY <1>1, NatLessThanWellFounded
<1> HIDE DEF R
<1>3. PICK n \in T : \A m \in T : <<m, n>> \notin R BY <1>2, WFMin
<1>4. ASSUME NEW m \in T, m < n PROVE FALSE BY <1>3, <1>4 DEF R
<1> QED BY <1>4

\* Induction over the natural numbers, for a set of them.
LEMMA NatSet ==
  ASSUME NEW S \in SUBSET Nat, 0 \in S, \A n \in S : n + 1 \in S
  PROVE  S = Nat
<1> SUFFICES ASSUME Nat \ S # {} PROVE FALSE OBVIOUS
<1>1. PICK n \in Nat \ S : \A m \in Nat \ S : n <= m
  <2> DEFINE T == Nat \ S
  <2>1. T \in SUBSET Nat /\ T # {} OBVIOUS
  <2> HIDE DEF T
  <2>2. \E n \in T : \A m \in T : n <= m BY <2>1, LeastElement
  <2> QED BY <2>2 DEF T
<1>2. n # 0 /\ n - 1 \in Nat /\ ~(n <= n - 1) OBVIOUS
<1>3. n - 1 \in S BY <1>1, <1>2
<1>4. (n - 1) + 1 = n OBVIOUS
<1> QED BY <1>3, <1>4

\* The functions that give each argument x a result in R[x].
Results(D, R) == UNION {R[x] : x \in D}
Families(D, R) == {f \in [D -> Results(D, R)] : \A x \in D : f[x] \in R[x]}

\* A function that is to be Step of itself exists, if Step keeps to the results
\* in R and if its result at an argument depends only on those of lower rank.
LEMMA Recursion ==
  ASSUME NEW D, NEW R, NEW Step, NEW rank, NEW B \in Nat,
         NEW start \in Families(D, R),
         \A x \in D : rank[x] \in 0..B,
         \A f \in Families(D, R) : Step[f] \in Families(D, R),
         \A f, g \in Families(D, R) : \A x \in D :
           (\A y \in D : rank[y] < rank[x] => f[y] = g[y]) => Step[f][x] = Step[g][x]
  PROVE  \E f \in Families(D, R) : f = Step[f]
<1> DEFINE F == Families(D, R)
           S == {n \in Nat : \E f \in F : \A x \in D : rank[x] < n => f[x] = Step[f][x]}
<1>0. \A x \in D : rank[x] \in Nat /\ rank[x] < B + 1 OBVIOUS
<1>1. 0 \in S BY <1>0
<1>2. ASSUME NEW n \in S PROVE n + 1 \in S
  <2>1. PICK f \in F : \A x \in D : rank[x] < n => f[x] = Step[f][x] OBVIOUS
  <2>2. Step[f] \in F OBVIOUS
  <2> DEFINE g == [x \in D |-> IF rank[x] < n + 1 THEN Step[f][x] ELSE f[x]]
  <2>3. g \in F
    <3>1. \A x \in D : f[x] \in R[x] /\ Step[f][x] \in R[x] BY <2>2 DEF Families
    <3>2. \A x \in D : g[x] \in R[x] BY <3>1
    <3>3. \A x \in D : g[x] \in Results(D, R) BY <3>2 DEF Results
    <3>4. g \in [D -> Results(D, R)] BY <3>3
    <3> HIDE DEF g
    <3> QED BY <3>2, <3>4 DEF Families
  <2>4. ASSUME NEW x \in D, rank[x] < n + 1 PROVE g[x] = Step[g][x]
    <3>1. g[x] = Step[f][x] BY <2>4
    <3>2. ASSUME NEW y \in D, rank[y] < rank[x] PROVE f[y] = g[y]
      <4>1. rank[y] < n /\ rank[y] < n + 1 BY <1>0, <2>4, <3>2
      <4>2. g[y] = Step[f][y] BY <4>1
      <4> QED BY <2>1, <4>1, <4>2
    <3> HIDE DEF g
    <3>3. Step[f][x] = Step[g][x] BY <2>3, <3>2
    <3> QED BY <3>1, <3>3
  <2> HIDE DEF g
  <2> QED BY <2>3, <2>4
<1> HIDE DEF S
<1>3. S = Nat BY <1>1, <1>2, NatSet DEF S
<1>4. B + 1 \in S BY <1>3
<1>5. PICK f \in F : \A x \in D : rank[x] < B + 1 => f[x] = Step[f][x] BY <1>4 DEF S
<1>6. \A x \in D : f[x] = Step[f][x] BY <1>0, <1>5
<1>7. f \in [D -> Results(D, R)] /\ Step[f] \in [D -> Results(D, R)] BY DEF Families
<1> QED BY <1>6, <1>7

-----------------------------------------------------------------------------
(* Fractions.                                                              *)

\* A bounded set of natural numbers that is not empty has its Max.
LEMMA MaxIsIn ==
  ASSUME NEW N \in Nat, NEW K \in SUBSET (0..N), K # {}
  PROVE  Max(K) \in K
<1> DEFINE T == {m \in Nat : N - m \in K}
<1>1. \A k \in K : k \in 0..N /\ N - k \in Nat /\ N - (N - k) = k OBVIOUS
<1>2. T # {} BY <1>1
<1>3. PICK m \in T : \A j \in T : m <= j
  <2>1. T \in SUBSET Nat OBVIOUS
  <2> HIDE DEF T
  <2> QED BY <1>2, <2>1, LeastElement
<1>4. N - m \in K /\ m \in Nat OBVIOUS
<1>5. ASSUME NEW k \in K PROVE N - m >= k
  <2>1. N - k \in T BY <1>1
  <2>2. m <= N - k BY <1>3, <2>1
  <2> QED BY <1>1, <1>4, <2>2
<1>6. \E x \in K : \A y \in K : x >= y BY <1>4, <1>5
<1> QED BY <1>6 DEF Max

LEMMA Quotients ==
  ASSUME NEW d \in Nat \ {0}, NEW g \in Nat \ {0}, d % g = 0
  PROVE  d \div g \in Nat \ {0}
<1>1. d = g * (d \div g) + (d % g) /\ d \div g \in Int OBVIOUS
<1>2. d = g * (d \div g) BY <1>1
<1> DEFINE q == d \div g
<1>3. q \in Int /\ d = g * q BY <1>1, <1>2
<1> HIDE DEF q
<1>4. q > 0
  <2>1. ASSUME q <= 0 PROVE FALSE
    <3>1. g * q <= 0 BY <1>3, <2>1
    <3> QED BY <1>3, <3>1
  <2> QED BY <1>3, <2>1
<1> QED BY <1>3, <1>4 DEF q

LEMMA FractionType ==
  ASSUME NEW n \in Int, NEW d \in Int \ {0}
  PROVE  Fraction(n, d) \in Doubles
<1> DEFINE s == IF d < 0 THEN -1 ELSE 1
           size == IF n < 0 THEN -n ELSE n
           e == s * d
           K == {k \in 1..size : size % k = 0 /\ e % k = 0}
           g == IF n = 0 THEN e ELSE Max(K)
<1>1. s \in Int /\ e \in Nat \ {0} /\ size \in Nat /\ s * n \in Int
      /\ (n # 0 => size # 0)
  OBVIOUS
<1> HIDE DEF e, size
<1>2. g \in Nat \ {0} /\ e % g = 0
  <2>1. CASE n = 0
    <3>1. e % e = 0 BY <1>1
    <3> QED BY <1>1, <2>1, <3>1
  <2>2. CASE n # 0
    <3>1. 1 \in K BY <1>1, <2>2
    <3>2. K \in SUBSET (0..size) OBVIOUS
    <3> HIDE DEF K
    <3>3. Max(K) \in K BY <1>1, <3>1, <3>2, MaxIsIn
    <3> QED BY <2>2, <3>3 DEF K
  <2> QED BY <2>1, <2>2
<1>3. Fraction(n, d) = <<(s * n) \div g, e \div g>> BY DEF Fraction, e, size
<1> HIDE DEF g, s
<1>4. e \div g \in Nat \ {0} BY <1>1, <1>2, Quotients
<1>5. (s * n) \div g \in Int BY <1>1, <1>2
<1> QED BY <1>3, <1>4, <1>5 DEF Doubles

LEMMA DoublesAre ==
  ASSUME NEW r
  PROVE  r \in Doubles <=> r = <<r[1], r[2]>> /\ r[1] \in Int /\ r[2] \in Nat /\ r[2] # 0
BY DEF Doubles

LEMMA ArithmeticType ==
  ASSUME NEW a \in Doubles, NEW b \in Doubles
  PROVE  /\ Plus(a, b) \in Doubles /\ Minus(a, b) \in Doubles /\ Times(a, b) \in Doubles
         /\ b[1] # 0 => Quotient(a, b) \in Doubles
<1>1. /\ a[1] \in Int /\ b[1] \in Int /\ a[2] \in Nat \ {0} /\ b[2] \in Nat \ {0}
  BY DoublesAre
<1> DEFINE x == a[1]
           y == b[1]
           u == a[2]
           v == b[2]
<1>2. x \in Int /\ y \in Int /\ u \in Nat \ {0} /\ v \in Nat \ {0} BY <1>1
<1> HIDE DEF x, y, u, v
<1>3. u * v \in Int \ {0} BY <1>2
<1>4. y # 0 => u * y \in Int \ {0} BY <1>2
<1>5. x * v + y * u \in Int /\ x * v - y * u \in Int /\ x * y \in Int /\ x * v \in Int
  BY <1>2
<1>6. Plus(a, b) \in Doubles BY <1>3, <1>5, FractionType DEF Plus, x, y, u, v
<1>7. Minus(a, b) \in Doubles BY <1>3, <1>5, FractionType DEF Minus, x, y, u, v
<1>8. Times(a, b) \in Doubles BY <1>3, <1>5, FractionType DEF Times, x, y, u, v
<1>9. b[1] # 0 => Quotient(a, b) \in Doubles
  BY <1>4, <1>5, FractionType DEF Quotient, x, y, u, v
<1> QED BY <1>6, <1>7, <1>8, <1>9

LEMMA ApplyType ==
  ASSUME NEW o, NEW a \in Doubles, NEW b \in Doubles
  PROVE  Apply(o, a, b) = Throws \/ Apply(o, a, b) \in Doubles
BY ArithmeticType DEF Apply

LEMMA RootType ==
  ASSUME NEW a \in Doubles, IsSquare(a)
  PROVE  Root(a) \in Doubles
<1>1. a[1] \in Int /\ a[2] \in Nat /\ a[2] # 0 BY DoublesAre
<1>2. PICK r \in (0..a[1]) \X (1..a[2]) : Times(r, r) = a BY DEF IsSquare
<1>3. Root(a) \in (0..a[1]) \X (1..a[2]) BY <1>2 DEF Root
<1>4. (0..a[1]) \X (1..a[2]) \subseteq Doubles
  <2>1. (0..a[1]) \subseteq Int /\ (1..a[2]) \subseteq Nat \ {0} BY <1>1
  <2> QED BY <2>1 DEF Doubles
<1> QED BY <1>3, <1>4

\* A value is told from another by its type.
LEMMA NotThrows ==
  ASSUME NEW x, NEW y
  PROVE  /\ Whole(x) # Throws /\ Double(x) # Throws
         /\ Flag(x) # Throws /\ Text(x) # Throws /\ <<x, y>> # Throws
         /\ Whole(x)[1] = "int" /\ Double(x)[1] = "double"
         /\ Flag(x)[1] = "bool" /\ Text(x)[1] = "text"
         /\ Whole(x)[2] = x /\ Double(x)[2] = x /\ Flag(x)[2] = x /\ Text(x)[2] = x
BY DEF Whole, Double, Flag, Text, Throws

LEMMA DoubleIsValue == \A r \in Doubles : r # Throws
<1> TAKE r \in Doubles
<1>1. r = <<r[1], r[2]>> BY DoublesAre
<1> QED BY <1>1, NotThrows

-----------------------------------------------------------------------------
(* Parsers.  A parser that evaluates is a function on levels and places that*)
(* is defined by recursion; it exists, since each level reads only what comes*)
(* later in the text, or at the same place with a level that binds tighter.*)

\* What can be read from place q on: an exception, or a value of V and the place
\* after it.
After(V, q) == {Throws} \union {e \in V \X Nat : e[2] >= q}

Places(L, V) == L \X V \X (Nat \ {0})

\* The loops may read nothing more; the others read something, where something is.
Read(L, V, loops, N) ==
  [x \in Places(L, V) |->
     IF x[1] \in loops THEN After(V, x[3])
     ELSE IF x[3] <= N THEN After(V, x[3] + 1) ELSE {Throws}]

\* y may be read for x: it comes later in the text, or at the same place with
\* a level that binds tighter.
Inside(N, order, y, x) ==
  \/ x[3] <= N /\ y[3] > x[3]
  \/ y[3] = x[3] /\ order[y[1]] < order[x[1]]

LEMMA PlacesAre ==
  ASSUME NEW L, NEW V, NEW x \in Places(L, V)
  PROVE  x[1] \in L /\ x[2] \in V /\ x[3] \in Nat \ {0} /\ x = <<x[1], x[2], x[3]>>
BY DEF Places

LEMMA AfterIs ==
  ASSUME NEW V, NEW q, NEW e \in After(V, q), e # Throws
  PROVE  e[1] \in V /\ e[2] \in Nat /\ e[2] >= q /\ e = <<e[1], e[2]>>
BY DEF After

LEMMA AfterHas ==
  ASSUME NEW V, NEW q \in Nat, NEW v \in V, NEW k \in Nat, k >= q
  PROVE  <<v, k>> \in After(V, q)
BY DEF After

\* The same for parsers: Step reads at x only what is Inside it.
LEMMA ParserExists ==
  ASSUME NEW L, NEW V, NEW loops, NEW N \in Nat, NEW order, NEW Step,
         \A l \in L : order[l] \in 0..2,
         \A f \in Families(Places(L, V), Read(L, V, loops, N)) :
           Step[f] \in Families(Places(L, V), Read(L, V, loops, N)),
         \A f, g \in Families(Places(L, V), Read(L, V, loops, N)) :
           \A x \in Places(L, V) :
             (\A y \in Places(L, V) : Inside(N, order, y, x) => f[y] = g[y])
               => Step[f][x] = Step[g][x]
  PROVE  \E f \in Families(Places(L, V), Read(L, V, loops, N)) : f = Step[f]
<1> DEFINE D == Places(L, V)
           R == Read(L, V, loops, N)
           Left(p) == IF p <= N THEN N + 1 - p ELSE 0
           rank == [x \in D |-> 3 * Left(x[3]) + order[x[1]]]
           B == 3 * (N + 1) + 2
           start == [x \in D |-> Throws]
<1>1. \A x \in D : x[1] \in L /\ x[3] \in Nat /\ order[x[1]] \in 0..2 BY PlacesAre
<1>2. start \in Families(D, R)
  <2>1. \A x \in D : Throws \in R[x] BY DEF Read, After
  <2>2. \A x \in D : Throws \in Results(D, R) BY <2>1 DEF Results
  <2> HIDE DEF D, R
  <2> QED BY <2>1, <2>2 DEF Families
<1>3. B \in Nat OBVIOUS
<1>4. \A p \in Nat : Left(p) \in 0..(N + 1) OBVIOUS
<1>5. \A p, q \in Nat : p <= N /\ q > p => Left(q) < Left(p) OBVIOUS
<1> HIDE DEF D, R, Left, start
<1>6. \A x \in D : rank[x] \in 0..B
  <2> TAKE x \in D
  <2>1. Left(x[3]) \in 0..(N + 1) /\ order[x[1]] \in 0..2 BY <1>1, <1>4
  <2>2. rank[x] = 3 * Left(x[3]) + order[x[1]] OBVIOUS
  <2> QED BY <2>1, <2>2
<1>7. ASSUME NEW x \in D, NEW y \in D, Inside(N, order, y, x) PROVE rank[y] < rank[x]
  <2>1. /\ Left(x[3]) \in Nat /\ order[x[1]] \in 0..2
        /\ Left(y[3]) \in Nat /\ order[y[1]] \in 0..2
        /\ x[3] \in Nat /\ y[3] \in Nat
    BY <1>1, <1>4
  <2>2. rank[x] = 3 * Left(x[3]) + order[x[1]] /\ rank[y] = 3 * Left(y[3]) + order[y[1]]
    OBVIOUS
  <2>3. CASE x[3] <= N /\ y[3] > x[3]
    <3>1. Left(y[3]) < Left(x[3]) BY <1>5, <2>1, <2>3
    <3> HIDE DEF rank
    <3> QED BY <2>1, <2>2, <3>1
  <2>4. CASE y[3] = x[3] /\ order[y[1]] < order[x[1]] BY <2>1, <2>2, <2>4
  <2> QED BY <1>7, <2>3, <2>4 DEF Inside
<1> HIDE DEF rank, B
<1>8. \A f \in Families(D, R) : Step[f] \in Families(D, R) BY DEF D, R
<1>9. \A f, g \in Families(D, R) : \A x \in D :
        (\A y \in D : rank[y] < rank[x] => f[y] = g[y]) => Step[f][x] = Step[g][x]
  <2> TAKE f, g \in Families(D, R)
  <2> TAKE x \in D
  <2> HAVE \A y \in D : rank[y] < rank[x] => f[y] = g[y]
  <2>1. \A y \in D : Inside(N, order, y, x) => f[y] = g[y] BY <1>7
  <2> QED BY <2>1 DEF D, R
<1>10. \E f \in Families(D, R) : f = Step[f]
  BY <1>2, <1>3, <1>6, <1>8, <1>9, Recursion
<1> QED BY <1>10 DEF D, R

-----------------------------------------------------------------------------
(* The numeric parser reads only what it may read.                         *)

Texts == Seq(Symbols)

LEMMA TextsAre ==
  ASSUME NEW text \in Texts
  PROVE  /\ Len(text) \in Nat /\ DOMAIN text = 1..Len(text)
         /\ \A p \in 1..Len(text) : text[p] \in Symbols
BY DEF Texts

LEMMA ZeroOne == <<0, 1>> \in Doubles
BY DEF Doubles

LEMMA MagnitudeType ==
  ASSUME NEW s \in Symbols, IsNumber(s), NEW sign \in {1, -1}
  PROVE  /\ Magnitude(s) \in Doubles
         /\ AsDouble(Stored(s, sign)) \in Doubles
         /\ Stored(s, sign) # Throws
<1>1. Magnitude(s) \in Doubles BY GrammarAssumption
<1>2. CASE s[1] = "int"
  <2>1. <<s[2], 1>> \in Doubles BY <1>1, <1>2 DEF Magnitude
  <2>2. s[2] \in Int BY <2>1 DEF Doubles
  <2>3. sign * s[2] \in Int BY <2>2
  <2>4. Stored(s, sign) = Whole(sign * s[2]) BY <1>2 DEF Stored
  <2>5. AsDouble(Whole(sign * s[2])) = <<sign * s[2], 1>> BY NotThrows DEF AsDouble
  <2> QED BY <1>1, <2>3, <2>4, <2>5, NotThrows DEF Doubles
<1>3. CASE s[1] # "int"
  <2>1. s[2] \in Doubles BY <1>1, <1>3 DEF Magnitude
  <2>2. <<sign, 1>> \in Doubles BY DEF Doubles
  <2>3. Times(<<sign, 1>>, s[2]) \in Doubles BY <2>1, <2>2, ArithmeticType
  <2>4. Stored(s, sign) = Double(Times(<<sign, 1>>, s[2])) BY <1>3 DEF Stored
  <2>5. AsDouble(Stored(s, sign)) = Times(<<sign, 1>>, s[2])
    BY <2>4, NotThrows DEF AsDouble
  <2> QED BY <1>1, <2>3, <2>4, <2>5, NotThrows
<1> QED BY <1>2, <1>3

LEMMA VariableType ==
  ASSUME NEW name
  PROVE  VariableToDouble(name, Env) = Throws \/ VariableToDouble(name, Env) \in Doubles
<1>1. CASE name \notin DOMAIN Env BY <1>1 DEF VariableToDouble
<1>2. CASE name \in DOMAIN Env
  <2> DEFINE v == Env[name]
  <2>1. CASE v[1] = "int" /\ v[2] \in Int
    <3>1. VariableToDouble(name, Env) = <<v[2], 1>>
      BY <1>2, <2>1 DEF VariableToDouble, AsDouble
    <3> QED BY <2>1, <3>1 DEF Doubles
  <2>2. CASE v[1] = "double" /\ v[2] \in Doubles
    BY <1>2, <2>2 DEF VariableToDouble, AsDouble
  <2>3. CASE v[1] = "bool" /\ v[2] \in BOOLEAN
    <3>1. VariableToDouble(name, Env) = IF v[2] THEN <<1, 1>> ELSE <<0, 1>>
      BY <1>2, <2>3 DEF VariableToDouble
    <3>2. <<1, 1>> \in Doubles /\ <<0, 1>> \in Doubles BY DEF Doubles
    <3> QED BY <2>3, <3>1, <3>2
  <2>4. CASE v[1] = "text" /\ v[2] \in Texts
    <3> DEFINE t == v[2]
    <3>1. VariableToDouble(name, Env) = AsDouble(NumberLiteral(t))
      BY <1>2, <2>4 DEF VariableToDouble
    <3>2. Len(t) \in Nat /\ \A p \in 1..Len(t) : t[p] \in Symbols BY <2>4, TextsAre
    <3> HIDE DEF t
    <3>3. CASE Len(t) = 1 /\ IsNumber(t[1])
      <4>1. NumberLiteral(t) = Stored(t[1], 1) /\ t[1] \in Symbols
        BY <3>2, <3>3 DEF NumberLiteral
      <4> QED BY <3>1, <3>3, <4>1, MagnitudeType
    <3>4. CASE Len(t) = 2 /\ t[1] \in {Sym("-"), Sym("+")} /\ IsNumber(t[2])
      <4> DEFINE sign == IF t[1] = Sym("-") THEN -1 ELSE 1
      <4>1. NumberLiteral(t) = Stored(t[2], sign) /\ t[2] \in Symbols
        BY <3>2, <3>4 DEF NumberLiteral
      <4>2. sign \in {1, -1} OBVIOUS
      <4> HIDE DEF sign
      <4> QED BY <3>1, <3>4, <4>1, <4>2, MagnitudeType
    <3>5. CASE /\ ~(Len(t) = 1 /\ IsNumber(t[1]))
               /\ ~(Len(t) = 2 /\ t[1] \in {Sym("-"), Sym("+")} /\ IsNumber(t[2]))
      <4>1. NumberLiteral(t) = Throws BY <3>5 DEF NumberLiteral
      <4>2. AsDouble(Throws) = Throws BY DEF AsDouble, Throws
      <4> QED BY <3>1, <4>1, <4>2
    <3> QED BY <3>3, <3>4, <3>5
  <2>5. v \in Contents BY <1>2, GrammarAssumption
  <2> QED BY <2>1, <2>2, <2>3, <2>4, <2>5 DEF Contents, Texts
<1> QED BY <1>1, <1>2

-----------------------------------------------------------------------------

NumericLevels == {"factor", "term", "sum", "products", "sums"}
NumericLoops == {"products", "sums"}
NumericOrder ==
  [l \in NumericLevels |-> IF l = "sum" THEN 2 ELSE IF l = "term" THEN 1 ELSE 0]

NumericPlaces == Places(NumericLevels, Doubles)
NumericReads(text) ==
  Families(NumericPlaces, Read(NumericLevels, Doubles, NumericLoops, Len(text)))

\* What a level other than a loop may read at p.
Readings(V, p, N) == IF p <= N THEN After(V, p + 1) ELSE {Throws}

ParserStep(f, text, x) ==
  CASE x[1] = "factor" -> Factor(f, text, Env, x[3])
    [] x[1] = "term"   -> GoOn(f, "products", At(f, "factor", x[3]))
    [] x[1] = "sum"    -> GoOn(f, "sums", At(f, "term", x[3]))
    [] OTHER           -> Operations(f, text, x[1], x[2], x[3])

LEMMA NumericRead ==
  ASSUME NEW text, NEW f \in NumericReads(text), NEW p \in Nat \ {0}
  PROVE  /\ \A l \in {"factor", "term", "sum"} : At(f, l, p) \in Readings(Doubles, p, Len(text))
         /\ \A l \in NumericLoops, v \in Doubles : f[<<l, v, p>>] \in After(Doubles, p)
<1> DEFINE R == Read(NumericLevels, Doubles, NumericLoops, Len(text))
<1>1. \A x \in NumericPlaces : f[x] \in R[x] BY DEF NumericReads, Families
<1>2. ASSUME NEW l \in {"factor", "term", "sum"}
      PROVE  At(f, l, p) \in Readings(Doubles, p, Len(text))
  <2> DEFINE x == <<l, <<0, 1>>, p>>
  <2>1. x \in NumericPlaces BY ZeroOne DEF NumericPlaces, Places, NumericLevels
  <2>2. x[1] = l /\ x[3] = p /\ l \notin NumericLoops BY DEF NumericLoops
  <2>3. At(f, l, p) = f[x] BY DEF At
  <2> HIDE DEF x
  <2>4. R[x] = Readings(Doubles, p, Len(text))
    BY <2>1, <2>2 DEF Read, Readings, NumericPlaces
  <2> QED BY <1>1, <2>1, <2>3, <2>4
<1>3. ASSUME NEW l \in NumericLoops, NEW v \in Doubles
      PROVE  f[<<l, v, p>>] \in After(Doubles, p)
  <2> DEFINE x == <<l, v, p>>
  <2>1. x \in NumericPlaces BY DEF NumericPlaces, Places, NumericLevels, NumericLoops
  <2>2. x[1] = l /\ x[3] = p OBVIOUS
  <2> HIDE DEF x
  <2>3. R[x] = After(Doubles, p) BY <2>1, <2>2 DEF Read, NumericPlaces
  <2> QED BY <1>1, <2>1, <2>3 DEF x
<1> QED BY <1>2, <1>3

LEMMA AfterLater ==
  ASSUME NEW V, NEW q \in Nat, NEW k \in Nat, k >= q, NEW e \in After(V, k)
  PROVE  e \in After(V, q)
BY DEF After

LEMMA ReadingsAfter ==
  ASSUME NEW V, NEW p \in Nat, NEW N \in Nat, NEW e \in Readings(V, p, N)
  PROVE  /\ e # Throws => /\ p <= N /\ e \in After(V, p + 1)
                          /\ e[1] \in V /\ e[2] \in Nat /\ e[2] > p /\ e = <<e[1], e[2]>>
         /\ e \in After(V, p + 1)
<1>1. e \in After(V, p + 1) BY DEF Readings, After
<1>2. e # Throws => p <= N BY DEF Readings
<1> QED BY <1>1, <1>2, AfterIs

LEMMA EnclosedType ==
  ASSUME NEW text \in Texts, NEW f \in NumericReads(text), NEW p \in Nat \ {0}
  PROVE  Enclosed(f, text, p) \in After(Doubles, p)
<1> DEFINE e == At(f, "sum", p)
<1>1. e \in Readings(Doubles, p, Len(text)) /\ Len(text) \in Nat
  BY NumericRead, TextsAre
<1>2. CASE e # Throws /\ Is(text, e[2], ")")
  <2>1. e[1] \in Doubles /\ e[2] \in Nat /\ e[2] > p BY <1>1, <1>2, ReadingsAfter
  <2>2. <<e[1], e[2] + 1>> \in After(Doubles, p) BY <2>1, AfterHas
  <2> QED BY <1>2, <2>2 DEF Enclosed
<1>3. CASE ~(e # Throws /\ Is(text, e[2], ")"))
  <2>1. Enclosed(f, text, p) = Throws BY <1>3 DEF Enclosed
  <2> QED BY <2>1 DEF After
<1> QED BY <1>2, <1>3

LEMMA FactorType ==
  ASSUME NEW text \in Texts, NEW f \in NumericReads(text), NEW p \in Nat \ {0}
  PROVE  Factor(f, text, Env, p) \in Readings(Doubles, p, Len(text))
<1> DEFINE N == Len(text)
           A == After(Doubles, p + 1)
           e == At(f, "factor", p + 1)
<1>1. N \in Nat /\ \A q \in 1..N : text[q] \in Symbols BY TextsAre
<1>2. Throws \in A BY DEF After
<1>3. CASE p > N BY <1>1, <1>3 DEF Factor, Readings
<1>4. CASE p <= N
  <2>1. e \in After(Doubles, p + 2)
    <3>1. e \in Readings(Doubles, p + 1, N) BY NumericRead
    <3>2. e \in After(Doubles, (p + 1) + 1) BY <1>1, <3>1, ReadingsAfter
    <3>3. (p + 1) + 1 = p + 2 OBVIOUS
    <3> QED BY <3>2, <3>3
  <2>2. e \in A BY <2>1, AfterLater
  <2>3. Negated(e) \in A
    <3>1. CASE e = Throws BY <1>2, <3>1 DEF Negated
    <3>2. CASE e # Throws
      <4>1. e[1] \in Doubles /\ e[2] \in Nat /\ e[2] >= p + 1 BY <2>2, <3>2, AfterIs
      <4>2. Minus(<<0, 1>>, e[1]) \in Doubles BY <4>1, ZeroOne, ArithmeticType
      <4> QED BY <3>2, <4>1, <4>2, AfterHas DEF Negated
    <3> QED BY <3>1, <3>2
  <2>4. Enclosed(f, text, p + 1) \in A BY EnclosedType
  <2>5. Called(text[p][2], Enclosed(f, text, p + 2)) \in A
    <3> DEFINE c == Enclosed(f, text, p + 2)
               name == text[p][2]
    <3>1. c \in After(Doubles, p + 2) BY EnclosedType
    <3>2. CASE c = Throws \/ name # "sqrt" \/ ~IsSquare(c[1])
      BY <1>2, <3>2 DEF Called
    <3>3. CASE ~(c = Throws \/ name # "sqrt" \/ ~IsSquare(c[1]))
      <4>1. c[1] \in Doubles /\ c[2] \in Nat /\ c[2] >= p + 2 BY <3>1, <3>3, AfterIs
      <4>2. Root(c[1]) \in Doubles BY <3>3, <4>1, RootType
      <4>3. c[2] >= p + 1 BY <4>1
      <4>4. <<Root(c[1]), c[2]>> \in A BY <4>1, <4>2, <4>3, AfterHas
      <4> QED BY <3>3, <4>4 DEF Called
    <3> QED BY <3>2, <3>3
  <2>6. IsNumber(text[p]) => <<Magnitude(text[p]), p + 1>> \in A
    <3>1. p \in 1..N BY <1>1, <1>4
    <3>2. IsNumber(text[p]) => Magnitude(text[p]) \in Doubles
      BY <1>1, <3>1, GrammarAssumption
    <3> QED BY <3>2, AfterHas
  <2>7. Variable(text[p][2], Env, p) \in A
    <3> DEFINE v == VariableToDouble(text[p][2], Env)
    <3>1. v = Throws \/ v \in Doubles BY VariableType
    <3>2. v \in Doubles => <<v, p + 1>> \in A BY AfterHas
    <3> HIDE DEF v, A
    <3> QED BY <1>2, <3>1, <3>2 DEF Variable, v
  <2>8. Factor(f, text, Env, p) \in A
    <3> HIDE DEF A
    <3> QED BY <1>2, <1>4, <2>2, <2>3, <2>4, <2>5, <2>6, <2>7 DEF Factor
  <2> QED BY <1>4, <2>8 DEF Readings
<1> QED BY <1>3, <1>4

-----------------------------------------------------------------------------
(* The numeric parser exists.                                              *)

LEMMA ReadingIs ==
  ASSUME NEW V, NEW p \in Nat, NEW N \in Nat, NEW e \in Readings(V, p, N), e # Throws
  PROVE  p <= N /\ e[1] \in V /\ e[2] \in Nat /\ e[2] > p
BY ReadingsAfter

LEMMA OperationsType ==
  ASSUME NEW text \in Texts, NEW f \in NumericReads(text), NEW loop \in NumericLoops,
         NEW left \in Doubles, NEW p \in Nat \ {0}
  PROVE  Operations(f, text, loop, left, p) \in After(Doubles, p)
<1> DEFINE N == Len(text)
           A == After(Doubles, p)
           level == RightOperand[loop]
           r == At(f, level, p + 1)
           v == IF r = Throws THEN Throws ELSE Apply(text[p][2], left, r[1])
<1>1. N \in Nat BY TextsAre
<1>2. Throws \in A /\ <<left, p>> \in A BY AfterHas DEF After
<1>3. level \in {"factor", "term"} BY DEF RightOperand, NumericLoops
<1>4. r \in Readings(Doubles, p + 1, N) BY <1>3, NumericRead
<1>5. CASE v # Throws
  <2>1. r # Throws BY <1>5
  <2>2. /\ r[1] \in Doubles /\ r[2] \in Nat \ {0}
        /\ r[2] \in Nat /\ r[2] > p + 1 /\ r[2] >= p
    <3>1. r[1] \in Doubles /\ r[2] \in Nat /\ r[2] > p + 1
      BY <1>1, <1>4, <2>1, ReadingIs
    <3> HIDE DEF r
    <3> QED BY <3>1
  <2>3. v \in Doubles BY <1>5, <2>1, <2>2, ApplyType
  <2>4. f[<<loop, v, r[2]>>] \in After(Doubles, r[2]) BY <2>2, <2>3, NumericRead
  <2>5. f[<<loop, v, r[2]>>] \in A BY <2>2, <2>4, AfterLater
  <2>6. Operations(f, text, loop, left, p) \in {<<left, p>>, f[<<loop, v, r[2]>>]}
    BY <1>5 DEF Operations
  <2> QED BY <1>2, <2>5, <2>6
<1>6. CASE v = Throws
  <2>1. Operations(f, text, loop, left, p) \in {<<left, p>>, Throws}
    BY <1>6 DEF Operations
  <2> QED BY <1>2, <2>1
<1> QED BY <1>5, <1>6

LEMMA GoOnType ==
  ASSUME NEW text \in Texts, NEW f \in NumericReads(text), NEW loop \in NumericLoops,
         NEW p \in Nat \ {0}, NEW e \in Readings(Doubles, p, Len(text))
  PROVE  GoOn(f, loop, e) \in Readings(Doubles, p, Len(text))
<1> DEFINE N == Len(text)
<1>1. N \in Nat BY TextsAre
<1>2. CASE e = Throws BY <1>2 DEF GoOn
<1>3. CASE e # Throws
  <2>1. /\ e[1] \in Doubles /\ e[2] \in Nat /\ e[2] \in Nat \ {0}
        /\ e[2] >= p + 1 /\ p <= N
    <3>1. e[1] \in Doubles /\ e[2] \in Nat /\ e[2] > p /\ p <= N
      BY <1>1, <1>3, ReadingIs
    <3> QED BY <3>1
  <2>2. f[<<loop, e[1], e[2]>>] \in After(Doubles, e[2]) BY <2>1, NumericRead
  <2>3. f[<<loop, e[1], e[2]>>] \in After(Doubles, p + 1) BY <2>1, <2>2, AfterLater
  <2> QED BY <1>3, <2>1, <2>3 DEF GoOn, Readings
<1> QED BY <1>2, <1>3

LEMMA ParserStepType ==
  ASSUME NEW text \in Texts, NEW f \in NumericReads(text)
  PROVE  [x \in NumericPlaces |-> ParserStep(f, text, x)] \in NumericReads(text)
<1> DEFINE R == Read(NumericLevels, Doubles, NumericLoops, Len(text))
           g == [x \in NumericPlaces |-> ParserStep(f, text, x)]
<1>1. ASSUME NEW x \in NumericPlaces PROVE ParserStep(f, text, x) \in R[x]
  <2> DEFINE l == x[1]
             p == x[3]
  <2>1. l \in NumericLevels /\ x[2] \in Doubles /\ p \in Nat \ {0}
    BY PlacesAre DEF NumericPlaces
  <2>2. l \in NumericLoops => R[x] = After(Doubles, p) BY DEF Read, NumericPlaces
  <2>3. l \notin NumericLoops => R[x] = Readings(Doubles, p, Len(text))
    BY DEF Read, NumericPlaces, Readings
  <2>4. CASE l = "factor"
    BY <2>1, <2>3, <2>4, FactorType DEF ParserStep, NumericLoops
  <2>5. CASE l = "term"
    <3>1. At(f, "factor", p) \in Readings(Doubles, p, Len(text)) BY <2>1, NumericRead
    <3>2. GoOn(f, "products", At(f, "factor", p)) \in Readings(Doubles, p, Len(text))
      BY <2>1, <3>1, GoOnType DEF NumericLoops
    <3> QED BY <2>3, <2>5, <3>2 DEF ParserStep, NumericLoops
  <2>6. CASE l = "sum"
    <3>1. At(f, "term", p) \in Readings(Doubles, p, Len(text)) BY <2>1, NumericRead
    <3>2. GoOn(f, "sums", At(f, "term", p)) \in Readings(Doubles, p, Len(text))
      BY <2>1, <3>1, GoOnType DEF NumericLoops
    <3> QED BY <2>3, <2>6, <3>2 DEF ParserStep, NumericLoops
  <2>7. CASE l \in NumericLoops
    <3>1. ParserStep(f, text, x) = Operations(f, text, l, x[2], p)
      BY <2>7 DEF ParserStep, NumericLoops
    <3>2. Operations(f, text, l, x[2], p) \in After(Doubles, p)
      BY <2>1, <2>7, OperationsType
    <3> QED BY <2>2, <2>7, <3>1, <3>2
  <2> QED BY <2>1, <2>4, <2>5, <2>6, <2>7 DEF NumericLevels, NumericLoops
<1>2. \A x \in NumericPlaces : g[x] \in R[x] BY <1>1
<1>3. \A x \in NumericPlaces : g[x] \in Results(NumericPlaces, R) BY <1>2 DEF Results
<1> HIDE DEF R
<1>4. g \in [NumericPlaces -> Results(NumericPlaces, R)] BY <1>3
<1> HIDE DEF g
<1>5. g \in NumericReads(text) BY <1>2, <1>4 DEF NumericReads, Families, R
<1> QED BY <1>5 DEF g

\* What is read at a place rests only on what is read inside of it.
LEMMA FactorSame ==
  ASSUME NEW text \in Texts, NEW f, NEW g, NEW p \in Nat \ {0},
         \A l \in {"factor", "sum"}, q \in Nat \ {0} :
           p <= Len(text) /\ q > p => At(f, l, q) = At(g, l, q)
  PROVE  Factor(f, text, Env, p) = Factor(g, text, Env, p)
<1>1. CASE p > Len(text) BY <1>1 DEF Factor
<1>2. CASE ~(p > Len(text))
  <2>1. /\ p <= Len(text) /\ p + 1 \in Nat \ {0} /\ p + 2 \in Nat \ {0}
        /\ p + 1 > p /\ p + 2 > p
    BY <1>2, TextsAre
  <2>2. /\ At(f, "factor", p + 1) = At(g, "factor", p + 1)
        /\ At(f, "sum", p + 1) = At(g, "sum", p + 1)
        /\ At(f, "sum", p + 2) = At(g, "sum", p + 2)
    BY <2>1
  <2>3. /\ Enclosed(f, text, p + 1) = Enclosed(g, text, p + 1)
        /\ Enclosed(f, text, p + 2) = Enclosed(g, text, p + 2)
    BY <2>2 DEF Enclosed
  <2> QED BY <2>2, <2>3 DEF Factor
<1> QED BY <1>1, <1>2

LEMMA ParserStepSame ==
  ASSUME NEW text \in Texts, NEW f \in NumericReads(text), NEW g \in NumericReads(text),
         NEW x \in NumericPlaces,
         \A y \in NumericPlaces : Inside(Len(text), NumericOrder, y, x) => f[y] = g[y]
  PROVE  ParserStep(f, text, x) = ParserStep(g, text, x)
<1> DEFINE l == x[1]
           p == x[3]
           N == Len(text)
<1>1. l \in NumericLevels /\ x[2] \in Doubles /\ p \in Nat \ {0} /\ N \in Nat
  BY PlacesAre, TextsAre DEF NumericPlaces
<1>2. ASSUME NEW k \in NumericLevels, NEW v \in Doubles, NEW q \in Nat \ {0}, p <= N, q > p
      PROVE  f[<<k, v, q>>] = g[<<k, v, q>>]
  <2> DEFINE y == <<k, v, q>>
  <2>1. y \in NumericPlaces /\ y[3] = q BY DEF NumericPlaces, Places
  <2> HIDE DEF y
  <2>2. Inside(N, NumericOrder, y, x) BY <1>2, <2>1 DEF Inside
  <2>3. f[y] = g[y] BY <2>1, <2>2
  <2> QED BY <2>3 DEF y
<1>3. ASSUME NEW k \in NumericLevels, NumericOrder[k] < NumericOrder[l]
      PROVE  At(f, k, p) = At(g, k, p)
  <2> DEFINE y == <<k, <<0, 1>>, p>>
  <2>1. y \in NumericPlaces /\ y[3] = p /\ y[1] = k
    BY <1>1, ZeroOne DEF NumericPlaces, Places
  <2> HIDE DEF y
  <2>2. Inside(N, NumericOrder, y, x) BY <1>3, <2>1 DEF Inside
  <2>3. f[y] = g[y] BY <2>1, <2>2
  <2> QED BY <2>3 DEF y, At
<1>4. \A k \in NumericLevels, q \in Nat \ {0} :
        p <= N /\ q > p => At(f, k, q) = At(g, k, q)
  BY <1>2, ZeroOne DEF At
<1>5. ASSUME NEW loop \in NumericLoops, NEW e \in Readings(Doubles, p, N)
      PROVE  GoOn(f, loop, e) = GoOn(g, loop, e)
  <2>1. CASE e = Throws BY <2>1 DEF GoOn
  <2>2. CASE e # Throws
    <3>1. e[1] \in Doubles /\ e[2] \in Nat \ {0} /\ e[2] > p /\ p <= N
      BY <1>1, <2>2, ReadingIs
    <3>2. loop \in NumericLevels BY DEF NumericLoops, NumericLevels
    <3>3. f[<<loop, e[1], e[2]>>] = g[<<loop, e[1], e[2]>>] BY <1>2, <3>1, <3>2
    <3> QED BY <2>2, <3>3 DEF GoOn
  <2> QED BY <2>1, <2>2
<1>6. CASE l = "factor"
  <2>1. Factor(f, text, Env, p) = Factor(g, text, Env, p)
    BY <1>1, <1>4, FactorSame DEF NumericLevels
  <2> QED BY <1>6, <2>1 DEF ParserStep
<1>7. CASE l = "term"
  <2>1. "factor" \in NumericLevels /\ NumericOrder["factor"] < NumericOrder[l]
    BY <1>7 DEF NumericLevels, NumericOrder
  <2>2. At(f, "factor", p) = At(g, "factor", p) BY <1>3, <2>1
  <2>3. At(f, "factor", p) \in Readings(Doubles, p, N) BY <1>1, NumericRead
  <2>4. GoOn(f, "products", At(f, "factor", p)) = GoOn(g, "products", At(g, "factor", p))
    BY <1>5, <2>2, <2>3 DEF NumericLoops
  <2> QED BY <1>7, <2>4 DEF ParserStep
<1>8. CASE l = "sum"
  <2>1. "term" \in NumericLevels /\ NumericOrder["term"] < NumericOrder[l]
    BY <1>8 DEF NumericLevels, NumericOrder
  <2>2. At(f, "term", p) = At(g, "term", p) BY <1>3, <2>1
  <2>3. At(f, "term", p) \in Readings(Doubles, p, N) BY <1>1, NumericRead
  <2>4. GoOn(f, "sums", At(f, "term", p)) = GoOn(g, "sums", At(g, "term", p))
    BY <1>5, <2>2, <2>3 DEF NumericLoops
  <2> QED BY <1>8, <2>4 DEF ParserStep
<1>9. CASE l \in NumericLoops
  <2> DEFINE level == RightOperand[l]
             r == At(f, level, p + 1)
             v == IF r = Throws THEN Throws ELSE Apply(text[p][2], x[2], r[1])
  <2>1. level \in {"factor", "term"} BY <1>9 DEF RightOperand, NumericLoops
  <2>2. ParserStep(f, text, x) = Operations(f, text, l, x[2], p)
        /\ ParserStep(g, text, x) = Operations(g, text, l, x[2], p)
    BY <1>9 DEF ParserStep, NumericLoops
  <2>3. CASE p > N BY <2>2, <2>3 DEF Operations
  <2>4. CASE ~(p > N)
    <3>1. r = At(g, level, p + 1) /\ r \in Readings(Doubles, p + 1, N)
      BY <1>1, <1>4, <2>1, <2>4, NumericRead DEF NumericLevels
    <3>2. v # Throws => f[<<l, v, r[2]>>] = g[<<l, v, r[2]>>]
      <4> SUFFICES ASSUME v # Throws PROVE f[<<l, v, r[2]>>] = g[<<l, v, r[2]>>] OBVIOUS
      <4>1. r # Throws OBVIOUS
      <4>2. r[1] \in Doubles /\ r[2] \in Nat /\ r[2] > p + 1
        BY <1>1, <3>1, <4>1, ReadingIs
      <4>3. v \in Doubles BY <1>1, <4>1, <4>2, ApplyType
      <4>4. r[2] \in Nat \ {0} /\ r[2] > p /\ p <= N BY <1>1, <2>4, <4>2
      <4> QED BY <1>1, <1>2, <4>3, <4>4
    <3> QED BY <2>2, <3>1, <3>2 DEF Operations
  <2> QED BY <2>3, <2>4
<1> QED BY <1>1, <1>6, <1>7, <1>8, <1>9 DEF NumericLevels, NumericLoops

LEMMA ParserIs ==
  ASSUME NEW text \in Texts, NEW x \in NumericPlaces
  PROVE  Parser(text, Env)[x] = ParserStep(Parser(text, Env), text, x)
<1> DEFINE F == NumericReads(text)
           Step == [f \in F |-> [y \in NumericPlaces |-> ParserStep(f, text, y)]]
<1>1. \A f \in F : Step[f] \in F BY ParserStepType
<1>2. \A f, g \in F : \A y \in NumericPlaces :
        (\A z \in NumericPlaces : Inside(Len(text), NumericOrder, z, y) => f[z] = g[z])
          => Step[f][y] = Step[g][y]
  BY ParserStepSame
<1>3. \A l \in NumericLevels : NumericOrder[l] \in 0..2 BY DEF NumericOrder
<1>4. Len(text) \in Nat BY TextsAre
<1>5. \E f \in F : f = Step[f]
  <2> HIDE DEF Step
  <2> QED BY <1>1, <1>2, <1>3, <1>4, ParserExists DEF NumericReads, NumericPlaces
<1>6. \E f : f = [y \in NumericPlaces |-> ParserStep(f, text, y)] BY <1>5
<1>7. Parser(text, Env) =
        [y \in NumericPlaces |-> ParserStep(Parser(text, Env), text, y)]
  BY <1>6 DEF Parser, ParserStep, NumericPlaces, Places, NumericLevels
<1> QED BY <1>7

-----------------------------------------------------------------------------
(* How a numeric phrase is read, wherever it stands in a text.             *)

\* t stands in T after the first a symbols.
Sits(t, T, a) == a + Len(t) <= Len(T) /\ \A i \in 1..Len(t) : T[a + i] = t[i]

\* The result of reading a phrase that means val and ends before place k.
Res(val, k) == IF val = Throws THEN Throws ELSE <<val[2], k>>

NumberValues == {Throws} \union {Double(r) : r \in Doubles}

Reader(T) == Parser(T, Env)

FactorReads(t, val) == \A T \in Texts, a \in Nat :
  Sits(t, T, a) /\ ~Is(T, a + Len(t) + 1, "(") =>
    At(Reader(T), "factor", a + 1) = Res(val, a + Len(t) + 1)

TermReads(t, val) == \A T \in Texts, a \in Nat :
  Sits(t, T, a) /\ ~Is(T, a + Len(t) + 1, "(") =>
    At(Reader(T), "term", a + 1) = GoOn(Reader(T), "products", Res(val, a + Len(t) + 1))

SumReads(t, val) == \A T \in Texts, a \in Nat :
  Sits(t, T, a) /\ (\A o \in {"(", "*", "/"} : ~Is(T, a + Len(t) + 1, o)) =>
    At(Reader(T), "sum", a + 1) = GoOn(Reader(T), "sums", Res(val, a + Len(t) + 1))

LEMMA ReaderIs ==
  ASSUME NEW T \in Texts, NEW p \in Nat \ {0}
  PROVE  /\ At(Reader(T), "factor", p) = Factor(Reader(T), T, Env, p)
         /\ At(Reader(T), "term", p) = GoOn(Reader(T), "products", At(Reader(T), "factor", p))
         /\ At(Reader(T), "sum", p) = GoOn(Reader(T), "sums", At(Reader(T), "term", p))
         /\ \A loop \in NumericLoops, v \in Doubles :
              Reader(T)[<<loop, v, p>>] = Operations(Reader(T), T, loop, v, p)
<1> DEFINE z == <<0, 1>>
<1>1. ASSUME NEW l \in NumericLevels, NEW v \in Doubles
      PROVE  Reader(T)[<<l, v, p>>] = ParserStep(Reader(T), T, <<l, v, p>>)
  <2>1. <<l, v, p>> \in NumericPlaces BY DEF NumericPlaces, Places
  <2> QED BY <2>1, ParserIs DEF Reader
<1>2. z \in Doubles BY ZeroOne
<1>3. /\ Reader(T)[<<"factor", z, p>>] = Factor(Reader(T), T, Env, p)
      /\ Reader(T)[<<"term", z, p>>] = GoOn(Reader(T), "products", At(Reader(T), "factor", p))
      /\ Reader(T)[<<"sum", z, p>>] = GoOn(Reader(T), "sums", At(Reader(T), "term", p))
  BY <1>1, <1>2 DEF ParserStep, NumericLevels
<1>4. ASSUME NEW loop \in NumericLoops, NEW v \in Doubles
      PROVE  Reader(T)[<<loop, v, p>>] = Operations(Reader(T), T, loop, v, p)
  <2>1. loop \in NumericLevels BY DEF NumericLoops, NumericLevels
  <2> QED BY <1>1, <2>1 DEF ParserStep, NumericLoops
<1> QED BY <1>3, <1>4 DEF At

LEMMA NumberValuesAre ==
  ASSUME NEW v \in NumberValues
  PROVE  v # Throws => v[2] \in Doubles /\ v = Double(v[2]) /\ v[2] # Throws
<1>1. CASE v = Throws BY <1>1
<1>2. CASE v # Throws
  <2>1. PICK r \in Doubles : v = Double(r) BY <1>2 DEF NumberValues
  <2>2. v[2] = r BY <2>1, NotThrows
  <2> QED BY <2>1, <2>2, DoubleIsValue
<1> QED BY <1>1, <1>2

LEMMA ResIs ==
  ASSUME NEW r, NEW k
  PROVE  Res(Throws, k) = Throws /\ Res(Double(r), k) = <<r, k>> /\ <<r, k>> # Throws
BY NotThrows DEF Res

\* Where no operator of a loop follows, the loop ends.
LEMMA LoopEnds ==
  ASSUME NEW T \in Texts, NEW k \in Nat \ {0}, NEW loop \in NumericLoops,
         NEW val \in NumberValues, k > Len(T) \/ T[k] \notin OpsOf[loop]
  PROVE  GoOn(Reader(T), loop, Res(val, k)) = Res(val, k)
<1>1. CASE val = Throws BY <1>1 DEF GoOn, Res
<1>2. CASE val # Throws
  <2> DEFINE v == val[2]
  <2>1. v \in Doubles BY <1>2, NumberValuesAre
  <2>2. Res(val, k) = <<v, k>> /\ <<v, k>> # Throws BY <1>2, NotThrows DEF Res
  <2>3. GoOn(Reader(T), loop, <<v, k>>) = Reader(T)[<<loop, v, k>>] BY <2>2 DEF GoOn
  <2>4. Reader(T)[<<loop, v, k>>] = Operations(Reader(T), T, loop, v, k)
    BY <2>1, ReaderIs
  <2>5. Operations(Reader(T), T, loop, v, k) = <<v, k>> BY DEF Operations
  <2> QED BY <2>2, <2>3, <2>4, <2>5
<1> QED BY <1>1, <1>2

OperatorsOf == [products |-> {"*", "/"}, sums |-> {"+", "-"}]

NumericOperators == {"*", "/", "+", "-"}

LEMMA BothIs ==
  ASSUME NEW o \in NumericOperators, NEW a \in NumberValues, NEW b \in NumberValues
  PROVE  /\ Both(o, a, b) \in NumberValues
         /\ a = Throws \/ b = Throws \/ Apply(o, a[2], b[2]) = Throws => Both(o, a, b) = Throws
         /\ a # Throws /\ b # Throws /\ Apply(o, a[2], b[2]) # Throws =>
              Both(o, a, b) = Double(Apply(o, a[2], b[2]))
<1>1. CASE Throws \in {a, b} BY <1>1 DEF Both, NumberValues
<1>2. CASE Throws \notin {a, b}
  <2> DEFINE x == a[2]
             y == b[2]
  <2>1. x \in Doubles /\ y \in Doubles BY <1>2, NumberValuesAre
  <2> HIDE DEF x, y
  <2>2. DOMAIN Binds = {"*", "/", "+", "-"} BY DEF Binds
  <2>4. \A r \in Doubles : Double(r) \in NumberValues /\ r # Throws
    BY DoubleIsValue DEF NumberValues
  <2>5. Throws \in NumberValues BY DEF NumberValues
  <2>6. CASE o = "+"
    <3>1. Both(o, a, b) = Double(Plus(x, y)) BY <1>2, <2>2, <2>6 DEF Both, x, y
    <3>2. Apply(o, x, y) = Plus(x, y) /\ Plus(x, y) \in Doubles
      BY <2>1, <2>6, ArithmeticType DEF Apply
    <3> QED BY <1>2, <2>4, <3>1, <3>2 DEF x, y
  <2>7. CASE o = "-"
    <3>1. Both(o, a, b) = Double(Minus(x, y)) BY <1>2, <2>2, <2>7 DEF Both, x, y
    <3>2. Apply(o, x, y) = Minus(x, y) /\ Minus(x, y) \in Doubles
      BY <2>1, <2>7, ArithmeticType DEF Apply
    <3> QED BY <1>2, <2>4, <3>1, <3>2 DEF x, y
  <2>8. CASE o = "*"
    <3>1. Both(o, a, b) = Double(Times(x, y)) BY <1>2, <2>2, <2>8 DEF Both, x, y
    <3>2. Apply(o, x, y) = Times(x, y) /\ Times(x, y) \in Doubles
      BY <2>1, <2>8, ArithmeticType DEF Apply
    <3> QED BY <1>2, <2>4, <3>1, <3>2 DEF x, y
  <2>9. CASE o = "/" /\ y[1] = 0
    <3>1. Both(o, a, b) = Throws BY <1>2, <2>2, <2>9 DEF Both, x, y
    <3>2. Apply(o, x, y) = Throws BY <2>9 DEF Apply
    <3> QED BY <2>5, <3>1, <3>2 DEF x, y
  <2>10. CASE o = "/" /\ y[1] # 0
    <3>1. Both(o, a, b) = Double(Quotient(x, y)) BY <1>2, <2>2, <2>10 DEF Both, x, y
    <3>2. Apply(o, x, y) = Quotient(x, y) /\ Quotient(x, y) \in Doubles
      BY <2>1, <2>10, ArithmeticType DEF Apply
    <3> QED BY <1>2, <2>4, <3>1, <3>2 DEF x, y
  <2> QED BY <2>6, <2>7, <2>8, <2>9, <2>10 DEF NumericOperators
<1> QED BY <1>1, <1>2

\* Where an operator of the loop follows and then its right operand, the loop goes
\* on with what the operator makes of both.
LEMMA LoopStep ==
  ASSUME NEW T \in Texts, NEW k \in Nat \ {0}, NEW m \in Nat \ {0},
         NEW loop \in NumericLoops, NEW o \in OperatorsOf[loop],
         NEW a \in NumberValues, NEW b \in NumberValues,
         Is(T, k, o), At(Reader(T), RightOperand[loop], k + 1) = Res(b, m)
  PROVE  GoOn(Reader(T), loop, Res(a, k)) = GoOn(Reader(T), loop, Res(Both(o, a, b), m))
<1>1. CASE a = Throws BY <1>1 DEF GoOn, Res, Both
<1>2. CASE a # Throws
  <2> DEFINE x == a[2]
             y == b[2]
             r == At(Reader(T), RightOperand[loop], k + 1)
             c == IF r = Throws THEN Throws ELSE Apply(T[k][2], x, r[1])
             d == Both(o, a, b)
  <2>1. x \in Doubles BY <1>2, NumberValuesAre
  <2>2. Res(a, k) = <<x, k>> /\ <<x, k>> # Throws BY <1>2, NotThrows DEF Res
  <2>3. GoOn(Reader(T), loop, Res(a, k)) = Operations(Reader(T), T, loop, x, k)
    <3>1. Reader(T)[<<loop, x, k>>] = Operations(Reader(T), T, loop, x, k)
      BY <2>1, ReaderIs
    <3> QED BY <2>2, <3>1 DEF GoOn
  <2>4. k <= Len(T) /\ T[k] = Sym(o) /\ T[k][2] = o /\ T[k] \in OpsOf[loop]
    BY DEF Is, Sym, OpsOf, OperatorsOf, NumericLoops
  <2>5. ~(k > Len(T)) BY <2>4, TextsAre
  <2>6. Operations(Reader(T), T, loop, x, k) =
          IF c = Throws THEN Throws ELSE Reader(T)[<<loop, c, r[2]>>]
    BY <2>4, <2>5 DEF Operations
  <2>7. o \in NumericOperators BY DEF OperatorsOf, NumericLoops, NumericOperators
  <2>8. /\ b = Throws \/ Apply(o, x, y) = Throws => d = Throws
        /\ b # Throws /\ Apply(o, x, y) # Throws => d = Double(Apply(o, x, y))
    BY <1>2, <2>7, BothIs
  <2>9. CASE b = Throws
    <3>1. r = Throws BY <2>9 DEF Res
    <3>2. d = Throws BY <2>8, <2>9
    <3> QED BY <2>3, <2>6, <3>1, <3>2 DEF GoOn, Res
  <2>10. CASE b # Throws
    <3>1. r = <<y, m>> /\ r # Throws BY <2>10, NotThrows DEF Res
    <3>2. c = Apply(o, x, y) /\ r[2] = m BY <2>4, <3>1
    <3>3. CASE c = Throws
      <4>1. d = Throws BY <2>8, <3>2, <3>3
      <4> QED BY <2>3, <2>6, <3>3, <4>1 DEF GoOn, Res
    <3>4. CASE c # Throws
      <4>1. d = Double(c) BY <1>2, <2>8, <2>10, <3>2, <3>4
      <4>2. Res(d, m) = <<c, m>> /\ <<c, m>> # Throws BY <4>1, ResIs
      <4>3. GoOn(Reader(T), loop, Res(d, m)) = Reader(T)[<<loop, c, m>>]
        BY <4>2 DEF GoOn
      <4> QED BY <2>3, <2>6, <3>2, <3>4, <4>3
    <3> QED BY <3>3, <3>4
  <2> QED BY <2>9, <2>10
<1> QED BY <1>1, <1>2

-----------------------------------------------------------------------------
(* Phrases that stand in texts.                                            *)

LEMMA SymbolsHave ==
  /\ Sym("(") \in Symbols /\ Sym(")") \in Symbols /\ Sym("-") \in Symbols
  /\ Sym("+") \in Symbols /\ Sym("*") \in Symbols /\ Sym("/") \in Symbols
  /\ Sym("!") \in Symbols /\ Sym("&&") \in Symbols /\ Sym("||") \in Symbols
  /\ Keywords \subseteq Symbols /\ \A o \in Compared : Sym(o) \in Symbols
<1>1. {Sym(o) : o \in {"(", ")", "+", "-", "*", "/", "!", "&&", "||"} \union Compared}
        \union Keywords \subseteq Symbols
  BY GrammarAssumption
<1> QED BY <1>1

LEMMA SitsApart ==
  ASSUME NEW S, NEW u \in Seq(S), NEW t \in Seq(S), NEW T \in Seq(S), NEW a \in Nat
  PROVE  /\ u \o t \in Seq(S) /\ Len(u \o t) = Len(u) + Len(t)
         /\ Sits(u \o t, T, a) => Sits(u, T, a) /\ Sits(t, T, a + Len(u))
<1> DEFINE w == u \o t
           m == Len(u)
           n == Len(t)
<1>1. /\ w \in Seq(S) /\ Len(w) = m + n
      /\ \A i \in 1..(m + n) : w[i] = IF i <= m THEN u[i] ELSE t[i - m]
  BY ConcatProperties
<1>2. m \in Nat /\ n \in Nat /\ Len(T) \in Nat BY LenProperties
<1> HIDE DEF w, m, n
<1>3. ASSUME Sits(w, T, a) PROVE Sits(u, T, a) /\ Sits(t, T, a + m)
  <2>1. /\ a + (m + n) <= Len(T)
        /\ \A i \in 1..(m + n) : T[a + i] = w[i]
    BY <1>1, <1>3 DEF Sits
  <2>2. a + m <= Len(T) /\ (a + m) + n <= Len(T) BY <1>2, <2>1
  <2>3. \A i \in 1..m : T[a + i] = u[i]
    <3> TAKE i \in 1..m
    <3>1. i \in 1..(m + n) /\ i <= m BY <1>2
    <3>2. w[i] = u[i] BY <1>1, <3>1
    <3> QED BY <2>1, <3>1, <3>2
  <2>4. \A i \in 1..n : T[(a + m) + i] = t[i]
    <3> TAKE i \in 1..n
    <3> DEFINE j == m + i
    <3>1. j \in 1..(m + n) /\ ~(j <= m) /\ j - m = i /\ (a + m) + i = a + j BY <1>2
    <3> HIDE DEF j
    <3>2. w[j] = t[i] BY <1>1, <3>1
    <3> QED BY <2>1, <3>1, <3>2
  <2> QED BY <2>2, <2>3, <2>4 DEF Sits, m, n
<1> QED BY <1>1, <1>3 DEF w, m, n

LEMMA SitsOne ==
  ASSUME NEW s, NEW T, NEW a \in Nat
  PROVE  Sits(<<s>>, T, a) => a + 1 <= Len(T) /\ T[a + 1] = s
BY DEF Sits

\* A phrase between two symbols.
LEMMA Between ==
  ASSUME NEW S, NEW s \in S, NEW t \in Seq(S), NEW e \in S, NEW T \in Seq(S), NEW a \in Nat
  PROVE  /\ <<s>> \o t \o <<e>> \in Seq(S) /\ Len(<<s>> \o t \o <<e>>) = Len(t) + 2
         /\ Sits(<<s>> \o t \o <<e>>, T, a) =>
              /\ Sits(t, T, a + 1) /\ T[a + 1] = s /\ a + 1 <= Len(T)
              /\ T[a + Len(t) + 2] = e /\ a + Len(t) + 2 <= Len(T)
<1>1. <<s>> \in Seq(S) /\ <<e>> \in Seq(S) /\ Len(<<s>>) = 1 /\ Len(<<e>>) = 1
      /\ Len(t) \in Nat
  OBVIOUS
<1> DEFINE u == <<s>>
           v == <<e>>
<1>2. u \in Seq(S) /\ v \in Seq(S) /\ Len(u) = 1 /\ Len(v) = 1 BY <1>1
<1>3. /\ Sits(u, T, a) => a + 1 <= Len(T) /\ T[a + 1] = s
      /\ Sits(v, T, a + (1 + Len(t))) =>
           (a + (1 + Len(t))) + 1 <= Len(T) /\ T[(a + (1 + Len(t))) + 1] = e
  BY <1>1, SitsOne
<1> HIDE DEF u, v
<1>4. /\ u \o t \in Seq(S) /\ Len(u \o t) = 1 + Len(t)
      /\ Sits(u \o t, T, a) => Sits(u, T, a) /\ Sits(t, T, a + 1)
  BY <1>2, SitsApart
<1>5. /\ (u \o t) \o v \in Seq(S) /\ Len((u \o t) \o v) = (1 + Len(t)) + 1
      /\ Sits((u \o t) \o v, T, a) => Sits(u \o t, T, a) /\ Sits(v, T, a + (1 + Len(t)))
  <2> DEFINE w == u \o t
  <2>1. w \in Seq(S) /\ Len(w) = 1 + Len(t) BY <1>4
  <2> HIDE DEF w
  <2>2. /\ w \o v \in Seq(S) /\ Len(w \o v) = Len(w) + Len(v)
        /\ Sits(w \o v, T, a) => Sits(w, T, a) /\ Sits(v, T, a + Len(w))
    BY <1>2, <2>1, SitsApart
  <2> QED BY <1>2, <2>1, <2>2 DEF w
<1>6. (a + (1 + Len(t))) + 1 = a + Len(t) + 2 /\ (1 + Len(t)) + 1 = Len(t) + 2 BY <1>1
<1>7. /\ (u \o t) \o v \in Seq(S) /\ Len((u \o t) \o v) = Len(t) + 2
      /\ Sits((u \o t) \o v, T, a) =>
              /\ Sits(t, T, a + 1) /\ T[a + 1] = s /\ a + 1 <= Len(T)
              /\ T[a + Len(t) + 2] = e /\ a + Len(t) + 2 <= Len(T)
  BY <1>3, <1>4, <1>5, <1>6
<1> QED BY <1>7 DEF u, v

\* Two phrases with a symbol between.
LEMMA Joined ==
  ASSUME NEW S, NEW u \in Seq(S), NEW s \in S, NEW t \in Seq(S), NEW T \in Seq(S), NEW a \in Nat
  PROVE  /\ u \o <<s>> \o t \in Seq(S) /\ Len(u \o <<s>> \o t) = Len(u) + 1 + Len(t)
         /\ Sits(u \o <<s>> \o t, T, a) =>
              /\ Sits(u, T, a) /\ Sits(t, T, a + Len(u) + 1)
              /\ T[a + Len(u) + 1] = s /\ a + Len(u) + 1 <= Len(T)
<1> DEFINE v == <<s>>
<1>1. v \in Seq(S) /\ Len(v) = 1 /\ Len(u) \in Nat /\ Len(t) \in Nat OBVIOUS
<1>2. Sits(v, T, a + Len(u)) => (a + Len(u)) + 1 <= Len(T) /\ T[(a + Len(u)) + 1] = s
  BY <1>1, SitsOne
<1> HIDE DEF v
<1>3. /\ u \o v \in Seq(S) /\ Len(u \o v) = Len(u) + 1
      /\ Sits(u \o v, T, a) => Sits(u, T, a) /\ Sits(v, T, a + Len(u))
  BY <1>1, SitsApart
<1>4. /\ (u \o v) \o t \in Seq(S) /\ Len((u \o v) \o t) = (Len(u) + 1) + Len(t)
      /\ Sits((u \o v) \o t, T, a) => Sits(u \o v, T, a) /\ Sits(t, T, a + (Len(u) + 1))
  BY <1>3, SitsApart
<1>5. a + (Len(u) + 1) = a + Len(u) + 1 /\ (a + Len(u)) + 1 = a + Len(u) + 1 BY <1>1
<1>6. /\ (u \o v) \o t \in Seq(S) /\ Len((u \o v) \o t) = Len(u) + 1 + Len(t)
      /\ Sits((u \o v) \o t, T, a) =>
              /\ Sits(u, T, a) /\ Sits(t, T, a + Len(u) + 1)
              /\ T[a + Len(u) + 1] = s /\ a + Len(u) + 1 <= Len(T)
  BY <1>2, <1>3, <1>4, <1>5
<1> QED BY <1>6 DEF v

\* A symbol in front of a phrase.
LEMMA InFront ==
  ASSUME NEW S, NEW s \in S, NEW t \in Seq(S), NEW T \in Seq(S), NEW a \in Nat
  PROVE  /\ <<s>> \o t \in Seq(S) /\ Len(<<s>> \o t) = Len(t) + 1
         /\ Sits(<<s>> \o t, T, a) => Sits(t, T, a + 1) /\ T[a + 1] = s /\ a + 1 <= Len(T)
<1> DEFINE v == <<s>>
<1>1. v \in Seq(S) /\ Len(v) = 1 /\ Len(t) \in Nat OBVIOUS
<1>2. Sits(v, T, a) => a + 1 <= Len(T) /\ T[a + 1] = s BY <1>1, SitsOne
<1> HIDE DEF v
<1>3. /\ v \o t \in Seq(S) /\ Len(v \o t) = 1 + Len(t)
      /\ Sits(v \o t, T, a) => Sits(v, T, a) /\ Sits(t, T, a + 1)
  BY <1>1, SitsApart
<1>4. 1 + Len(t) = Len(t) + 1 BY <1>1
<1> QED BY <1>2, <1>3, <1>4 DEF v

-----------------------------------------------------------------------------

LEMMA TermFromFactor ==
  ASSUME NEW t \in Texts, NEW val \in NumberValues, FactorReads(t, val)
  PROVE  TermReads(t, val)
<1> SUFFICES ASSUME NEW T \in Texts, NEW a \in Nat,
                    Sits(t, T, a) /\ ~Is(T, a + Len(t) + 1, "(")
             PROVE  At(Reader(T), "term", a + 1) =
                      GoOn(Reader(T), "products", Res(val, a + Len(t) + 1))
  BY DEF TermReads
<1>1. At(Reader(T), "factor", a + 1) = Res(val, a + Len(t) + 1) BY DEF FactorReads
<1>2. a + 1 \in Nat \ {0} OBVIOUS
<1> QED BY <1>1, <1>2, ReaderIs

LEMMA SumFromTerm ==
  ASSUME NEW t \in Texts, NEW val \in NumberValues, TermReads(t, val)
  PROVE  SumReads(t, val)
<1> SUFFICES ASSUME NEW T \in Texts, NEW a \in Nat, Sits(t, T, a),
                    \A o \in {"(", "*", "/"} : ~Is(T, a + Len(t) + 1, o)
             PROVE  At(Reader(T), "sum", a + 1) =
                      GoOn(Reader(T), "sums", Res(val, a + Len(t) + 1))
  BY DEF SumReads
<1> DEFINE k == a + Len(t) + 1
<1>1. k \in Nat \ {0} /\ a + 1 \in Nat \ {0} BY TextsAre
<1>2. ~Is(T, k, "(") /\ ~Is(T, k, "*") /\ ~Is(T, k, "/") OBVIOUS
<1>3. At(Reader(T), "term", a + 1) = GoOn(Reader(T), "products", Res(val, k))
  BY <1>2 DEF TermReads
<1> HIDE DEF k
<1>4. k > Len(T) \/ T[k] \notin OpsOf["products"] BY <1>1, <1>2, TextsAre DEF Is, OpsOf
<1>5. GoOn(Reader(T), "products", Res(val, k)) = Res(val, k)
  BY <1>1, <1>4, LoopEnds DEF NumericLoops
<1> QED BY <1>1, <1>3, <1>5, ReaderIs DEF k

\* What follows a sum ends it, if it is no operator and no parenthesis opens.
LEMMA SumEnds ==
  ASSUME NEW t \in Texts, NEW val \in NumberValues, SumReads(t, val),
         NEW T \in Texts, NEW a \in Nat, Sits(t, T, a),
         \A o \in {"(", "*", "/", "+", "-"} : ~Is(T, a + Len(t) + 1, o)
  PROVE  At(Reader(T), "sum", a + 1) = Res(val, a + Len(t) + 1)
<1> DEFINE k == a + Len(t) + 1
<1>1. k \in Nat \ {0} BY TextsAre
<1>2. ~Is(T, k, "(") /\ ~Is(T, k, "*") /\ ~Is(T, k, "/") /\ ~Is(T, k, "+") /\ ~Is(T, k, "-")
  OBVIOUS
<1>3. At(Reader(T), "sum", a + 1) = GoOn(Reader(T), "sums", Res(val, k))
  BY <1>2 DEF SumReads
<1> HIDE DEF k
<1>4. k > Len(T) \/ T[k] \notin OpsOf["sums"] BY <1>1, <1>2, TextsAre DEF Is, OpsOf
<1>5. GoOn(Reader(T), "sums", Res(val, k)) = Res(val, k)
  BY <1>1, <1>4, LoopEnds DEF NumericLoops
<1> QED BY <1>3, <1>5 DEF k

LEMMA EnclosedReads ==
  ASSUME NEW t \in Texts, NEW val \in NumberValues, SumReads(t, val),
         NEW T \in Texts, NEW a \in Nat, Sits(t, T, a), Is(T, a + Len(t) + 1, ")")
  PROVE  Enclosed(Reader(T), T, a + 1) = Res(val, a + Len(t) + 2)
<1> DEFINE k == a + Len(t) + 1
<1>1. k \in Nat \ {0} /\ k + 1 = a + Len(t) + 2 BY TextsAre
<1>2. \A o \in {"(", "*", "/", "+", "-"} : ~Is(T, k, o) BY DEF Is, Sym
<1>3. At(Reader(T), "sum", a + 1) = Res(val, k) BY <1>2, SumEnds
<1>4. Is(T, k, ")") OBVIOUS
<1> HIDE DEF k
<1>5. CASE val = Throws BY <1>3, <1>5 DEF Enclosed, Res
<1>6. CASE val # Throws
  <2>1. Res(val, k) = <<val[2], k>> /\ <<val[2], k>> # Throws
        /\ Res(val, k + 1) = <<val[2], k + 1>>
    BY <1>6, NotThrows DEF Res
  <2> QED BY <1>1, <1>3, <1>4, <2>1 DEF Enclosed
<1> QED BY <1>5, <1>6

-----------------------------------------------------------------------------
(* Roots.                                                                  *)

LEMMA DividesOne ==
  ASSUME NEW k \in Nat \ {0}, 1 % k = 0
  PROVE  k = 1
<1>1. 1 = k * (1 \div k) + (1 % k) /\ 1 \div k \in Int OBVIOUS
<1> DEFINE q == 1 \div k
<1>2. q \in Int /\ 1 = k * q BY <1>1
<1> HIDE DEF q
<1>3. ~(q <= 0) BY <1>2
<1>4. ~(k >= 2) BY <1>2, <1>3
<1> QED BY <1>4

\* Whole numbers and their inverses are in lowest terms.
LEMMA WholeFraction ==
  ASSUME NEW n \in Int
  PROVE  Fraction(n, 1) = <<n, 1>>
<1> DEFINE size == IF n < 0 THEN -n ELSE n
           K == {k \in 1..size : size % k = 0 /\ (1 * 1) % k = 0}
           g == IF n = 0 THEN 1 * 1 ELSE Max(K)
<1>1. size \in Nat /\ (n # 0 => size # 0) OBVIOUS
<1> HIDE DEF size
<1>2. g = 1
  <2>1. CASE n = 0 BY <2>1
  <2>2. CASE n # 0
    <3>1. \A k \in K : k = 1 BY DividesOne, <1>1
    <3>2. 1 \in K BY <1>1, <2>2
    <3>3. K \in SUBSET (0..size) OBVIOUS
    <3> HIDE DEF K
    <3>4. Max(K) \in K BY <1>1, <3>2, <3>3, MaxIsIn
    <3> QED BY <2>2, <3>1, <3>4
  <2> QED BY <2>1, <2>2
<1>3. Fraction(n, 1) = <<(1 * n) \div g, (1 * 1) \div g>> BY DEF Fraction, size
<1> HIDE DEF g
<1> QED BY <1>2, <1>3

LEMMA UnitFraction ==
  ASSUME NEW d \in Nat \ {0}
  PROVE  Fraction(1, d) = <<1, d>>
<1> DEFINE s == IF d < 0 THEN -1 ELSE 1
           size == IF 1 < 0 THEN -1 ELSE 1
           K == {k \in 1..size : size % k = 0 /\ (s * d) % k = 0}
<1>1. s = 1 /\ size = 1 OBVIOUS
<1>2. Fraction(1, d) = <<(s * 1) \div Max(K), (s * d) \div Max(K)>> BY DEF Fraction
<1> HIDE DEF s, size
<1>3. 1 \in K /\ \A k \in K : k = 1 BY <1>1
<1>4. K \in SUBSET (0..1) BY <1>1
<1> HIDE DEF K
<1>5. Max(K) \in K BY <1>3, <1>4, MaxIsIn
<1>6. Max(K) = 1 BY <1>3, <1>5
<1> QED BY <1>1, <1>2, <1>6

LEMMA NoFraction ==
  ASSUME NEW d \in Nat \ {0}
  PROVE  Fraction(0, d)[1] = 0
<1>1. Fraction(0, d) = <<(1 * 0) \div (1 * d), (1 * d) \div (1 * d)>> BY DEF Fraction
<1>2. (1 * 0) \div (1 * d) = 0 OBVIOUS
<1> QED BY <1>1, <1>2

\* The roots of the grammar are those that the parser takes.
LEMMA RootsAre ==
  ASSUME NEW q \in Roots
  PROVE  /\ q \in Doubles /\ IsSquare(Times(q, q)) /\ Root(Times(q, q)) = q
         /\ \A v : v = Double(Times(q, q)) =>
              q = CHOOSE r \in Roots : v = Double(Times(r, r))
<1>1. Times(<<1, 1>>, <<1, 1>>) = <<1, 1>> /\ Times(<<2, 1>>, <<2, 1>>) = <<4, 1>>
      /\ Times(<<1, 2>>, <<1, 2>>) = <<1, 4>>
  BY WholeFraction, UnitFraction DEF Times
<1>2. \A r \in Roots : Times(q, q) = Times(r, r) => r = q BY <1>1 DEF Roots
<1>3. \A r, s : Double(r) = Double(s) => r = s BY NotThrows
<1>4. ASSUME NEW v, v = Double(Times(q, q))
      PROVE  q = CHOOSE r \in Roots : v = Double(Times(r, r))
  BY <1>2, <1>3, <1>4
<1>5. q \in Doubles BY DEF Roots, Doubles
<1> DEFINE R(a) == (0..a[1]) \X (1..a[2])
<1>6. ASSUME NEW a, q \in R(a), Times(q, q) = a, \A r \in R(a) : Times(r, r) = a => r = q
      PROVE  IsSquare(a) /\ Root(a) = q
  BY <1>6 DEF IsSquare, Root
<1>7. CASE q = <<1, 1>>
  <2>1. q \in R(<<1, 1>>) BY <1>7
  <2>2. \A r \in R(<<1, 1>>) : Times(r, r) = <<1, 1>> => r = q
    <3> TAKE r \in R(<<1, 1>>)
    <3>1. r = <<0, 1>> \/ r = <<1, 1>> OBVIOUS
    <3>2. Times(<<0, 1>>, <<0, 1>>)[1] = 0 BY NoFraction DEF Times
    <3> QED BY <1>7, <3>1, <3>2
  <2> QED BY <1>1, <1>4, <1>5, <1>6, <1>7, <2>1, <2>2
<1>8. CASE q = <<2, 1>>
  <2>1. q \in R(<<4, 1>>) BY <1>8
  <2>2. \A r \in R(<<4, 1>>) : Times(r, r) = <<4, 1>> => r = q
    <3> TAKE r \in R(<<4, 1>>)
    <3>1. PICK n \in 0..4 : r = <<n, 1>> OBVIOUS
    <3>2. Times(r, r) = Fraction(n * n, 1 * 1) BY <3>1 DEF Times
    <3>3. Times(r, r) = <<n * n, 1>> BY <3>2, WholeFraction
    <3>4. n * n = 4 => n = 2 OBVIOUS
    <3> QED BY <1>8, <3>1, <3>3, <3>4
  <2> QED BY <1>1, <1>4, <1>5, <1>6, <1>8, <2>1, <2>2
<1>9. CASE q = <<1, 2>>
  <2>1. q \in R(<<1, 4>>) BY <1>9
  <2>2. \A r \in R(<<1, 4>>) : Times(r, r) = <<1, 4>> => r = q
    <3> TAKE r \in R(<<1, 4>>)
    <3>1. PICK n \in 0..1, d \in 1..4 : r = <<n, d>> OBVIOUS
    <3>2. Times(r, r) = Fraction(n * n, d * d) BY <3>1 DEF Times
    <3>3. d * d \in Nat \ {0} OBVIOUS
    <3>4. CASE n = 0
      <4>1. Times(r, r)[1] = 0 BY <3>2, <3>3, <3>4, NoFraction
      <4> QED BY <4>1
    <3>5. CASE n = 1
      <4>1. Times(r, r) = <<1, d * d>> BY <3>2, <3>3, <3>5, UnitFraction
      <4>2. d * d = 4 => d = 2 OBVIOUS
      <4> QED BY <1>9, <3>1, <3>5, <4>1, <4>2
    <3> QED BY <3>4, <3>5
  <2> QED BY <1>1, <1>4, <1>5, <1>6, <1>9, <2>1, <2>2
<1> QED BY <1>7, <1>8, <1>9 DEF Roots

-----------------------------------------------------------------------------
(* Operands, parentheses, signs and roots.                                 *)

\* A number, or the name of a variable.
LEMMA OperandReads ==
  ASSUME NEW s \in Symbols, NEW val,
         \/ IsNumber(s) /\ val = Double(Magnitude(s))
         \/ /\ s = Word(s[2])
            /\ val = IF VariableToDouble(s[2], Env) = Throws THEN Throws
                     ELSE Double(VariableToDouble(s[2], Env))
  PROVE  val \in NumberValues /\ FactorReads(<<s>>, val)
<1>1. IsNumber(s) => Magnitude(s) \in Doubles BY GrammarAssumption
<1> DEFINE w == VariableToDouble(s[2], Env)
<1>2. w = Throws \/ w \in Doubles BY VariableType
<1>3. val \in NumberValues BY <1>1, <1>2 DEF NumberValues
<1> SUFFICES ASSUME NEW T \in Texts, NEW a \in Nat,
                    Sits(<<s>>, T, a) /\ ~Is(T, a + Len(<<s>>) + 1, "(")
             PROVE  At(Reader(T), "factor", a + 1) = Res(val, a + Len(<<s>>) + 1)
  BY <1>3 DEF FactorReads
<1> DEFINE p == a + 1
<1>4. p \in Nat \ {0} /\ a + Len(<<s>>) + 1 = p + 1 OBVIOUS
<1>5. p <= Len(T) /\ T[p] = s /\ ~Is(T, p + 1, "(") BY <1>4, SitsOne
<1> HIDE DEF p, w
<1>6. At(Reader(T), "factor", p) = Factor(Reader(T), T, Env, p) BY <1>4, ReaderIs
<1>7. ~(p > Len(T)) BY <1>4, <1>5, TextsAre
<1>8. CASE IsNumber(s) /\ val = Double(Magnitude(s))
  <2>1. ~Is(T, p, "+") /\ ~Is(T, p, "-") /\ ~Is(T, p, "(")
    BY <1>5, <1>8 DEF Is, Sym, IsNumber
  <2>2. Factor(Reader(T), T, Env, p) = <<Magnitude(s), p + 1>>
    BY <1>5, <1>7, <1>8, <2>1 DEF Factor
  <2> QED BY <1>4, <1>6, <1>8, <2>2, ResIs DEF p
<1>9. CASE s = Word(s[2]) /\ val = IF w = Throws THEN Throws ELSE Double(w)
  <2>1. s[1] = "name" BY <1>9 DEF Word
  <2>2. ~Is(T, p, "+") /\ ~Is(T, p, "-") /\ ~Is(T, p, "(") /\ ~IsNumber(s)
    BY <1>5, <2>1 DEF Is, Sym, IsNumber
  <2>3. Factor(Reader(T), T, Env, p) = Variable(s[2], Env, p)
    BY <1>5, <1>7, <2>1, <2>2 DEF Factor
  <2>4. Variable(s[2], Env, p) = IF w = Throws THEN Throws ELSE <<w, p + 1>>
    BY DEF Variable, w
  <2> QED BY <1>4, <1>6, <1>9, <2>3, <2>4, ResIs DEF p
<1> QED BY <1>8, <1>9 DEF w

LEMMA EncloseReads ==
  ASSUME NEW t \in Texts, NEW val \in NumberValues, SumReads(t, val)
  PROVE  FactorReads(<<Sym("(")>> \o t \o <<Sym(")")>>, val)
<1> DEFINE w == <<Sym("(")>> \o t \o <<Sym(")")>>
<1> SUFFICES ASSUME NEW T \in Texts, NEW a \in Nat, Sits(w, T, a)
             PROVE  At(Reader(T), "factor", a + 1) = Res(val, a + Len(w) + 1)
  BY DEF FactorReads
<1>1. Len(w) = Len(t) + 2 /\ Sits(t, T, a + 1) /\ a + 1 <= Len(T) /\ T[a + 1] = Sym("(")
      /\ a + Len(t) + 2 <= Len(T) /\ T[a + Len(t) + 2] = Sym(")")
  BY SymbolsHave, Between DEF Texts
<1> DEFINE p == a + 1
<1>2. p \in Nat \ {0} /\ p + Len(t) + 1 = a + Len(t) + 2 /\ p \in Nat
      /\ p + Len(t) + 2 = a + Len(w) + 1 /\ ~(p > Len(T))
  BY <1>1, TextsAre
<1>3. Is(T, p + Len(t) + 1, ")") BY <1>1, <1>2 DEF Is
<1>4. Sits(t, T, p) /\ T[p] = Sym("(") /\ p <= Len(T) BY <1>1
<1> HIDE DEF p, w
<1>5. Enclosed(Reader(T), T, p + 1) = Res(val, p + Len(t) + 2)
  BY <1>2, <1>3, <1>4, EnclosedReads
<1>6. At(Reader(T), "factor", p) = Factor(Reader(T), T, Env, p) BY <1>2, ReaderIs
<1>7. Is(T, p, "(") /\ ~Is(T, p, "+") /\ ~Is(T, p, "-") BY <1>4 DEF Is, Sym
<1>8. Factor(Reader(T), T, Env, p) = Enclosed(Reader(T), T, p + 1)
  BY <1>2, <1>7 DEF Factor
<1> QED BY <1>2, <1>5, <1>6, <1>8 DEF p

LEMMA NegateReads ==
  ASSUME NEW t \in Texts, NEW val \in NumberValues, FactorReads(t, val),
         NEW new, new = IF val = Throws THEN Throws ELSE Double(Minus(<<0, 1>>, val[2]))
  PROVE  new \in NumberValues /\ FactorReads(<<Sym("-")>> \o t, new)
<1>1. new \in NumberValues
  <2>1. CASE val = Throws BY <2>1 DEF NumberValues
  <2>2. CASE val # Throws
    <3>1. val[2] \in Doubles BY <2>2, NumberValuesAre
    <3>2. Minus(<<0, 1>>, val[2]) \in Doubles BY <3>1, ZeroOne, ArithmeticType
    <3> QED BY <2>2, <3>2 DEF NumberValues
  <2> QED BY <2>1, <2>2
<1> DEFINE w == <<Sym("-")>> \o t
<1> SUFFICES ASSUME NEW T \in Texts, NEW a \in Nat,
                    Sits(w, T, a) /\ ~Is(T, a + Len(w) + 1, "(")
             PROVE  At(Reader(T), "factor", a + 1) = Res(new, a + Len(w) + 1)
  BY <1>1 DEF FactorReads
<1>2. Len(w) = Len(t) + 1 /\ Sits(t, T, a + 1) /\ a + 1 <= Len(T) /\ T[a + 1] = Sym("-")
  BY SymbolsHave, InFront DEF Texts
<1> DEFINE p == a + 1
<1>3. p \in Nat \ {0} /\ p + Len(t) + 1 = a + Len(w) + 1 /\ p \in Nat /\ ~(p > Len(T))
  BY <1>2, TextsAre
<1>4. Sits(t, T, p) /\ T[p] = Sym("-") /\ p <= Len(T) /\ ~Is(T, p + Len(t) + 1, "(")
  BY <1>2, <1>3
<1> HIDE DEF p, w
<1>5. At(Reader(T), "factor", p + 1) = Res(val, p + Len(t) + 1)
  BY <1>3, <1>4 DEF FactorReads
<1>6. At(Reader(T), "factor", p) = Factor(Reader(T), T, Env, p) BY <1>3, ReaderIs
<1>7. Is(T, p, "-") /\ ~Is(T, p, "+") BY <1>4 DEF Is, Sym
<1>8. Factor(Reader(T), T, Env, p) = Negated(At(Reader(T), "factor", p + 1))
  BY <1>3, <1>7 DEF Factor
<1>9. Negated(Res(val, p + Len(t) + 1)) = Res(new, p + Len(t) + 1)
  <2>1. CASE val = Throws BY <2>1 DEF Negated, Res
  <2>2. CASE val # Throws
    <3> DEFINE k == p + Len(t) + 1
               r == val[2]
    <3> HIDE DEF k, r
    <3>1. Res(val, k) = <<r, k>> /\ <<r, k>> # Throws BY <2>2, NotThrows DEF Res, r
    <3>2. Negated(<<r, k>>) = <<Minus(<<0, 1>>, r), k>> BY <3>1 DEF Negated
    <3>3. Res(new, k) = <<Minus(<<0, 1>>, r), k>> BY <2>2, ResIs DEF r
    <3> QED BY <3>1, <3>2, <3>3 DEF k
  <2> QED BY <2>1, <2>2
<1> QED BY <1>3, <1>5, <1>6, <1>8, <1>9 DEF p

LEMMA BetweenTwo ==
  ASSUME NEW S, NEW s \in S, NEW o \in S, NEW t \in Seq(S), NEW e \in S,
         NEW T \in Seq(S), NEW a \in Nat
  PROVE  /\ <<s, o>> \o t \o <<e>> \in Seq(S) /\ Len(<<s, o>> \o t \o <<e>>) = Len(t) + 3
         /\ Sits(<<s, o>> \o t \o <<e>>, T, a) =>
              /\ Sits(t, T, a + 2) /\ T[a + 1] = s /\ T[a + 2] = o
              /\ T[a + Len(t) + 3] = e /\ a + Len(t) + 3 <= Len(T)
<1> DEFINE u == <<s, o>>
           v == <<e>>
<1>1. u \in Seq(S) /\ v \in Seq(S) /\ Len(u) = 2 /\ Len(v) = 1 /\ Len(t) \in Nat OBVIOUS
<1>2. /\ Sits(u, T, a) => T[a + 1] = s /\ T[a + 2] = o
      /\ Sits(v, T, a + (2 + Len(t))) =>
           (a + (2 + Len(t))) + 1 <= Len(T) /\ T[(a + (2 + Len(t))) + 1] = e
  BY <1>1, SitsOne DEF Sits
<1> HIDE DEF u, v
<1> DEFINE w == u \o t
<1>3. /\ w \in Seq(S) /\ Len(w) = 2 + Len(t)
      /\ Sits(w, T, a) => Sits(u, T, a) /\ Sits(t, T, a + 2)
  BY <1>1, SitsApart
<1> HIDE DEF w
<1>4. /\ w \o v \in Seq(S) /\ Len(w \o v) = Len(w) + Len(v)
      /\ Sits(w \o v, T, a) => Sits(w, T, a) /\ Sits(v, T, a + Len(w))
  BY <1>1, <1>3, SitsApart
<1>5. (a + (2 + Len(t))) + 1 = a + Len(t) + 3 /\ (2 + Len(t)) + 1 = Len(t) + 3 BY <1>1
<1>6. /\ w \o v \in Seq(S) /\ Len(w \o v) = Len(t) + 3
      /\ Sits(w \o v, T, a) =>
              /\ Sits(t, T, a + 2) /\ T[a + 1] = s /\ T[a + 2] = o
              /\ T[a + Len(t) + 3] = e /\ a + Len(t) + 3 <= Len(T)
  BY <1>1, <1>2, <1>3, <1>4, <1>5
<1> QED BY <1>6 DEF u, v, w

LEMMA RootOfReads ==
  ASSUME NEW t \in Texts, NEW val \in NumberValues, SumReads(t, val), NEW new,
         \A k : Called("sqrt", Res(val, k)) = Res(new, k)
  PROVE  FactorReads(<<Word("sqrt"), Sym("(")>> \o t \o <<Sym(")")>>, new)
<1> DEFINE w == <<Word("sqrt"), Sym("(")>> \o t \o <<Sym(")")>>
<1> SUFFICES ASSUME NEW T \in Texts, NEW a \in Nat, Sits(w, T, a)
             PROVE  At(Reader(T), "factor", a + 1) = Res(new, a + Len(w) + 1)
  BY DEF FactorReads
<1>1. Word("sqrt") \in Symbols BY SymbolsHave DEF Keywords
<1>2. Len(w) = Len(t) + 3 /\ Sits(t, T, a + 2)
      /\ T[a + 1] = Word("sqrt") /\ T[a + 2] = Sym("(")
      /\ a + Len(t) + 3 <= Len(T) /\ T[a + Len(t) + 3] = Sym(")")
  BY <1>1, SymbolsHave, BetweenTwo DEF Texts
<1> DEFINE p == a + 1
<1>3. /\ p \in Nat \ {0} /\ p + 1 \in Nat /\ (p + 1) + Len(t) + 1 = a + Len(t) + 3
      /\ (p + 1) + Len(t) + 2 = a + Len(w) + 1 /\ ~(p > Len(T)) /\ p + 1 <= Len(T)
      /\ p + 1 = a + 2 /\ (p + 1) + 1 = p + 2
  BY <1>2, TextsAre
<1>4. Is(T, (p + 1) + Len(t) + 1, ")") BY <1>2, <1>3 DEF Is
<1>5. Sits(t, T, p + 1) /\ T[p] = Word("sqrt") /\ Is(T, p + 1, "(")
  BY <1>2, <1>3 DEF Is
<1> HIDE DEF p, w
<1>6. Enclosed(Reader(T), T, p + 2) = Res(val, (p + 1) + Len(t) + 2)
  BY <1>3, <1>4, <1>5, EnclosedReads
<1>7. At(Reader(T), "factor", p) = Factor(Reader(T), T, Env, p) BY <1>3, ReaderIs
<1>8. /\ ~Is(T, p, "(") /\ ~Is(T, p, "+") /\ ~Is(T, p, "-") /\ ~IsNumber(T[p])
      /\ T[p][1] = "name" /\ T[p][2] = "sqrt"
  BY <1>5 DEF Is, Sym, Word, IsNumber
<1>9. Factor(Reader(T), T, Env, p) = Called("sqrt", Enclosed(Reader(T), T, p + 2))
  BY <1>3, <1>5, <1>8 DEF Factor
<1> QED BY <1>3, <1>6, <1>7, <1>9 DEF p

LEMMA RootReads ==
  ASSUME NEW t \in Texts, NEW val \in NumberValues, SumReads(t, val),
         val = Throws \/ \E r \in Roots : val = Double(Times(r, r)),
         NEW new, new = IF val = Throws THEN Throws
                        ELSE Double(CHOOSE r \in Roots : val = Double(Times(r, r)))
  PROVE  /\ new \in NumberValues
         /\ FactorReads(<<Word("sqrt"), Sym("(")>> \o t \o <<Sym(")")>>, new)
<1>1. CASE val = Throws
  <2>1. new = Throws /\ new \in NumberValues BY <1>1 DEF NumberValues
  <2>2. \A k : Called("sqrt", Res(val, k)) = Res(new, k) BY <1>1, <2>1 DEF Called, Res
  <2> QED BY <2>1, <2>2, RootOfReads
<1>2. CASE val # Throws
  <2>1. PICK q \in Roots : val = Double(Times(q, q)) BY <1>2, Zenon
  <2>2. new = Double(q)
    <3>1. q = CHOOSE r \in Roots : val = Double(Times(r, r)) BY <2>1, RootsAre, Zenon
    <3> QED BY <1>2, <3>1, Zenon
  <2>3. new \in NumberValues BY <2>2, RootsAre DEF NumberValues
  <2>4. ASSUME NEW k PROVE Called("sqrt", Res(val, k)) = Res(new, k)
    <3> DEFINE x == Times(q, q)
    <3>1. IsSquare(x) /\ Root(x) = q BY RootsAre
    <3>2. Res(val, k) = <<x, k>> /\ <<x, k>> # Throws BY <2>1, ResIs
    <3>3. Res(new, k) = <<q, k>> BY <2>2, ResIs
    <3> HIDE DEF x
    <3>4. Called("sqrt", <<x, k>>) = <<Root(x), k>> BY <3>1, <3>2 DEF Called
    <3> QED BY <3>1, <3>2, <3>3, <3>4
  <2> QED BY <2>3, <2>4, RootOfReads
<1> QED BY <1>1, <1>2

-----------------------------------------------------------------------------
(* Operators of arithmetic, and the whole of a text.                       *)

LEMMA ProductReads ==
  ASSUME NEW t \in Texts, NEW u \in Texts, NEW a \in NumberValues, NEW b \in NumberValues,
         NEW o \in {"*", "/"}, TermReads(t, a), FactorReads(u, b)
  PROVE  TermReads(t \o <<Sym(o)>> \o u, Both(o, a, b))
<1> DEFINE w == t \o <<Sym(o)>> \o u
           c == Both(o, a, b)
<1>1. o \in NumericOperators /\ o \in OperatorsOf["products"] /\ "products" \in NumericLoops
  BY DEF NumericOperators, OperatorsOf, NumericLoops
<1>2. Sym(o) \in Symbols BY SymbolsHave
<1> SUFFICES ASSUME NEW T \in Texts, NEW n \in Nat,
                    Sits(w, T, n) /\ ~Is(T, n + Len(w) + 1, "(")
             PROVE  At(Reader(T), "term", n + 1) =
                      GoOn(Reader(T), "products", Res(c, n + Len(w) + 1))
  BY DEF TermReads
<1> DEFINE k == n + Len(t) + 1
           m == k + Len(u) + 1
<1>3. /\ Len(w) = Len(t) + 1 + Len(u) /\ Sits(t, T, n) /\ Sits(u, T, k)
      /\ T[k] = Sym(o) /\ k <= Len(T)
  BY <1>2, Joined DEF Texts
<1>4. k \in Nat \ {0} /\ m \in Nat \ {0} /\ m = n + Len(w) + 1 /\ k \in Nat
  BY <1>3, TextsAre
<1>5. Is(T, k, o) /\ ~Is(T, k, "(") BY <1>3 DEF Is, Sym
<1>6. At(Reader(T), "term", n + 1) = GoOn(Reader(T), "products", Res(a, k))
  BY <1>3, <1>5 DEF TermReads
<1>7. ~Is(T, m, "(") BY <1>4
<1> HIDE DEF w, c, k
<1>8. At(Reader(T), "factor", k + 1) = Res(b, m) BY <1>3, <1>4, <1>7 DEF FactorReads
<1> HIDE DEF m
<1>9. At(Reader(T), RightOperand["products"], k + 1) = Res(b, m)
  BY <1>8 DEF RightOperand
<1>10. GoOn(Reader(T), "products", Res(a, k)) = GoOn(Reader(T), "products", Res(c, m))
  BY <1>1, <1>4, <1>5, <1>9, LoopStep DEF c
<1> QED BY <1>4, <1>6, <1>10

LEMMA SumOfReads ==
  ASSUME NEW t \in Texts, NEW u \in Texts, NEW a \in NumberValues, NEW b \in NumberValues,
         NEW o \in {"+", "-"}, SumReads(t, a), TermReads(u, b)
  PROVE  SumReads(t \o <<Sym(o)>> \o u, Both(o, a, b))
<1> DEFINE w == t \o <<Sym(o)>> \o u
           c == Both(o, a, b)
<1>1. o \in NumericOperators /\ o \in OperatorsOf["sums"] /\ "sums" \in NumericLoops
  BY DEF NumericOperators, OperatorsOf, NumericLoops
<1>2. Sym(o) \in Symbols BY SymbolsHave
<1> SUFFICES ASSUME NEW T \in Texts, NEW n \in Nat, Sits(w, T, n),
                    \A q \in {"(", "*", "/"} : ~Is(T, n + Len(w) + 1, q)
             PROVE  At(Reader(T), "sum", n + 1) =
                      GoOn(Reader(T), "sums", Res(c, n + Len(w) + 1))
  BY DEF SumReads
<1> DEFINE k == n + Len(t) + 1
           m == k + Len(u) + 1
<1>3. /\ Len(w) = Len(t) + 1 + Len(u) /\ Sits(t, T, n) /\ Sits(u, T, k)
      /\ T[k] = Sym(o) /\ k <= Len(T)
  BY <1>2, Joined DEF Texts
<1>4. k \in Nat \ {0} /\ m \in Nat \ {0} /\ m = n + Len(w) + 1 /\ k \in Nat
  BY <1>3, TextsAre
<1>5. Is(T, k, o) /\ \A q \in {"(", "*", "/"} : ~Is(T, k, q) BY <1>3 DEF Is, Sym
<1>6. At(Reader(T), "sum", n + 1) = GoOn(Reader(T), "sums", Res(a, k))
  BY <1>3, <1>5 DEF SumReads
<1>7. \A q \in {"(", "*", "/"} : ~Is(T, m, q) BY <1>4
<1>8. ~Is(T, m, "(") /\ ~Is(T, m, "*") /\ ~Is(T, m, "/") BY <1>7
<1> HIDE DEF w, c, k
<1>9. At(Reader(T), "term", k + 1) = GoOn(Reader(T), "products", Res(b, m))
  BY <1>3, <1>4, <1>8 DEF TermReads
<1> HIDE DEF m
<1>10. m > Len(T) \/ T[m] \notin OpsOf["products"]
  BY <1>4, <1>8, TextsAre DEF Is, OpsOf
<1>11. GoOn(Reader(T), "products", Res(b, m)) = Res(b, m)
  BY <1>4, <1>10, LoopEnds DEF NumericLoops
<1>12. At(Reader(T), RightOperand["sums"], k + 1) = Res(b, m)
  BY <1>9, <1>11 DEF RightOperand
<1>13. GoOn(Reader(T), "sums", Res(a, k)) = GoOn(Reader(T), "sums", Res(c, m))
  BY <1>1, <1>4, <1>5, <1>12, LoopStep DEF c
<1> QED BY <1>4, <1>6, <1>13

\* Alone in its text, a phrase has its meaning.
LEMMA NumberIs ==
  ASSUME NEW t \in Texts, NEW val \in NumberValues, SumReads(t, val)
  PROVE  Number(t, Env) = IF val = Throws THEN Throws ELSE val[2]
<1> DEFINE k == Len(t) + 1
<1>1. k \in Nat \ {0} /\ k > Len(t) /\ 0 + Len(t) + 1 = k /\ 0 + Len(t) = Len(t) /\ ~(k <= Len(t))
  BY TextsAre
<1>2. Sits(t, t, 0)
  <2>1. \A i \in 1..Len(t) : 0 + i = i OBVIOUS
  <2>2. 0 + Len(t) <= Len(t) BY <1>1, TextsAre
  <2> QED BY <2>1, <2>2 DEF Sits
<1>3. \A o : ~Is(t, 0 + Len(t) + 1, o) BY <1>1 DEF Is
<1>4. At(Reader(t), "sum", 0 + 1) = Res(val, 0 + Len(t) + 1) BY <1>2, <1>3, SumEnds
<1>5. At(Reader(t), "sum", 1) = Res(val, k) BY <1>1, <1>4
<1> HIDE DEF k
<1>6. CASE val = Throws BY <1>5, <1>6 DEF Number, Reader, Res
<1>7. CASE val # Throws
  <2>1. Res(val, k) = <<val[2], k>> /\ <<val[2], k>> # Throws BY <1>7, NotThrows DEF Res
  <2> QED BY <1>1, <1>5, <1>7, <2>1 DEF Number, Reader
<1> QED BY <1>6, <1>7

-----------------------------------------------------------------------------
(* What a command stores.                                                  *)

\* A text of one symbol is a number or a name.
Single(t) == Len(t) = 1 => IsNumber(t[1]) \/ t[1] \in Names

\* Texts of numeric phrases.
NumericText(t) ==
  /\ t \in Texts /\ t # <<>> /\ Single(t) /\ t[1] # Sym("+")
  /\ \A i \in 1..Len(t) : t[i][1] # "quoted" /\ t[i] \notin Comparisons

LEMMA NotEmpty ==
  ASSUME NEW S, NEW t \in Seq(S), t # <<>>
  PROVE  Len(t) \in Nat \ {0} /\ 1 \in 1..Len(t) /\ Len(t) \in 1..Len(t)
BY EmptySeq

LEMMA SingleIs ==
  ASSUME NEW t, Single(t), Len(t) = 1
  PROVE  t[1][1] # "quoted" /\ t[1] \notin Arithmetic /\ t[1] \notin Comparisons
         /\ t[1] \notin TrueWords /\ t[1] \notin FalseWords
<1>1. CASE IsNumber(t[1])
  BY <1>1 DEF IsNumber, Arithmetic, Comparisons, TrueWords, FalseWords, Sym, Word
<1>2. CASE t[1] \in Names
  <2>1. t[1] = Word(t[1][2]) /\ t[1] \notin Keywords BY <1>2 DEF Names
  <2>2. t[1][1] = "name" BY <2>1 DEF Word
  <2> QED BY <2>1, <2>2 DEF Keywords, Arithmetic, Comparisons, Sym
<1> QED BY <1>1, <1>2 DEF Single

\* A sign and a number alone.
LEMMA SignedIs ==
  ASSUME NEW t \in Texts, Len(t) = 2, t[1] = Sym("-"), IsNumber(t[2])
  PROVE  Number(t, Env) = AsDouble(NumberLiteral(t))
<1> DEFINE s == t[2]
           u == <<s>>
           val == Double(Magnitude(s))
           new == Double(Minus(<<0, 1>>, Magnitude(s)))
<1>1. s \in Symbols /\ IsNumber(s) BY TextsAre
<1>2. u \in Texts /\ t = <<Sym("-")>> \o u BY <1>1 DEF Texts
<1>3. Magnitude(s) \in Doubles BY <1>1, MagnitudeType
<1>4. NumberLiteral(t) = Stored(s, -1) BY DEF NumberLiteral, Sym
<1> HIDE DEF s
<1>5. val \in NumberValues /\ FactorReads(u, val) BY <1>1, OperandReads
<1>6. /\ val # Throws /\ new # Throws /\ val[2] = Magnitude(s)
      /\ new[2] = Minus(<<0, 1>>, Magnitude(s))
  BY NotThrows
<1> HIDE DEF u, val
<1>7. new \in NumberValues /\ FactorReads(t, new)
  BY <1>2, <1>5, <1>6, NegateReads
<1> HIDE DEF new
<1>8. SumReads(t, new) BY <1>7, TermFromFactor, SumFromTerm
<1>9. Number(t, Env) = Minus(<<0, 1>>, Magnitude(s)) BY <1>6, <1>7, <1>8, NumberIs
<1>10. CASE s[1] = "int"
  <2> DEFINE n == s[2]
  <2>1. Magnitude(s) = <<n, 1>> BY <1>10 DEF Magnitude
  <2>2. n \in Int BY <1>3, <2>1 DEF Doubles
  <2>3. Stored(s, -1) = Whole((-1) * n) BY <1>10 DEF Stored
  <2> HIDE DEF n
  <2>4. (-1) * n = -n /\ 0 * 1 - n * 1 = -n /\ 1 * 1 = 1 /\ -n \in Int BY <2>2
  <2>5. AsDouble(Whole(-n)) = <<-n, 1>> BY NotThrows DEF AsDouble
  <2>6. Minus(<<0, 1>>, <<n, 1>>) = Fraction(0 * 1 - n * 1, 1 * 1) BY DEF Minus
  <2>7. Fraction(-n, 1) = <<-n, 1>> BY <2>4, WholeFraction
  <2> QED BY <1>4, <1>9, <2>1, <2>3, <2>4, <2>5, <2>6, <2>7
<1>11. CASE s[1] # "int"
  <2> DEFINE x == s[2]
             n == x[1]
             d == x[2]
  <2>1. Magnitude(s) = x BY <1>11 DEF Magnitude
  <2>2. n \in Int /\ d \in Nat BY <1>3, <2>1, DoublesAre
  <2>3. Stored(s, -1) = Double(Times(<<-1, 1>>, x)) BY <1>11 DEF Stored
  <2>4. Minus(<<0, 1>>, x) = Fraction(0 * d - n * 1, 1 * d) BY DEF Minus
  <2>5. Times(<<-1, 1>>, x) = Fraction((-1) * n, 1 * d) BY DEF Times
  <2> HIDE DEF n, d
  <2>6. 0 * d - n * 1 = -n /\ (-1) * n = -n BY <2>2
  <2>7. \A r : AsDouble(Double(r)) = r BY NotThrows DEF AsDouble
  <2> QED BY <1>4, <1>9, <2>1, <2>3, <2>4, <2>5, <2>6, <2>7
<1> QED BY <1>10, <1>11

\* The value that a command stores of a numeric phrase with an operator.
LEMMA ValueIs ==
  ASSUME NEW t, NumericText(t), Contains(t, Arithmetic)
  PROVE  /\ Len(t) # 1
         /\ Value(t, Env) = IF NumberLiteral(t) # Throws THEN NumberLiteral(t)
                            ELSE Rounded(Number(t, Env))
         /\ NumberLiteral(t) # Throws => AsDouble(NumberLiteral(t)) = Number(t, Env)
<1>1. t \in Texts /\ t # <<>> BY DEF NumericText
<1>2. Len(t) \in Nat \ {0} /\ DOMAIN t = 1..Len(t) /\ 1 \in 1..Len(t)
  BY <1>1, NotEmpty, TextsAre DEF Texts
<1>3. Len(t) # 1
  <2> SUFFICES ASSUME Len(t) = 1 PROVE FALSE OBVIOUS
  <2>1. PICK i \in 1..Len(t) : t[i] \in Arithmetic BY <1>2 DEF Contains
  <2>2. i = 1 BY <2>1
  <2> QED BY <2>1, <2>2, SingleIs DEF NumericText
<1>4. ~IsQuoted(t) BY <1>2 DEF IsQuoted, NumericText
<1>5. ~Contains(t, Comparisons) BY <1>2 DEF Contains, NumericText
<1>6. Value(t, Env) = IF NumberLiteral(t) # Throws THEN NumberLiteral(t)
                      ELSE Rounded(Number(t, Env))
  BY <1>1, <1>3, <1>4, <1>5 DEF Value
<1>7. NumberLiteral(t) # Throws => AsDouble(NumberLiteral(t)) = Number(t, Env)
  <2> SUFFICES ASSUME NumberLiteral(t) # Throws
               PROVE  AsDouble(NumberLiteral(t)) = Number(t, Env)
    OBVIOUS
  <2>1. Len(t) = 2 /\ t[1] \in {Sym("-"), Sym("+")} /\ IsNumber(t[2])
    BY <1>3 DEF NumberLiteral
  <2>2. t[1] = Sym("-") BY <2>1 DEF NumericText
  <2> QED BY <1>1, <2>1, <2>2, SignedIs
<1> QED BY <1>3, <1>6, <1>7

LEMMA RoundedIs ==
  ASSUME NEW r, r = Throws \/ r \in Doubles
  PROVE  AsDouble(Rounded(r)) = r
<1>1. CASE r = Throws BY <1>1 DEF Rounded, AsDouble, Throws
<1>2. CASE r \in Doubles
  <2>1. r = <<r[1], r[2]>> /\ r # Throws BY <1>2, DoublesAre, DoubleIsValue
  <2>2. \A x : AsDouble(Double(x)) = x /\ AsDouble(Whole(x)) = <<x, 1>>
    BY NotThrows DEF AsDouble
  <2> QED BY <2>1, <2>2 DEF Rounded
<1> QED BY <1>1, <1>2

-----------------------------------------------------------------------------
(* Tokens.                                                                 *)

Tokens ==
  {<<"AND">>, <<"OR">>, <<"NOT">>, <<"LPAREN">>, <<"RPAREN">>, <<"END">>}
    \union {<<"OPERATOR", o>> : o \in {"==", "!=", "<=", ">=", "<", ">", "=", "!"}}
    \union {<<"NUMBER", Whole(n)>> : n \in {0, 1}}
    \union {<<"NUMBER", Stored(s, 1)>> : s \in Symbols}
    \union {<<"NUMBER", Stored(s, -1)>> : s \in Symbols}
    \union {<<"STRING", s[2]>> : s \in Symbols}
    \union {<<"IDENTIFIER", s[2]>> : s \in Symbols}

TokensUpTo(text) ==
  LET upTo[n \in 0..Len(text)] ==
        IF n = 0 THEN <<>> ELSE upTo[n - 1] \o TokensAt(text, n)
  IN  upTo

\* The tokens of a text without the end.
TokensOf(text) == TokensUpTo(text)[Len(text)]

LEMMA TokenizeIs ==
  ASSUME NEW text
  PROVE  Tokenize(text) = Append(TokensOf(text), <<"END">>)
BY DEF Tokenize, TokensOf, TokensUpTo

LEMMA TokensAtIs ==
  ASSUME NEW text, NEW p, NEW s, s = text[p]
  PROVE  /\ s[1] = "name" => TokensAt(text, p) = <<WordToken(s[2])>>
         /\ s[1] = "quoted" => TokensAt(text, p) = <<<<"STRING", s[2]>>>>
         /\ IsNumber(s) => TokensAt(text, p) =
              <<<<"NUMBER", Stored(s, IF p > 1 /\ text[p - 1] = Sym("-") THEN -1 ELSE 1)>>>>
         /\ s[1] = "op" => TokensAt(text, p) = OpTokens(s[2])
         /\ s[1] \notin {"name", "quoted", "op"} /\ ~IsNumber(s) => TokensAt(text, p) = <<>>
<1>1. IsNumber(s) => s[1] # "name" /\ s[1] # "quoted" /\ s[1] # "op" BY DEF IsNumber
<1>2. s[1] = "name" => TokensAt(text, p) = <<WordToken(s[2])>>
  BY <1>1 DEF TokensAt
<1>3. s[1] = "quoted" => TokensAt(text, p) = <<<<"STRING", s[2]>>>>
  BY <1>1 DEF TokensAt
<1>4. IsNumber(s) => TokensAt(text, p) =
        <<<<"NUMBER", Stored(s, IF p > 1 /\ text[p - 1] = Sym("-") THEN -1 ELSE 1)>>>>
  BY <1>1 DEF TokensAt
<1>5. s[1] = "op" => TokensAt(text, p) = OpTokens(s[2]) BY <1>1 DEF TokensAt
<1>6. s[1] \notin {"name", "quoted", "op"} /\ ~IsNumber(s) => TokensAt(text, p) = <<>>
  BY DEF TokensAt
<1> QED BY <1>2, <1>3, <1>4, <1>5, <1>6

LEMMA TokensAtType ==
  ASSUME NEW text \in Texts, NEW p \in 1..Len(text)
  PROVE  TokensAt(text, p) \in Seq(Tokens)
<1> DEFINE s == text[p]
<1>1. s \in Symbols BY TextsAre
<1>2. ASSUME NEW k \in Tokens PROVE <<k>> \in Seq(Tokens) OBVIOUS
<1>3. <<>> \in Seq(Tokens) OBVIOUS
<1> HIDE DEF s
<1>4. CASE s[1] = "name"
  <2>1. WordToken(s[2]) \in Tokens BY <1>1 DEF WordToken, Tokens
  <2>2. TokensAt(text, p) = <<WordToken(s[2])>> BY <1>4, TokensAtIs DEF s
  <2> QED BY <1>2, <2>1, <2>2
<1>5. CASE s[1] = "quoted"
  <2>1. <<"STRING", s[2]>> \in Tokens BY <1>1 DEF Tokens
  <2>2. TokensAt(text, p) = <<<<"STRING", s[2]>>>> BY <1>5, TokensAtIs DEF s
  <2> QED BY <1>2, <2>1, <2>2
<1>6. CASE IsNumber(s)
  <2> DEFINE sign == IF p > 1 /\ text[p - 1] = Sym("-") THEN -1 ELSE 1
  <2>1. sign = 1 \/ sign = -1 OBVIOUS
  <2>3. TokensAt(text, p) = <<<<"NUMBER", Stored(s, sign)>>>>
    BY <1>6, TokensAtIs DEF s
  <2> HIDE DEF sign
  <2>4. <<"NUMBER", Stored(s, sign)>> \in Tokens BY <1>1, <2>1 DEF Tokens
  <2> QED BY <1>2, <2>3, <2>4
<1>7. CASE s[1] = "op"
  <2>1. ASSUME NEW o PROVE OpTokens(o) \in Seq(Tokens)
    <3>1. OpTokens(o) = <<>> \/ \E k \in Tokens : OpTokens(o) = <<k>>
      BY DEF OpTokens, Tokens
    <3> QED BY <1>2, <1>3, <3>1
  <2>2. TokensAt(text, p) = OpTokens(s[2]) BY <1>7, TokensAtIs DEF s
  <2> QED BY <2>1, <2>2
<1>8. CASE s[1] \notin {"name", "quoted", "op"} /\ ~IsNumber(s)
  BY <1>3, <1>8, TokensAtIs DEF s
<1> QED BY <1>4, <1>5, <1>6, <1>7, <1>8

LEMMA UpToIs ==
  ASSUME NEW text \in Texts
  PROVE  /\ TokensUpTo(text)[0] = <<>>
         /\ \A n \in 1..Len(text) :
              TokensUpTo(text)[n] = TokensUpTo(text)[n - 1] \o TokensAt(text, n)
         /\ \A n \in 0..Len(text) : TokensUpTo(text)[n] \in Seq(Tokens)
<1> DEFINE N == Len(text)
           D == 0..N
           R == [n \in D |-> Seq(Tokens)]
           After1(f, n) == IF n = 0 THEN <<>> ELSE f[n - 1] \o TokensAt(text, n)
           F == Families(D, R)
           Step == [f \in F |-> [n \in D |-> After1(f, n)]]
           rank == [n \in D |-> n]
           start == [n \in D |-> <<>>]
<1>1. N \in Nat BY TextsAre
<1>2. ASSUME NEW n \in D PROVE n \in Nat /\ (n # 0 => n \in 1..N /\ n - 1 \in D /\ n - 1 < n)
  BY <1>1
<1>3. \A n \in 1..N : TokensAt(text, n) \in Seq(Tokens) BY TokensAtType
<1>4. \A f : f \in F <=> f \in [D -> Seq(Tokens)]
  <2>1. \A n \in D : R[n] = Seq(Tokens) OBVIOUS
  <2>2. 0 \in D BY <1>1
  <2>3. Results(D, R) = Seq(Tokens) BY <2>1, <2>2 DEF Results
  <2> HIDE DEF R, D
  <2> QED BY <2>1, <2>3 DEF Families
<1>5. start \in F BY <1>4
<1>6. \A f \in F : Step[f] \in F
  <2> TAKE f \in F
  <2>1. \A n \in D : f[n] \in Seq(Tokens) BY <1>4
  <2>2. \A n \in D : After1(f, n) \in Seq(Tokens) BY <1>2, <1>3, <2>1
  <2> HIDE DEF After1, D
  <2>3. Step[f] \in [D -> Seq(Tokens)] BY <2>2
  <2> QED BY <1>4, <2>3
<1>7. \A f, g \in F : \A n \in D :
        (\A m \in D : rank[m] < rank[n] => f[m] = g[m]) => Step[f][n] = Step[g][n]
  <2> TAKE f, g \in F
  <2> TAKE n \in D
  <2> HAVE \A m \in D : rank[m] < rank[n] => f[m] = g[m]
  <2>1. n # 0 => f[n - 1] = g[n - 1] BY <1>2
  <2>2. After1(f, n) = After1(g, n) BY <2>1
  <2> HIDE DEF After1, D, F
  <2> QED BY <2>2
<1>8. \A n \in D : rank[n] \in 0..N OBVIOUS
<1>9. \E f \in F : f = Step[f]
  <2> HIDE DEF N, Step, rank, start, D, R
  <2> QED BY <1>1, <1>5, <1>6, <1>7, <1>8, Recursion
<1>10. \E f : f = [n \in D |-> After1(f, n)] /\ f \in F BY <1>9
<1>11. PICK f : f = [n \in D |-> After1(f, n)] /\ f \in F BY <1>10
<1> DEFINE u == TokensUpTo(text)
<1>12. u = [n \in D |-> After1(u, n)] BY <1>10 DEF TokensUpTo
<1> HIDE DEF u
<1>13. u[0] = <<>> /\ \A n \in 1..N : u[n] = u[n - 1] \o TokensAt(text, n)
  <2>1. 0 \in D /\ \A n \in 1..N : n \in D /\ n # 0 BY <1>1
  <2>2. \A n \in D : u[n] = After1(u, n)
    <3> HIDE DEF After1, D
    <3> QED BY <1>12
  <2> QED BY <2>1, <2>2
<1>14. \A n \in D : u[n] \in Seq(Tokens)
  <2> DEFINE S == {n \in Nat : n <= N => u[n] \in Seq(Tokens)}
  <2>1. 0 \in S
    <3>1. <<>> \in Seq(Tokens) OBVIOUS
    <3> QED BY <1>13, <3>1
  <2>2. ASSUME NEW n \in S PROVE n + 1 \in S
    <3> SUFFICES ASSUME n + 1 <= N PROVE u[n + 1] \in Seq(Tokens) OBVIOUS
    <3>1. n + 1 \in 1..N /\ n <= N /\ (n + 1) - 1 = n BY <1>1
    <3>2. u[n] \in Seq(Tokens) BY <3>1
    <3>3. u[n + 1] = u[n] \o TokensAt(text, n + 1) BY <1>13, <3>1
    <3>4. TokensAt(text, n + 1) \in Seq(Tokens) BY <1>3, <3>1
    <3> QED BY <3>2, <3>3, <3>4
  <2> HIDE DEF S
  <2>3. S = Nat BY <2>1, <2>2, NatSet DEF S
  <2> QED BY <1>2, <2>3 DEF S
<1> QED BY <1>13, <1>14 DEF u

-----------------------------------------------------------------------------
(* The tokens of two texts one after the other.                            *)

\* A minus at the end of one text does not belong to a number of the next.
Parted(u, t) ==
  u # <<>> /\ t # <<>> => u[Len(u)] # Sym("-") \/ ~IsNumber(t[1])

\* A symbol gives the same tokens where the symbol before it is the same, or is
\* no minus in either text, or where it is no number.
LEMMA TokensAtSame ==
  ASSUME NEW t, NEW p, NEW w, NEW q, w[q] = t[p],
         \/ ~IsNumber(t[p])
         \/ (q > 1 /\ w[q - 1] = Sym("-")) <=> (p > 1 /\ t[p - 1] = Sym("-"))
  PROVE  TokensAt(w, q) = TokensAt(t, p)
BY DEF TokensAt

LEMMA TokensOfType ==
  ASSUME NEW t \in Texts
  PROVE  TokensOf(t) \in Seq(Tokens)
BY UpToIs, TextsAre DEF TokensOf

LEMMA TokensOfBoth ==
  ASSUME NEW u \in Texts, NEW t \in Texts, Parted(u, t)
  PROVE  TokensOf(u \o t) = TokensOf(u) \o TokensOf(t)
<1> DEFINE w == u \o t
           m == Len(u)
           n == Len(t)
<1>1. /\ w \in Texts /\ Len(w) = m + n
      /\ \A i \in 1..(m + n) : w[i] = IF i <= m THEN u[i] ELSE t[i - m]
  BY ConcatProperties DEF Texts
<1>2. m \in Nat /\ n \in Nat BY TextsAre
<1>3. (m # 0 => u # <<>>) /\ (n # 0 => t # <<>>) OBVIOUS
<1> HIDE DEF w
<1> DEFINE W == TokensUpTo(w)
           U == TokensUpTo(u)
           V == TokensUpTo(t)
<1>4. /\ W[0] = <<>>
      /\ \A i \in 1..(m + n) : W[i] = W[i - 1] \o TokensAt(w, i)
  BY <1>1, UpToIs
<1>5. /\ U[0] = <<>> /\ \A i \in 1..m : U[i] = U[i - 1] \o TokensAt(u, i)
      /\ \A i \in 0..m : U[i] \in Seq(Tokens)
  BY UpToIs
<1>6. /\ V[0] = <<>> /\ \A i \in 1..n : V[i] = V[i - 1] \o TokensAt(t, i)
      /\ \A i \in 0..n : V[i] \in Seq(Tokens)
  BY UpToIs
<1>7. \A i \in 1..n : TokensAt(t, i) \in Seq(Tokens) BY TokensAtType
<1>8. m # 0 /\ n # 0 => u[m] # Sym("-") \/ ~IsNumber(t[1]) BY <1>3 DEF Parted
<1> HIDE DEF W, U, V, m, n
<1>9. \A i \in 1..m : TokensAt(w, i) = TokensAt(u, i)
  <2> TAKE i \in 1..m
  <2>1. i \in 1..(m + n) /\ i <= m BY <1>2
  <2>2. w[i] = u[i] BY <1>1, <2>1
  <2>3. i > 1 => w[i - 1] = u[i - 1]
    <3> SUFFICES ASSUME i > 1 PROVE w[i - 1] = u[i - 1] OBVIOUS
    <3>1. i - 1 \in 1..(m + n) /\ i - 1 <= m BY <1>2
    <3> QED BY <1>1, <3>1
  <2> QED BY <2>2, <2>3, TokensAtSame
<1>10. \A i \in 1..n : TokensAt(w, m + i) = TokensAt(t, i)
  <2> TAKE i \in 1..n
  <2> DEFINE q == m + i
  <2>1. q \in 1..(m + n) /\ ~(q <= m) /\ q - m = i BY <1>2
  <2>2. w[q] = t[i] BY <1>1, <2>1
  <2>3. CASE i = 1
    <3>1. q = m + 1 /\ q - 1 = m /\ (q > 1 => m # 0) /\ n # 0 BY <1>2, <2>3
    <3>2. q > 1 => w[q - 1] = u[m]
      <4> SUFFICES ASSUME q > 1 PROVE w[q - 1] = u[m] OBVIOUS
      <4>1. m \in 1..(m + n) /\ m <= m BY <1>2, <3>1
      <4>2. w[m] = u[m] BY <1>1, <4>1
      <4> QED BY <3>1, <4>2
    <3>3. \/ ~IsNumber(t[i])
          \/ (q > 1 /\ w[q - 1] = Sym("-")) <=> (i > 1 /\ t[i - 1] = Sym("-"))
      BY <1>8, <2>3, <3>1, <3>2
    <3> HIDE DEF q
    <3> QED BY <2>2, <3>3, TokensAtSame DEF q
  <2>4. CASE i # 1
    <3>1. q - 1 \in 1..(m + n) /\ ~(q - 1 <= m) /\ (q - 1) - m = i - 1 /\ q > 1 /\ i > 1
      BY <1>2, <2>4
    <3>2. w[q - 1] = t[i - 1] BY <1>1, <3>1
    <3> HIDE DEF q
    <3>3. (q > 1 /\ w[q - 1] = Sym("-")) <=> (i > 1 /\ t[i - 1] = Sym("-"))
      BY <3>1, <3>2
    <3> QED BY <2>2, <3>3, TokensAtSame DEF q
  <2> QED BY <2>3, <2>4
<1>11. W[m] = U[m]
  <2> DEFINE S == {i \in Nat : i <= m => W[i] = U[i]}
  <2>1. 0 \in S BY <1>4, <1>5
  <2>2. ASSUME NEW i \in S PROVE i + 1 \in S
    <3> SUFFICES ASSUME i + 1 <= m PROVE W[i + 1] = U[i + 1] OBVIOUS
    <3>1. i + 1 \in 1..m /\ i + 1 \in 1..(m + n) /\ i <= m /\ (i + 1) - 1 = i BY <1>2
    <3>2. W[i] = U[i] BY <3>1
    <3>3. W[i + 1] = W[i] \o TokensAt(w, i + 1) BY <1>4, <3>1
    <3>4. U[i + 1] = U[i] \o TokensAt(u, i + 1) BY <1>5, <3>1
    <3> QED BY <1>9, <3>1, <3>2, <3>3, <3>4
  <2> HIDE DEF S
  <2>3. S = Nat BY <2>1, <2>2, NatSet DEF S
  <2> QED BY <1>2, <2>3 DEF S
<1>12. W[m + n] = U[m] \o V[n]
  <2> DEFINE G(i) == W[m + i] = U[m] \o V[i]
             S == {i \in Nat : i <= n => G(i)}
  <2>0. U[m] \in Seq(Tokens) BY <1>2, <1>5
  <2>1. G(0)
    <3>1. U[m] \o <<>> = U[m] BY <2>0, ConcatEmptySeq
    <3>2. m + 0 = m BY <1>2
    <3> QED BY <1>6, <1>11, <3>1, <3>2
  <2>2. ASSUME NEW i \in Nat, i + 1 <= n, G(i) PROVE G(i + 1)
    <3> DEFINE q == m + (i + 1)
               x == TokensAt(t, i + 1)
               v == V[i]
    <3>1. /\ i + 1 \in 1..n /\ q \in 1..(m + n) /\ (i + 1) - 1 = i
          /\ q - 1 = m + i /\ i \in 0..n
      BY <1>2, <2>2
    <3>2. W[q] = W[q - 1] \o TokensAt(w, q) BY <1>4, <3>1
    <3>3. V[i + 1] = v \o x BY <1>6, <3>1
    <3>4. TokensAt(w, q) = x BY <1>10, <3>1
    <3>5. x \in Seq(Tokens) /\ v \in Seq(Tokens) BY <1>6, <1>7, <3>1
    <3>6. W[q - 1] = U[m] \o v BY <2>2, <3>1
    <3> HIDE DEF q, x, v
    <3>7. W[q] = (U[m] \o v) \o x BY <3>2, <3>4, <3>6
    <3>8. (U[m] \o v) \o x = U[m] \o (v \o x)
      <4> HIDE DEF S, G
      <4>1. \A y, z \in Seq(Tokens) : (y \o v) \o z = y \o (v \o z)
        BY <3>5, ConcatAssociative
      <4> QED BY <2>0, <3>5, <4>1
    <3> QED BY <3>3, <3>7, <3>8 DEF q
  <2> HIDE DEF G
  <2>3. 0 \in S BY <2>1
  <2>4. ASSUME NEW i \in S PROVE i + 1 \in S
    <3>1. i \in Nat /\ i + 1 \in Nat /\ (i + 1 <= n => i <= n) BY <1>2
    <3> QED BY <2>2, <3>1
  <2> HIDE DEF S
  <2>5. S = Nat BY <2>3, <2>4, NatSet DEF S
  <2>6. G(n) BY <1>2, <2>5 DEF S
  <2> QED BY <2>6 DEF G
<1>13. TokensOf(w) = W[m + n] /\ TokensOf(u) = U[m] /\ TokensOf(t) = V[n]
  BY <1>1 DEF TokensOf, W, U, V, m, n
<1> QED BY <1>12, <1>13 DEF w

\* A symbol alone.
LEMMA TokensOfOne ==
  ASSUME NEW s \in Symbols
  PROVE  <<s>> \in Texts /\ TokensOf(<<s>>) = TokensAt(<<s>>, 1)
<1> DEFINE t == <<s>>
<1>1. t \in Texts /\ Len(t) = 1 /\ 1 \in 1..Len(t) /\ 1 - 1 = 0 BY DEF Texts
<1> HIDE DEF t
<1>2. TokensUpTo(t)[1] = <<>> \o TokensAt(t, 1) BY <1>1, UpToIs
<1>3. TokensAt(t, 1) \in Seq(Tokens) BY <1>1, TokensAtType
<1>4. TokensUpTo(t)[1] = TokensAt(t, 1) BY <1>2, <1>3, ConcatEmptySeq
<1> QED BY <1>1, <1>4 DEF TokensOf, t

\* A minus and a number.
LEMMA TokensOfSigned ==
  ASSUME NEW s \in Symbols, IsNumber(s)
  PROVE  /\ <<Sym("-"), s>> \in Texts
         /\ TokensOf(<<Sym("-"), s>>) = <<<<"NUMBER", Stored(s, -1)>>>>
<1> DEFINE t == <<Sym("-"), s>>
<1>1. t \in Texts /\ Len(t) = 2 /\ 1 \in 1..Len(t) /\ 2 \in 1..Len(t)
  BY SymbolsHave DEF Texts
<1>2. t[1] = Sym("-") /\ t[2] = s OBVIOUS
<1> HIDE DEF t
<1>3. TokensAt(t, 1) = <<>> BY <1>2, TokensAtIs DEF Sym, OpTokens
<1>4. TokensAt(t, 2) = <<<<"NUMBER", Stored(s, -1)>>>>
  <2>1. 2 > 1 /\ t[2 - 1] = Sym("-") BY <1>2
  <2> QED BY <1>2, <2>1, TokensAtIs
<1>5. /\ TokensUpTo(t)[1] = TokensUpTo(t)[0] \o TokensAt(t, 1)
      /\ TokensUpTo(t)[2] = TokensUpTo(t)[1] \o TokensAt(t, 2)
      /\ TokensUpTo(t)[0] = <<>>
  <2>1. 1 - 1 = 0 /\ 2 - 1 = 1 OBVIOUS
  <2> QED BY <1>1, <2>1, UpToIs
<1>6. TokensAt(t, 2) \in Seq(Tokens) BY <1>1, TokensAtType
<1>7. <<>> \o <<>> = <<>> OBVIOUS
<1>8. TokensUpTo(t)[2] = TokensAt(t, 2) BY <1>3, <1>5, <1>6, <1>7, ConcatEmptySeq
<1> QED BY <1>1, <1>4, <1>8 DEF TokensOf, t

-----------------------------------------------------------------------------
(* The evaluator of conditions reads only what it may read.                *)

ConditionLevels == {"not", "and", "or", "ands", "ors"}
ConditionLoops == {"ands", "ors"}
ConditionOrder ==
  [l \in ConditionLevels |-> IF l = "or" THEN 2 ELSE IF l = "and" THEN 1 ELSE 0]

ConditionPlaces == Places(ConditionLevels, BOOLEAN)
ConditionReads(K) ==
  Families(ConditionPlaces, Read(ConditionLevels, BOOLEAN, ConditionLoops, Len(K)))

EvaluatorStep(f, K, x) ==
  CASE x[1] = "not" -> Not(f, K, Env, x[3])
    [] x[1] = "and" -> GoOn(f, "ands", From(f, "not", x[3]))
    [] x[1] = "or"  -> GoOn(f, "ors", From(f, "and", x[3]))
    [] OTHER        -> Connected(f, K, x[1], x[2], x[3])

LEMMA ConditionRead ==
  ASSUME NEW K, NEW f \in ConditionReads(K), NEW p \in Nat \ {0}
  PROVE  /\ \A l \in {"not", "and", "or"} : From(f, l, p) \in Readings(BOOLEAN, p, Len(K))
         /\ \A l \in ConditionLoops, v \in BOOLEAN : f[<<l, v, p>>] \in After(BOOLEAN, p)
<1> DEFINE R == Read(ConditionLevels, BOOLEAN, ConditionLoops, Len(K))
<1>1. \A x \in ConditionPlaces : f[x] \in R[x] BY DEF ConditionReads, Families
<1>2. ASSUME NEW l \in {"not", "and", "or"}
      PROVE  From(f, l, p) \in Readings(BOOLEAN, p, Len(K))
  <2> DEFINE x == <<l, FALSE, p>>
  <2>1. x \in ConditionPlaces BY DEF ConditionPlaces, Places, ConditionLevels
  <2>2. x[1] = l /\ x[3] = p /\ l \notin ConditionLoops BY DEF ConditionLoops
  <2>3. From(f, l, p) = f[x] BY DEF From
  <2> HIDE DEF x
  <2>4. R[x] = Readings(BOOLEAN, p, Len(K))
    BY <2>1, <2>2 DEF Read, Readings, ConditionPlaces
  <2> QED BY <1>1, <2>1, <2>3, <2>4
<1>3. ASSUME NEW l \in ConditionLoops, NEW v \in BOOLEAN
      PROVE  f[<<l, v, p>>] \in After(BOOLEAN, p)
  <2> DEFINE x == <<l, v, p>>
  <2>1. x \in ConditionPlaces
    BY DEF ConditionPlaces, Places, ConditionLevels, ConditionLoops
  <2>2. x[1] = l /\ x[3] = p OBVIOUS
  <2> HIDE DEF x
  <2>3. R[x] = After(BOOLEAN, p) BY <2>1, <2>2 DEF Read, ConditionPlaces
  <2> QED BY <1>1, <2>1, <2>3 DEF x
<1> QED BY <1>2, <1>3

LEMMA CompareType ==
  ASSUME NEW l, NEW o, NEW r
  PROVE  Compare(l, o, r) \in BOOLEAN
<1>1. \A equal \in BOOLEAN : \A before : Ordered(o, equal, before) \in BOOLEAN
  BY DEF Ordered
<1> QED BY <1>1 DEF Compare

LEMMA AsBoolType ==
  ASSUME NEW n \in DOMAIN Env
  PROVE  /\ Env[n] # Throws
         /\ AsBool(Env[n]) = Throws \/ \E b \in BOOLEAN : AsBool(Env[n]) = Flag(b)
<1> DEFINE v == Env[n]
<1>1. v \in Contents BY GrammarAssumption
<1> HIDE DEF v
<1>2. v = <<v[1], v[2]>> BY <1>1 DEF Contents
<1>3. v # Throws BY <1>2, NotThrows
<1>4. CASE v[1] = "bool"
  <2>1. v[2] \in BOOLEAN BY <1>1, <1>4 DEF Contents
  <2>2. AsBool(v) = Flag(v[2]) BY <1>2, <1>4 DEF AsBool, Flag
  <2> QED BY <1>3, <2>1, <2>2 DEF v
<1>5. CASE v[1] # "bool"
  <2>1. \/ AsBool(v) = Flag(v[2] # 0) \/ AsBool(v) = Flag(v[2] # <<>>)
        \/ AsBool(v) = Throws
    BY <1>5 DEF AsBool
  <2>2. (v[2] # 0) \in BOOLEAN /\ (v[2] # <<>>) \in BOOLEAN OBVIOUS
  <2> QED BY <1>3, <2>1, <2>2 DEF v
<1> QED BY <1>4, <1>5

LEMMA ComparisonType ==
  ASSUME NEW K \in Seq(Tokens), NEW p \in 1..Len(K), K[p][1] = "IDENTIFIER"
  PROVE  Comparison(K, p, Env) \in After(BOOLEAN, p + 1)
<1> DEFINE A == After(BOOLEAN, p + 1)
           left == Operand(K[p], Env)
           b == AsBool(left)
<1>1. Throws \in A /\ \A v \in BOOLEAN : <<v, p + 1>> \in A /\ <<v, p + 3>> \in A
  BY AfterHas DEF After
<1>2. left = IF K[p][2] \in DOMAIN Env THEN Env[K[p][2]] ELSE Throws BY DEF Operand
<1>3. left # Throws => b = Throws \/ \E v \in BOOLEAN : b = Flag(v) BY <1>2, AsBoolType
<1>4. left # Throws /\ b # Throws => <<b[2], p + 1>> \in A
  <2> HIDE DEF A, left, b
  <2> SUFFICES ASSUME left # Throws, b # Throws PROVE <<b[2], p + 1>> \in A OBVIOUS
  <2>1. PICK v \in BOOLEAN : b = Flag(v) BY <1>3
  <2>2. b[2] = v BY <2>1, NotThrows
  <2> QED BY <1>1, <2>2
<1>5. \A o, r : <<Compare(left, o, r), p + 3>> \in A BY <1>1, CompareType
<1> HIDE DEF A, b
<1>6. CASE ~IsA(K, p + 1, "OPERATOR")
  <2>1. Comparison(K, p, Env) = IF left = Throws \/ b = Throws THEN Throws ELSE <<b[2], p + 1>>
    BY <1>6 DEF Comparison, b
  <2> HIDE DEF left
  <2> QED BY <1>1, <1>4, <2>1 DEF A
<1>7. CASE IsA(K, p + 1, "OPERATOR")
  <2> DEFINE right == Operand(K[p + 2], Env)
  <2>1. \/ Comparison(K, p, Env) = Throws
        \/ Comparison(K, p, Env) = <<Compare(left, K[p + 1][2], right), p + 3>>
    BY <1>7 DEF Comparison
  <2> HIDE DEF left, right
  <2> QED BY <1>1, <1>5, <2>1 DEF A
<1> QED BY <1>6, <1>7

LEMMA NotType ==
  ASSUME NEW K \in Seq(Tokens), NEW f \in ConditionReads(K), NEW p \in Nat \ {0}
  PROVE  Not(f, K, Env, p) \in Readings(BOOLEAN, p, Len(K))
<1> DEFINE N == Len(K)
           A == After(BOOLEAN, p + 1)
<1>1. N \in Nat OBVIOUS
<1>2. Throws \in A BY DEF After
<1>3. CASE p > N
  <2>1. ~IsA(K, p, "NOT") BY <1>1, <1>3 DEF IsA
  <2>2. Not(f, K, Env, p) = Throws BY <1>3, <2>1 DEF Not, Primary
  <2> QED BY <1>1, <1>3, <2>2 DEF Readings
<1>4. CASE p <= N
  <2>1. p \in 1..N /\ ~(p > N) BY <1>1, <1>4
  <2>2. \A l \in {"not", "or"} : From(f, l, p + 1) \in After(BOOLEAN, p + 2)
    <3> TAKE l \in {"not", "or"}
    <3> DEFINE e == From(f, l, p + 1)
    <3>1. e \in Readings(BOOLEAN, p + 1, N) BY ConditionRead
    <3> HIDE DEF e
    <3>2. e \in After(BOOLEAN, (p + 1) + 1) BY <1>1, <3>1, ReadingsAfter
    <3>3. (p + 1) + 1 = p + 2 OBVIOUS
    <3> QED BY <3>2, <3>3 DEF e
  <2>3. CASE IsA(K, p, "NOT")
    <3> DEFINE e == From(f, "not", p + 1)
    <3>1. e \in After(BOOLEAN, p + 2) BY <2>2
    <3>2. Not(f, K, Env, p) = IF e = Throws THEN Throws ELSE <<~e[1], e[2]>>
      BY <2>3 DEF Not
    <3> HIDE DEF e
    <3>3. e # Throws => e[1] \in BOOLEAN /\ e[2] \in Nat /\ e[2] >= p + 1
      BY <3>1, AfterIs
    <3> DEFINE w == ~e[1]
    <3>4. w \in BOOLEAN OBVIOUS
    <3> HIDE DEF w
    <3>5. e # Throws => <<w, e[2]>> \in A BY <3>3, <3>4, AfterHas
    <3> HIDE DEF A
    <3>6. Not(f, K, Env, p) \in A BY <1>2, <3>2, <3>5 DEF w
    <3> QED BY <1>4, <3>6 DEF Readings, A
  <2>4. CASE ~IsA(K, p, "NOT")
    <3>1. Not(f, K, Env, p) = Primary(f, K, Env, p) BY <2>4 DEF Not
    <3>2. CASE K[p][1] = "LPAREN"
      <4> DEFINE e == From(f, "or", p + 1)
      <4>1. e \in After(BOOLEAN, p + 2) BY <2>2
      <4>2. Primary(f, K, Env, p) =
              IF e # Throws /\ IsA(K, e[2], "RPAREN") THEN <<e[1], e[2] + 1>> ELSE Throws
        BY <2>1, <3>2 DEF Primary
      <4> HIDE DEF e
      <4>3. e # Throws => e[1] \in BOOLEAN /\ e[2] \in Nat /\ e[2] >= p + 2
        BY <4>1, AfterIs
      <4>4. e # Throws => <<e[1], e[2] + 1>> \in A
        <5> SUFFICES ASSUME e # Throws PROVE <<e[1], e[2] + 1>> \in A OBVIOUS
        <5>1. e[2] + 1 \in Nat /\ e[2] + 1 >= p + 1 BY <4>3
        <5> QED BY <4>3, <5>1, AfterHas
      <4> HIDE DEF A
      <4>5. Primary(f, K, Env, p) \in A BY <1>2, <4>2, <4>4
      <4> QED BY <1>4, <3>1, <4>5 DEF Readings, A
    <3>3. CASE K[p][1] = "NUMBER"
      <4> DEFINE v == K[p][2] \notin {Whole(0), Double(<<0, 1>>)}
      <4>1. Primary(f, K, Env, p) = <<v, p + 1>> BY <2>1, <3>3 DEF Primary
      <4>2. v \in BOOLEAN OBVIOUS
      <4> HIDE DEF v
      <4>3. <<v, p + 1>> \in A BY <4>2, AfterHas
      <4> QED BY <1>4, <3>1, <4>1, <4>3 DEF Readings
    <3>4. CASE K[p][1] = "IDENTIFIER"
      <4>1. Primary(f, K, Env, p) = Comparison(K, p, Env) BY <2>1, <3>4 DEF Primary
      <4>2. Comparison(K, p, Env) \in A BY <2>1, <3>4, ComparisonType
      <4> QED BY <1>4, <3>1, <4>1, <4>2 DEF Readings
    <3>5. CASE K[p][1] \notin {"LPAREN", "NUMBER", "IDENTIFIER"}
      <4>1. Primary(f, K, Env, p) = Throws BY <2>1, <3>5 DEF Primary
      <4> QED BY <1>2, <1>4, <3>1, <4>1 DEF Readings
    <3> QED BY <3>2, <3>3, <3>4, <3>5
  <2> QED BY <2>3, <2>4
<1> QED BY <1>1, <1>3, <1>4

-----------------------------------------------------------------------------
(* The evaluator of conditions exists.                                     *)

LEMMA ConnectedType ==
  ASSUME NEW K \in Seq(Tokens), NEW f \in ConditionReads(K), NEW loop \in ConditionLoops,
         NEW left \in BOOLEAN, NEW p \in Nat \ {0}
  PROVE  Connected(f, K, loop, left, p) \in After(BOOLEAN, p)
<1> DEFINE N == Len(K)
           A == After(BOOLEAN, p)
           r == From(f, RightSide[loop], p + 1)
           v == IF loop = "ands" THEN left /\ r[1] ELSE left \/ r[1]
<1>1. Throws \in A /\ <<left, p>> \in A BY AfterHas DEF After
<1>2. r \in Readings(BOOLEAN, p + 1, N)
  <2>1. RightSide[loop] \in {"not", "and"} BY DEF RightSide, ConditionLoops
  <2> QED BY <2>1, ConditionRead
<1>3. r # Throws => f[<<loop, v, r[2]>>] \in A
  <2> SUFFICES ASSUME r # Throws PROVE f[<<loop, v, r[2]>>] \in A OBVIOUS
  <2> DEFINE q == r[2]
  <2>1. q \in Nat /\ q > p + 1 /\ N \in Nat
    <3> HIDE DEF r
    <3>1. N \in Nat OBVIOUS
    <3> QED BY <1>2, <3>1, ReadingIs
  <2>2. v \in BOOLEAN OBVIOUS
  <2> HIDE DEF v, q
  <2>3. q \in Nat \ {0} /\ q >= p BY <2>1
  <2>4. f[<<loop, v, q>>] \in After(BOOLEAN, q) BY <2>2, <2>3, ConditionRead
  <2>5. f[<<loop, v, q>>] \in A BY <2>1, <2>3, <2>4, AfterLater
  <2> QED BY <2>5 DEF q
<1>4. Connected(f, K, loop, left, p) \in {<<left, p>>, Throws, f[<<loop, v, r[2]>>]}
      /\ (r = Throws => Connected(f, K, loop, left, p) \in {<<left, p>>, Throws})
  BY DEF Connected
<1> HIDE DEF A, r, v
<1>5. Connected(f, K, loop, left, p) \in A BY <1>1, <1>3, <1>4
<1> QED BY <1>5 DEF A

LEMMA ConditionGoesOn ==
  ASSUME NEW K \in Seq(Tokens), NEW f \in ConditionReads(K), NEW loop \in ConditionLoops,
         NEW p \in Nat \ {0}, NEW e \in Readings(BOOLEAN, p, Len(K))
  PROVE  GoOn(f, loop, e) \in Readings(BOOLEAN, p, Len(K))
<1> DEFINE N == Len(K)
<1>1. N \in Nat OBVIOUS
<1>2. CASE e = Throws BY <1>2 DEF GoOn
<1>3. CASE e # Throws
  <2>1. /\ e[1] \in BOOLEAN /\ e[2] \in Nat /\ e[2] \in Nat \ {0}
        /\ e[2] >= p + 1 /\ p <= N
    <3>1. e[1] \in BOOLEAN /\ e[2] \in Nat /\ e[2] > p /\ p <= N
      BY <1>1, <1>3, ReadingIs
    <3> QED BY <3>1
  <2>2. f[<<loop, e[1], e[2]>>] \in After(BOOLEAN, e[2]) BY <2>1, ConditionRead
  <2>3. f[<<loop, e[1], e[2]>>] \in After(BOOLEAN, p + 1) BY <2>1, <2>2, AfterLater
  <2> QED BY <1>3, <2>1, <2>3 DEF GoOn, Readings
<1> QED BY <1>2, <1>3

LEMMA EvaluatorStepType ==
  ASSUME NEW K \in Seq(Tokens), NEW f \in ConditionReads(K)
  PROVE  [x \in ConditionPlaces |-> EvaluatorStep(f, K, x)] \in ConditionReads(K)
<1> DEFINE R == Read(ConditionLevels, BOOLEAN, ConditionLoops, Len(K))
           g == [x \in ConditionPlaces |-> EvaluatorStep(f, K, x)]
<1>1. ASSUME NEW x \in ConditionPlaces PROVE EvaluatorStep(f, K, x) \in R[x]
  <2> DEFINE l == x[1]
             p == x[3]
  <2>1. l \in ConditionLevels /\ x[2] \in BOOLEAN /\ p \in Nat \ {0}
    BY PlacesAre DEF ConditionPlaces
  <2>2. l \in ConditionLoops => R[x] = After(BOOLEAN, p) BY DEF Read, ConditionPlaces
  <2>3. l \notin ConditionLoops => R[x] = Readings(BOOLEAN, p, Len(K))
    BY DEF Read, ConditionPlaces, Readings
  <2>4. CASE l = "not"
    BY <2>1, <2>3, <2>4, NotType DEF EvaluatorStep, ConditionLoops
  <2>5. CASE l = "and"
    <3>1. From(f, "not", p) \in Readings(BOOLEAN, p, Len(K)) BY <2>1, ConditionRead
    <3>2. GoOn(f, "ands", From(f, "not", p)) \in Readings(BOOLEAN, p, Len(K))
      BY <2>1, <3>1, ConditionGoesOn DEF ConditionLoops
    <3> QED BY <2>3, <2>5, <3>2 DEF EvaluatorStep, ConditionLoops
  <2>6. CASE l = "or"
    <3>1. From(f, "and", p) \in Readings(BOOLEAN, p, Len(K)) BY <2>1, ConditionRead
    <3>2. GoOn(f, "ors", From(f, "and", p)) \in Readings(BOOLEAN, p, Len(K))
      BY <2>1, <3>1, ConditionGoesOn DEF ConditionLoops
    <3> QED BY <2>3, <2>6, <3>2 DEF EvaluatorStep, ConditionLoops
  <2>7. CASE l \in ConditionLoops
    <3>1. EvaluatorStep(f, K, x) = Connected(f, K, l, x[2], p)
      BY <2>7 DEF EvaluatorStep, ConditionLoops
    <3>2. Connected(f, K, l, x[2], p) \in After(BOOLEAN, p)
      BY <2>1, <2>7, ConnectedType
    <3> QED BY <2>2, <2>7, <3>1, <3>2
  <2> QED BY <2>1, <2>4, <2>5, <2>6, <2>7 DEF ConditionLevels, ConditionLoops
<1>2. \A x \in ConditionPlaces : g[x] \in R[x] BY <1>1
<1>3. \A x \in ConditionPlaces : g[x] \in Results(ConditionPlaces, R)
  BY <1>2 DEF Results
<1> HIDE DEF R
<1>4. g \in [ConditionPlaces -> Results(ConditionPlaces, R)] BY <1>3
<1> HIDE DEF g
<1>5. g \in ConditionReads(K) BY <1>2, <1>4 DEF ConditionReads, Families, R
<1> QED BY <1>5 DEF g

LEMMA EvaluatorStepSame ==
  ASSUME NEW K \in Seq(Tokens), NEW f \in ConditionReads(K), NEW g \in ConditionReads(K),
         NEW x \in ConditionPlaces,
         \A y \in ConditionPlaces : Inside(Len(K), ConditionOrder, y, x) => f[y] = g[y]
  PROVE  EvaluatorStep(f, K, x) = EvaluatorStep(g, K, x)
<1> DEFINE l == x[1]
           p == x[3]
           N == Len(K)
<1>1. l \in ConditionLevels /\ x[2] \in BOOLEAN /\ p \in Nat \ {0} /\ N \in Nat
  BY PlacesAre DEF ConditionPlaces
<1>2. ASSUME NEW k \in ConditionLevels, NEW v \in BOOLEAN, NEW q \in Nat \ {0},
             p <= N, q > p
      PROVE  f[<<k, v, q>>] = g[<<k, v, q>>]
  <2> DEFINE y == <<k, v, q>>
  <2>1. y \in ConditionPlaces /\ y[3] = q BY DEF ConditionPlaces, Places
  <2> HIDE DEF y
  <2>2. Inside(N, ConditionOrder, y, x) BY <1>2, <2>1 DEF Inside
  <2>3. f[y] = g[y] BY <2>1, <2>2
  <2> QED BY <2>3 DEF y
<1>3. ASSUME NEW k \in ConditionLevels, ConditionOrder[k] < ConditionOrder[l]
      PROVE  From(f, k, p) = From(g, k, p)
  <2> DEFINE y == <<k, FALSE, p>>
  <2>1. y \in ConditionPlaces /\ y[3] = p /\ y[1] = k
    BY <1>1 DEF ConditionPlaces, Places
  <2> HIDE DEF y
  <2>2. Inside(N, ConditionOrder, y, x) BY <1>3, <2>1 DEF Inside
  <2>3. f[y] = g[y] BY <2>1, <2>2
  <2> QED BY <2>3 DEF y, From
<1>4. \A k \in ConditionLevels : p <= N => From(f, k, p + 1) = From(g, k, p + 1)
  <2>1. p + 1 \in Nat \ {0} /\ p + 1 > p BY <1>1
  <2> QED BY <1>2, <2>1 DEF From
<1>5. ASSUME NEW loop \in ConditionLoops, NEW e \in Readings(BOOLEAN, p, N)
      PROVE  GoOn(f, loop, e) = GoOn(g, loop, e)
  <2>1. CASE e = Throws BY <2>1 DEF GoOn
  <2>2. CASE e # Throws
    <3>1. e[1] \in BOOLEAN /\ e[2] \in Nat \ {0} /\ e[2] > p /\ p <= N
      BY <1>1, <2>2, ReadingIs
    <3>2. loop \in ConditionLevels BY DEF ConditionLoops, ConditionLevels
    <3>3. f[<<loop, e[1], e[2]>>] = g[<<loop, e[1], e[2]>>] BY <1>2, <3>1, <3>2
    <3> QED BY <2>2, <3>3 DEF GoOn
  <2> QED BY <2>1, <2>2
<1>6. CASE l = "not"
  <2>1. CASE p > N
    <3>1. ~IsA(K, p, "NOT") BY <1>1, <2>1 DEF IsA
    <3> QED BY <1>6, <2>1, <3>1 DEF EvaluatorStep, Not, Primary
  <2>2. CASE ~(p > N)
    <3>1. p <= N BY <1>1, <2>2
    <3>2. /\ From(f, "not", p + 1) = From(g, "not", p + 1)
          /\ From(f, "or", p + 1) = From(g, "or", p + 1)
      BY <1>4, <3>1 DEF ConditionLevels
    <3>3. Primary(f, K, Env, p) = Primary(g, K, Env, p) BY <3>2 DEF Primary
    <3>4. Not(f, K, Env, p) = Not(g, K, Env, p) BY <3>2, <3>3 DEF Not
    <3> QED BY <1>6, <3>4 DEF EvaluatorStep
  <2> QED BY <2>1, <2>2
<1>7. CASE l = "and"
  <2>1. "not" \in ConditionLevels /\ ConditionOrder["not"] < ConditionOrder[l]
    BY <1>7 DEF ConditionLevels, ConditionOrder
  <2>2. From(f, "not", p) = From(g, "not", p) BY <1>3, <2>1
  <2>3. From(f, "not", p) \in Readings(BOOLEAN, p, N) BY <1>1, ConditionRead
  <2>4. GoOn(f, "ands", From(f, "not", p)) = GoOn(g, "ands", From(g, "not", p))
    BY <1>5, <2>2, <2>3 DEF ConditionLoops
  <2> QED BY <1>7, <2>4 DEF EvaluatorStep
<1>8. CASE l = "or"
  <2>1. "and" \in ConditionLevels /\ ConditionOrder["and"] < ConditionOrder[l]
    BY <1>8 DEF ConditionLevels, ConditionOrder
  <2>2. From(f, "and", p) = From(g, "and", p) BY <1>3, <2>1
  <2>3. From(f, "and", p) \in Readings(BOOLEAN, p, N) BY <1>1, ConditionRead
  <2>4. GoOn(f, "ors", From(f, "and", p)) = GoOn(g, "ors", From(g, "and", p))
    BY <1>5, <2>2, <2>3 DEF ConditionLoops
  <2> QED BY <1>8, <2>4 DEF EvaluatorStep
<1>9. CASE l \in ConditionLoops
  <2> DEFINE level == RightSide[l]
             r == From(f, level, p + 1)
             v == IF l = "ands" THEN x[2] /\ r[1] ELSE x[2] \/ r[1]
  <2>1. level \in {"not", "and"} BY <1>9 DEF RightSide, ConditionLoops
  <2>2. EvaluatorStep(f, K, x) = Connected(f, K, l, x[2], p)
        /\ EvaluatorStep(g, K, x) = Connected(g, K, l, x[2], p)
    BY <1>9 DEF EvaluatorStep, ConditionLoops
  <2>3. CASE ~GoesOn(K, l, x[2], p) BY <2>2, <2>3 DEF Connected
  <2>4. CASE GoesOn(K, l, x[2], p)
    <3>1. p <= N BY <2>4 DEF GoesOn, IsA
    <3>2. r = From(g, level, p + 1) /\ r \in Readings(BOOLEAN, p + 1, N)
      BY <1>1, <1>4, <2>1, <3>1, ConditionRead DEF ConditionLevels
    <3>3. r # Throws => f[<<l, v, r[2]>>] = g[<<l, v, r[2]>>]
      <4> SUFFICES ASSUME r # Throws PROVE f[<<l, v, r[2]>>] = g[<<l, v, r[2]>>] OBVIOUS
      <4> DEFINE q == r[2]
      <4>1. q \in Nat /\ q > p + 1
        <5> HIDE DEF r
        <5> QED BY <1>1, <3>2, ReadingIs
      <4>2. v \in BOOLEAN OBVIOUS
      <4> HIDE DEF q, v
      <4>3. q \in Nat \ {0} /\ q > p BY <1>1, <4>1
      <4>4. f[<<l, v, q>>] = g[<<l, v, q>>] BY <1>1, <1>2, <3>1, <4>2, <4>3
      <4> QED BY <4>4 DEF q
    <3> HIDE DEF level
    <3>4. Connected(f, K, l, x[2], p) = IF r = Throws THEN Throws ELSE f[<<l, v, r[2]>>]
      BY <2>4 DEF Connected, level
    <3>5. Connected(g, K, l, x[2], p) = IF r = Throws THEN Throws ELSE g[<<l, v, r[2]>>]
      BY <2>4, <3>2 DEF Connected, level
    <3> HIDE DEF r, v
    <3> QED BY <2>2, <3>3, <3>4, <3>5
  <2> QED BY <2>3, <2>4
<1> QED BY <1>1, <1>6, <1>7, <1>8, <1>9 DEF ConditionLevels, ConditionLoops

ReadsInside(L, V, loops, N, order, Step) ==
  /\ \A l \in L : order[l] \in 0..2
  /\ \A f \in Families(Places(L, V), Read(L, V, loops, N)) :
       Step[f] \in Families(Places(L, V), Read(L, V, loops, N))
  /\ \A f, g \in Families(Places(L, V), Read(L, V, loops, N)) :
       \A x \in Places(L, V) :
         (\A y \in Places(L, V) : Inside(N, order, y, x) => f[y] = g[y])
           => Step[f][x] = Step[g][x]

LEMMA ReadingExists ==
  ASSUME NEW L, NEW V, NEW loops, NEW N \in Nat, NEW order, NEW Step,
         ReadsInside(L, V, loops, N, order, Step)
  PROVE  \E f \in Families(Places(L, V), Read(L, V, loops, N)) : f = Step[f]
BY ParserExists DEF ReadsInside

LEMMA EvaluatorExists ==
  ASSUME NEW K, Len(K) \in Nat, NEW Step,
         \A f \in ConditionReads(K) : Step[f] \in ConditionReads(K),
         \A f, g \in ConditionReads(K) : \A y \in ConditionPlaces :
           (\A z \in ConditionPlaces : Inside(Len(K), ConditionOrder, z, y) => f[z] = g[z])
             => Step[f][y] = Step[g][y]
  PROVE  \E f \in ConditionReads(K) : f = Step[f]
<1>1. \A l \in ConditionLevels : ConditionOrder[l] \in 0..2 BY DEF ConditionOrder
<1>2. ReadsInside(ConditionLevels, BOOLEAN, ConditionLoops, Len(K), ConditionOrder, Step)
  BY <1>1 DEF ReadsInside, ConditionReads, ConditionPlaces
<1> QED BY <1>2, ReadingExists DEF ConditionReads, ConditionPlaces

LEMMA EvaluatorIs ==
  ASSUME NEW K \in Seq(Tokens), NEW x \in ConditionPlaces
  PROVE  Evaluator(K, Env)[x] = EvaluatorStep(Evaluator(K, Env), K, x)
<1> DEFINE F == ConditionReads(K)
           Step == [f \in F |-> [y \in ConditionPlaces |-> EvaluatorStep(f, K, y)]]
<1>1. \A f \in F : Step[f] \in F BY EvaluatorStepType
<1>2. \A f, g \in F : \A y \in ConditionPlaces :
        (\A z \in ConditionPlaces : Inside(Len(K), ConditionOrder, z, y) => f[z] = g[z])
          => Step[f][y] = Step[g][y]
  BY EvaluatorStepSame
<1>4. Len(K) \in Nat OBVIOUS
<1>5. \E f \in F : f = Step[f]
  <2> HIDE DEF Step
  <2> QED BY <1>1, <1>2, <1>4, EvaluatorExists
<1>6. \E f : f = [y \in ConditionPlaces |-> EvaluatorStep(f, K, y)] BY <1>5
<1>7. Evaluator(K, Env) =
        [y \in ConditionPlaces |-> EvaluatorStep(Evaluator(K, Env), K, y)]
  BY <1>6 DEF Evaluator, EvaluatorStep, ConditionPlaces, Places, ConditionLevels
<1> QED BY <1>7

-----------------------------------------------------------------------------
(* How a condition is read, wherever its tokens stand.                     *)

TruthValues == {Throws, Flag(TRUE), Flag(FALSE)}

Judge(K) == Evaluator(K, Env)

NotReads(s, val) == \A K \in Seq(Tokens), a \in Nat :
  Sits(s, K, a) /\ ~IsA(K, a + Len(s) + 1, "OPERATOR") =>
    From(Judge(K), "not", a + 1) = Res(val, a + Len(s) + 1)

AndReads(s, val) == \A K \in Seq(Tokens), a \in Nat :
  Sits(s, K, a) /\ ~IsA(K, a + Len(s) + 1, "OPERATOR") =>
    From(Judge(K), "and", a + 1) = GoOn(Judge(K), "ands", Res(val, a + Len(s) + 1))

OrReads(s, val) == \A K \in Seq(Tokens), a \in Nat :
  Sits(s, K, a) /\ (\A type \in {"OPERATOR", "AND"} : ~IsA(K, a + Len(s) + 1, type)) =>
    From(Judge(K), "or", a + 1) = GoOn(Judge(K), "ors", Res(val, a + Len(s) + 1))

LEMMA JudgeIs ==
  ASSUME NEW K \in Seq(Tokens), NEW p \in Nat \ {0}
  PROVE  /\ From(Judge(K), "not", p) = Not(Judge(K), K, Env, p)
         /\ From(Judge(K), "and", p) = GoOn(Judge(K), "ands", From(Judge(K), "not", p))
         /\ From(Judge(K), "or", p) = GoOn(Judge(K), "ors", From(Judge(K), "and", p))
         /\ \A loop \in ConditionLoops, v \in BOOLEAN :
              Judge(K)[<<loop, v, p>>] = Connected(Judge(K), K, loop, v, p)
<1>1. ASSUME NEW l \in ConditionLevels, NEW v \in BOOLEAN
      PROVE  Judge(K)[<<l, v, p>>] = EvaluatorStep(Judge(K), K, <<l, v, p>>)
  <2>1. <<l, v, p>> \in ConditionPlaces BY DEF ConditionPlaces, Places
  <2> QED BY <2>1, EvaluatorIs DEF Judge
<1>2. FALSE \in BOOLEAN OBVIOUS
<1>3. /\ Judge(K)[<<"not", FALSE, p>>] = Not(Judge(K), K, Env, p)
      /\ Judge(K)[<<"and", FALSE, p>>] = GoOn(Judge(K), "ands", From(Judge(K), "not", p))
      /\ Judge(K)[<<"or", FALSE, p>>] = GoOn(Judge(K), "ors", From(Judge(K), "and", p))
  BY <1>1, <1>2 DEF EvaluatorStep, ConditionLevels
<1>4. ASSUME NEW loop \in ConditionLoops, NEW v \in BOOLEAN
      PROVE  Judge(K)[<<loop, v, p>>] = Connected(Judge(K), K, loop, v, p)
  <2>1. loop \in ConditionLevels BY DEF ConditionLoops, ConditionLevels
  <2> QED BY <1>1, <2>1 DEF EvaluatorStep, ConditionLoops
<1> QED BY <1>3, <1>4 DEF From

LEMMA TruthValuesAre ==
  ASSUME NEW v \in TruthValues
  PROVE  v # Throws => v[2] \in BOOLEAN /\ v = Flag(v[2])
<1>1. ASSUME NEW b \in BOOLEAN PROVE Flag(b)[2] = b BY NotThrows
<1>2. v # Throws => \E b \in BOOLEAN : v = Flag(b) BY DEF TruthValues
<1> QED BY <1>1, <1>2

LEMMA FlagIs ==
  ASSUME NEW b \in BOOLEAN, NEW k
  PROVE  Flag(b) \in TruthValues /\ Res(Flag(b), k) = <<b, k>> /\ Flag(b)[2] = b
<1>1. b = TRUE \/ b = FALSE OBVIOUS
<1>2. Flag(b) \in TruthValues BY <1>1 DEF TruthValues
<1> QED BY <1>2, NotThrows DEF Res

LEMMA ConnectingEnds ==
  ASSUME NEW K \in Seq(Tokens), NEW k \in Nat \ {0}, NEW loop \in ConditionLoops,
         NEW val \in TruthValues, ~IsA(K, k, Connective[loop])
  PROVE  GoOn(Judge(K), loop, Res(val, k)) = Res(val, k)
<1>1. CASE val = Throws BY <1>1 DEF GoOn, Res
<1>2. CASE val # Throws
  <2> DEFINE v == val[2]
  <2>1. v \in BOOLEAN BY <1>2, TruthValuesAre
  <2>2. Res(val, k) = <<v, k>> /\ <<v, k>> # Throws BY <1>2, NotThrows DEF Res
  <2> HIDE DEF v
  <2>3. GoOn(Judge(K), loop, <<v, k>>) = Judge(K)[<<loop, v, k>>] BY <2>2 DEF GoOn
  <2>4. Judge(K)[<<loop, v, k>>] = Connected(Judge(K), K, loop, v, k) BY <2>1, JudgeIs
  <2>5. Connected(Judge(K), K, loop, v, k) = <<v, k>> BY DEF Connected, GoesOn
  <2> QED BY <2>2, <2>3, <2>4, <2>5
<1> QED BY <1>1, <1>2

Connectives == [ands |-> {"and", "&&"}, ors |-> {"or", "||"}]

LEMMA JoinedIs ==
  ASSUME NEW loop \in ConditionLoops, NEW o \in Connectives[loop],
         NEW a \in TruthValues, NEW b \in TruthValues
  PROVE  /\ Both(o, a, b) \in TruthValues
         /\ a = Throws \/ b = Throws => Both(o, a, b) = Throws
         /\ a # Throws /\ b # Throws =>
              Both(o, a, b) = Flag(IF loop = "ands" THEN a[2] /\ b[2] ELSE a[2] \/ b[2])
<1>1. a = Throws \/ b = Throws => Both(o, a, b) = Throws BY DEF Both
<1>2. ASSUME a # Throws, b # Throws
      PROVE  Both(o, a, b) = Flag(IF loop = "ands" THEN a[2] /\ b[2] ELSE a[2] \/ b[2])
  <2>1. DOMAIN Binds = {"*", "/", "+", "-"} BY DEF Binds
  <2>2. CASE loop = "ands"
    <3>1. o \notin DOMAIN Binds /\ Joins[o] = 3 BY <2>1, <2>2 DEF Connectives, Joins
    <3> QED BY <1>2, <2>2, <3>1 DEF Both
  <2>3. CASE loop = "ors"
    <3>1. o \notin DOMAIN Binds /\ Joins[o] = 4 BY <2>1, <2>3 DEF Connectives, Joins
    <3> QED BY <1>2, <2>3, <3>1 DEF Both
  <2> QED BY <2>2, <2>3 DEF ConditionLoops
<1>3. Both(o, a, b) \in TruthValues
  <2>1. CASE a = Throws \/ b = Throws BY <1>1, <2>1 DEF TruthValues
  <2>2. CASE a # Throws /\ b # Throws
    <3> DEFINE c == IF loop = "ands" THEN a[2] /\ b[2] ELSE a[2] \/ b[2]
    <3>1. c \in BOOLEAN /\ Both(o, a, b) = Flag(c) BY <1>2, <2>2
    <3> QED BY <3>1, FlagIs
  <2> QED BY <2>1, <2>2
<1> QED BY <1>1, <1>2, <1>3

LEMMA ConnectingStep ==
  ASSUME NEW K \in Seq(Tokens), NEW k \in Nat \ {0}, NEW m \in Nat \ {0},
         NEW loop \in ConditionLoops, NEW o \in Connectives[loop],
         NEW a \in TruthValues, NEW b \in TruthValues,
         IsA(K, k, Connective[loop]), From(Judge(K), RightSide[loop], k + 1) = Res(b, m)
  PROVE  GoOn(Judge(K), loop, Res(a, k)) = GoOn(Judge(K), loop, Res(Both(o, a, b), m))
<1>1. CASE a = Throws
  <2>1. Both(o, a, b) = Throws BY <1>1, JoinedIs
  <2> QED BY <1>1, <2>1 DEF GoOn, Res
<1>2. CASE a # Throws
  <2> DEFINE x == a[2]
             d == Both(o, a, b)
             r == From(Judge(K), RightSide[loop], k + 1)
             c == IF loop = "ands" THEN x /\ r[1] ELSE x \/ r[1]
  <2>1. x \in BOOLEAN BY <1>2, TruthValuesAre
  <2>2. Res(a, k) = <<x, k>> /\ <<x, k>> # Throws BY <1>2, NotThrows DEF Res
  <2>3. Judge(K)[<<loop, x, k>>] = Connected(Judge(K), K, loop, x, k) BY <2>1, JudgeIs
  <2>4. Connected(Judge(K), K, loop, x, k) =
          IF r = Throws THEN Throws ELSE Judge(K)[<<loop, c, r[2]>>]
    BY DEF Connected, GoesOn
  <2>5. GoOn(Judge(K), loop, Res(a, k)) =
          IF r = Throws THEN Throws ELSE Judge(K)[<<loop, c, r[2]>>]
    <3> HIDE DEF r, c, x
    <3> QED BY <2>2, <2>3, <2>4 DEF GoOn
  <2>6. CASE b = Throws
    <3>1. r = Throws BY <2>6 DEF Res
    <3>2. d = Throws BY <2>6, JoinedIs
    <3> QED BY <2>5, <3>1, <3>2 DEF GoOn, Res
  <2>7. CASE b # Throws
    <3>1. r = <<b[2], m>> /\ r # Throws BY <2>7, NotThrows DEF Res
    <3>2. r[1] = b[2] /\ r[2] = m BY <3>1
    <3>3. d = Flag(c) BY <1>2, <2>7, <3>2, JoinedIs
    <3>4. c \in BOOLEAN OBVIOUS
    <3> HIDE DEF c, d, r
    <3>5. Res(d, m) = <<c, m>> /\ <<c, m>> # Throws BY <3>3, <3>4, FlagIs, NotThrows
    <3>6. GoOn(Judge(K), loop, Res(d, m)) = Judge(K)[<<loop, c, m>>] BY <3>5 DEF GoOn
    <3> QED BY <2>5, <3>1, <3>2, <3>6 DEF d
  <2> QED BY <2>6, <2>7
<1> QED BY <1>1, <1>2

LEMMA AndFromNot ==
  ASSUME NEW s \in Seq(Tokens), NEW val \in TruthValues, NotReads(s, val)
  PROVE  AndReads(s, val)
<1> SUFFICES ASSUME NEW K \in Seq(Tokens), NEW a \in Nat,
                    Sits(s, K, a) /\ ~IsA(K, a + Len(s) + 1, "OPERATOR")
             PROVE  From(Judge(K), "and", a + 1) =
                      GoOn(Judge(K), "ands", Res(val, a + Len(s) + 1))
  BY DEF AndReads
<1>1. From(Judge(K), "not", a + 1) = Res(val, a + Len(s) + 1) BY DEF NotReads
<1>2. a + 1 \in Nat \ {0} OBVIOUS
<1> QED BY <1>1, <1>2, JudgeIs

LEMMA OrFromAnd ==
  ASSUME NEW s \in Seq(Tokens), NEW val \in TruthValues, AndReads(s, val)
  PROVE  OrReads(s, val)
<1> SUFFICES ASSUME NEW K \in Seq(Tokens), NEW a \in Nat, Sits(s, K, a),
                    \A type \in {"OPERATOR", "AND"} : ~IsA(K, a + Len(s) + 1, type)
             PROVE  From(Judge(K), "or", a + 1) =
                      GoOn(Judge(K), "ors", Res(val, a + Len(s) + 1))
  BY DEF OrReads
<1> DEFINE k == a + Len(s) + 1
<1>1. k \in Nat \ {0} /\ a + 1 \in Nat \ {0} BY LenProperties
<1>2. ~IsA(K, k, "OPERATOR") /\ ~IsA(K, k, Connective["ands"]) BY DEF Connective
<1>3. From(Judge(K), "and", a + 1) = GoOn(Judge(K), "ands", Res(val, k))
  BY <1>2 DEF AndReads
<1> HIDE DEF k
<1>4. GoOn(Judge(K), "ands", Res(val, k)) = Res(val, k)
  BY <1>1, <1>2, ConnectingEnds DEF ConditionLoops
<1> QED BY <1>1, <1>3, <1>4, JudgeIs DEF k

LEMMA OrEnds ==
  ASSUME NEW s \in Seq(Tokens), NEW val \in TruthValues, OrReads(s, val),
         NEW K \in Seq(Tokens), NEW a \in Nat, Sits(s, K, a),
         \A type \in {"OPERATOR", "AND", "OR"} : ~IsA(K, a + Len(s) + 1, type)
  PROVE  From(Judge(K), "or", a + 1) = Res(val, a + Len(s) + 1)
<1> DEFINE k == a + Len(s) + 1
<1>1. k \in Nat \ {0} BY LenProperties
<1>2. ~IsA(K, k, "OPERATOR") /\ ~IsA(K, k, "AND") /\ ~IsA(K, k, Connective["ors"])
  BY DEF Connective
<1>3. From(Judge(K), "or", a + 1) = GoOn(Judge(K), "ors", Res(val, k))
  BY <1>2 DEF OrReads
<1> HIDE DEF k
<1>4. GoOn(Judge(K), "ors", Res(val, k)) = Res(val, k)
  BY <1>1, <1>2, ConnectingEnds DEF ConditionLoops
<1> QED BY <1>3, <1>4 DEF k

-----------------------------------------------------------------------------
(* Parentheses, negations and connectives.                                 *)

LEMMA TokensHave ==
  /\ <<"AND">> \in Tokens /\ <<"OR">> \in Tokens /\ <<"NOT">> \in Tokens
  /\ <<"LPAREN">> \in Tokens /\ <<"RPAREN">> \in Tokens /\ <<"END">> \in Tokens
  /\ <<"OPERATOR", "!">> \in Tokens
BY DEF Tokens

LEMMA ParenthesesRead ==
  ASSUME NEW s \in Seq(Tokens), NEW val \in TruthValues, OrReads(s, val)
  PROVE  NotReads(<<<<"LPAREN">>>> \o s \o <<<<"RPAREN">>>>, val)
<1> DEFINE w == <<<<"LPAREN">>>> \o s \o <<<<"RPAREN">>>>
<1> SUFFICES ASSUME NEW K \in Seq(Tokens), NEW a \in Nat, Sits(w, K, a)
             PROVE  From(Judge(K), "not", a + 1) = Res(val, a + Len(w) + 1)
  BY DEF NotReads
<1>1. Len(w) = Len(s) + 2 /\ Sits(s, K, a + 1) /\ a + 1 <= Len(K) /\ K[a + 1] = <<"LPAREN">>
      /\ a + Len(s) + 2 <= Len(K) /\ K[a + Len(s) + 2] = <<"RPAREN">>
  BY TokensHave, Between
<1> DEFINE p == a + 1
           k == p + Len(s) + 1
<1>2. p \in Nat \ {0} /\ k = a + Len(s) + 2 /\ p \in Nat /\ k \in Nat
      /\ k + 1 = a + Len(w) + 1 /\ ~(p > Len(K))
  BY <1>1, LenProperties
<1>3. /\ IsA(K, k, "RPAREN") /\ K[p][1] = "LPAREN" /\ Sits(s, K, p)
      /\ \A type \in {"OPERATOR", "AND", "OR"} : ~IsA(K, k, type)
  BY <1>1, <1>2 DEF IsA
<1> HIDE DEF w
<1>5. From(Judge(K), "or", p + 1) = Res(val, k) BY <1>2, <1>3, OrEnds
<1> HIDE DEF p, k
<1>6. ~IsA(K, p, "NOT") BY <1>3 DEF IsA
<1>7. Not(Judge(K), K, Env, p) =
        IF Res(val, k) # Throws /\ IsA(K, Res(val, k)[2], "RPAREN")
          THEN <<Res(val, k)[1], Res(val, k)[2] + 1>> ELSE Throws
  <2>1. Primary(Judge(K), K, Env, p) =
          IF From(Judge(K), "or", p + 1) # Throws
               /\ IsA(K, From(Judge(K), "or", p + 1)[2], "RPAREN")
            THEN <<From(Judge(K), "or", p + 1)[1], From(Judge(K), "or", p + 1)[2] + 1>>
            ELSE Throws
    BY <1>2, <1>3 DEF Primary
  <2> QED BY <1>5, <1>6, <2>1 DEF Not
<1>8. Not(Judge(K), K, Env, p) = Res(val, k + 1)
  <2>1. CASE val = Throws BY <1>7, <2>1 DEF Res
  <2>2. CASE val # Throws
    <3>1. Res(val, k) = <<val[2], k>> /\ <<val[2], k>> # Throws
          /\ Res(val, k + 1) = <<val[2], k + 1>>
      BY <2>2, NotThrows DEF Res
    <3> QED BY <1>3, <1>7, <3>1
  <2> QED BY <2>1, <2>2
<1>9. From(Judge(K), "not", p) = Not(Judge(K), K, Env, p) BY <1>2, JudgeIs
<1> QED BY <1>2, <1>8, <1>9 DEF p

LEMMA NegationReads ==
  ASSUME NEW s \in Seq(Tokens), NEW val \in TruthValues, NotReads(s, val),
         NEW new, new = IF val = Throws THEN Throws ELSE Flag(~val[2])
  PROVE  new \in TruthValues /\ NotReads(<<<<"NOT">>>> \o s, new)
<1> DEFINE w == <<<<"NOT">>>> \o s
<1>0. \A k : /\ val = Throws => Res(val, k) = Throws /\ Res(new, k) = Throws
             /\ val # Throws => /\ Res(val, k) = <<val[2], k>> /\ <<val[2], k>> # Throws
                                /\ Res(new, k) = <<~val[2], k>>
  <2>1. val # Throws => (~val[2]) \in BOOLEAN /\ new = Flag(~val[2]) OBVIOUS
  <2> QED BY <2>1, NotThrows DEF Res
<1>1. new \in TruthValues
  <2>1. CASE val = Throws BY <2>1 DEF TruthValues
  <2>2. CASE val # Throws
    <3> DEFINE b == ~val[2]
    <3>1. b \in BOOLEAN /\ new = Flag(b) BY <2>2
    <3> QED BY <3>1, FlagIs
  <2> QED BY <2>1, <2>2
<1> SUFFICES ASSUME NEW K \in Seq(Tokens), NEW a \in Nat,
                    Sits(w, K, a), ~IsA(K, a + Len(w) + 1, "OPERATOR")
             PROVE  From(Judge(K), "not", a + 1) = Res(new, a + Len(w) + 1)
  BY <1>1 DEF NotReads
<1>2. Len(w) = Len(s) + 1 /\ Sits(s, K, a + 1) /\ K[a + 1] = <<"NOT">> /\ a + 1 <= Len(K)
  BY TokensHave, InFront
<1> DEFINE p == a + 1
           k == p + Len(s) + 1
<1>3. p \in Nat \ {0} /\ k = a + Len(w) + 1 /\ p \in Nat BY <1>2, LenProperties
<1>4. IsA(K, p, "NOT") /\ Sits(s, K, p) /\ ~IsA(K, k, "OPERATOR")
  BY <1>2, <1>3 DEF IsA
<1> HIDE DEF w
<1>5. From(Judge(K), "not", p + 1) = Res(val, k) BY <1>3, <1>4 DEF NotReads
<1> HIDE DEF p, k
<1>6. Not(Judge(K), K, Env, p) =
        IF Res(val, k) = Throws THEN Throws ELSE <<~(Res(val, k)[1]), Res(val, k)[2]>>
  BY <1>4, <1>5 DEF Not
<1>7. Not(Judge(K), K, Env, p) = Res(new, k)
  <2>1. CASE val = Throws BY <1>0, <1>6, <2>1
  <2>2. CASE val # Throws
    <3>1. Res(val, k) = <<val[2], k>> /\ <<val[2], k>> # Throws
          /\ Res(new, k) = <<~val[2], k>>
      BY <1>0, <2>2
    <3>2. Res(val, k)[1] = val[2] /\ Res(val, k)[2] = k BY <3>1
    <3> QED BY <1>6, <3>1, <3>2
  <2> QED BY <2>1, <2>2
<1>8. From(Judge(K), "not", p) = Not(Judge(K), K, Env, p) BY <1>3, JudgeIs
<1> QED BY <1>3, <1>7, <1>8 DEF p

LEMMA BangReads ==
  ASSUME NEW s \in Seq(Tokens)
  PROVE  NotReads(<<<<"OPERATOR", "!">>>> \o s, Throws)
<1> DEFINE w == <<<<"OPERATOR", "!">>>> \o s
<1> SUFFICES ASSUME NEW K \in Seq(Tokens), NEW a \in Nat, Sits(w, K, a)
             PROVE  From(Judge(K), "not", a + 1) = Res(Throws, a + Len(w) + 1)
  BY DEF NotReads
<1>1. K[a + 1] = <<"OPERATOR", "!">> /\ a + 1 <= Len(K) BY TokensHave, InFront
<1> DEFINE p == a + 1
<1>2. p \in Nat \ {0} /\ ~(p > Len(K)) BY <1>1, LenProperties
<1>3. K[p][1] = "OPERATOR" BY <1>1
<1> HIDE DEF p, w
<1>4. Not(Judge(K), K, Env, p) = Throws BY <1>2, <1>3 DEF Not, Primary, IsA
<1>5. From(Judge(K), "not", p) = Not(Judge(K), K, Env, p) BY <1>2, JudgeIs
<1> QED BY <1>4, <1>5 DEF Res, p

LEMMA AndJoins ==
  ASSUME NEW s \in Seq(Tokens), NEW u \in Seq(Tokens),
         NEW a \in TruthValues, NEW b \in TruthValues,
         NEW o \in {"and", "&&"}, AndReads(s, a), NotReads(u, b)
  PROVE  AndReads(s \o <<<<"AND">>>> \o u, Both(o, a, b))
<1> DEFINE w == s \o <<<<"AND">>>> \o u
           c == Both(o, a, b)
<1>1. o \in Connectives["ands"] /\ "ands" \in ConditionLoops
  BY DEF Connectives, ConditionLoops
<1> SUFFICES ASSUME NEW K \in Seq(Tokens), NEW n \in Nat,
                    Sits(w, K, n), ~IsA(K, n + Len(w) + 1, "OPERATOR")
             PROVE  From(Judge(K), "and", n + 1) =
                      GoOn(Judge(K), "ands", Res(c, n + Len(w) + 1))
  BY DEF AndReads
<1> DEFINE k == n + Len(s) + 1
           m == k + Len(u) + 1
<1>2. /\ Len(w) = Len(s) + 1 + Len(u) /\ Sits(s, K, n) /\ Sits(u, K, k)
      /\ K[k] = <<"AND">> /\ k <= Len(K)
  BY TokensHave, Joined
<1>3. k \in Nat \ {0} /\ m \in Nat \ {0} /\ m = n + Len(w) + 1 /\ k \in Nat
  BY <1>2, LenProperties
<1>4. IsA(K, k, Connective["ands"]) /\ ~IsA(K, k, "OPERATOR")
  BY <1>2 DEF IsA, Connective
<1>5. From(Judge(K), "and", n + 1) = GoOn(Judge(K), "ands", Res(a, k))
  BY <1>2, <1>4 DEF AndReads
<1>6. ~IsA(K, m, "OPERATOR") BY <1>3
<1> HIDE DEF w, c, k
<1>7. From(Judge(K), "not", k + 1) = Res(b, m) BY <1>2, <1>3, <1>6 DEF NotReads
<1> HIDE DEF m
<1>8. From(Judge(K), RightSide["ands"], k + 1) = Res(b, m) BY <1>7 DEF RightSide
<1>9. GoOn(Judge(K), "ands", Res(a, k)) = GoOn(Judge(K), "ands", Res(c, m))
  BY <1>1, <1>3, <1>4, <1>8, ConnectingStep DEF c
<1> QED BY <1>3, <1>5, <1>9

LEMMA OrJoins ==
  ASSUME NEW s \in Seq(Tokens), NEW u \in Seq(Tokens),
         NEW a \in TruthValues, NEW b \in TruthValues,
         NEW o \in {"or", "||"}, OrReads(s, a), AndReads(u, b)
  PROVE  OrReads(s \o <<<<"OR">>>> \o u, Both(o, a, b))
<1> DEFINE w == s \o <<<<"OR">>>> \o u
           c == Both(o, a, b)
<1>1. o \in Connectives["ors"] /\ "ors" \in ConditionLoops
  BY DEF Connectives, ConditionLoops
<1> SUFFICES ASSUME NEW K \in Seq(Tokens), NEW n \in Nat, Sits(w, K, n),
                    \A type \in {"OPERATOR", "AND"} : ~IsA(K, n + Len(w) + 1, type)
             PROVE  From(Judge(K), "or", n + 1) =
                      GoOn(Judge(K), "ors", Res(c, n + Len(w) + 1))
  BY DEF OrReads
<1> DEFINE k == n + Len(s) + 1
           m == k + Len(u) + 1
<1>2. /\ Len(w) = Len(s) + 1 + Len(u) /\ Sits(s, K, n) /\ Sits(u, K, k)
      /\ K[k] = <<"OR">> /\ k <= Len(K)
  BY TokensHave, Joined
<1>3. k \in Nat \ {0} /\ m \in Nat \ {0} /\ m = n + Len(w) + 1 /\ k \in Nat
  BY <1>2, LenProperties
<1>4. IsA(K, k, Connective["ors"]) /\ \A type \in {"OPERATOR", "AND"} : ~IsA(K, k, type)
  BY <1>2 DEF IsA, Connective
<1>5. From(Judge(K), "or", n + 1) = GoOn(Judge(K), "ors", Res(a, k))
  BY <1>2, <1>4 DEF OrReads
<1>6. ~IsA(K, m, "OPERATOR") /\ ~IsA(K, m, "AND") BY <1>3
<1> HIDE DEF w, c, k
<1>7. From(Judge(K), "and", k + 1) = GoOn(Judge(K), "ands", Res(b, m))
  BY <1>2, <1>3, <1>6 DEF AndReads
<1> HIDE DEF m
<1>8. ~IsA(K, m, Connective["ands"]) BY <1>6 DEF Connective
<1>9. GoOn(Judge(K), "ands", Res(b, m)) = Res(b, m)
  BY <1>3, <1>8, ConnectingEnds DEF ConditionLoops
<1>10. From(Judge(K), RightSide["ors"], k + 1) = Res(b, m) BY <1>7, <1>9 DEF RightSide
<1>11. GoOn(Judge(K), "ors", Res(a, k)) = GoOn(Judge(K), "ors", Res(c, m))
  BY <1>1, <1>3, <1>4, <1>10, ConnectingStep DEF c
<1> QED BY <1>3, <1>5, <1>11

-----------------------------------------------------------------------------
(* Names, numbers and the right sides of comparisons.                      *)

LEMMA NameToken ==
  ASSUME NEW s \in Names
  PROVE  /\ s \in Symbols /\ s = Word(s[2]) /\ s[1] = "name"
         /\ WordToken(s[2]) = <<"IDENTIFIER", s[2]>> /\ <<"IDENTIFIER", s[2]>> \in Tokens
         /\ Operand(<<"IDENTIFIER", s[2]>>, Env) = Lookup(s[2])
<1>1. s \in Symbols /\ s = Word(s[2]) /\ s \notin Keywords BY DEF Names
<1>2. Word(s[2]) \notin Keywords BY <1>1
<1>3. /\ s[2] \notin {"and", "AND"} /\ s[2] \notin {"or", "OR"} /\ s[2] \notin {"not", "NOT"}
      /\ Word(s[2]) \notin TrueWords /\ Word(s[2]) \notin FalseWords
  BY <1>2 DEF Keywords
<1>4. WordToken(s[2]) = <<"IDENTIFIER", s[2]>> BY <1>3 DEF WordToken
<1>5. <<"IDENTIFIER", s[2]>> \in Tokens BY <1>1 DEF Tokens
<1>6. Operand(<<"IDENTIFIER", s[2]>>, Env) = Lookup(s[2]) BY DEF Operand, Lookup
<1> QED BY <1>1, <1>4, <1>5, <1>6 DEF Word

\* Numbers and names by themselves.
LEMMA NumberAlone ==
  ASSUME NEW s \in Symbols, IsNumber(s)
  PROVE  TokensOf(<<s>>) = <<<<"NUMBER", Stored(s, 1)>>>>
         /\ <<"NUMBER", Stored(s, 1)>> \in Tokens
<1> DEFINE t == <<s>>
<1>1. t[1] = s /\ ~(1 > 1) OBVIOUS
<1> HIDE DEF t
<1>2. TokensAt(t, 1) = <<<<"NUMBER", Stored(s, 1)>>>> BY <1>1, TokensAtIs
<1>3. <<"NUMBER", Stored(s, 1)>> \in Tokens BY DEF Tokens
<1> QED BY <1>2, <1>3, TokensOfOne DEF t

LEMMA WordAlone ==
  ASSUME NEW s \in Symbols, s[1] = "name"
  PROVE  TokensOf(<<s>>) = <<WordToken(s[2])>>
<1> DEFINE t == <<s>>
<1>1. t[1] = s OBVIOUS
<1> HIDE DEF t
<1>2. TokensAt(t, 1) = <<WordToken(s[2])>> BY <1>1, TokensAtIs
<1> QED BY <1>2, TokensOfOne DEF t

LEMMA OperatorAlone ==
  ASSUME NEW o, Sym(o) \in Symbols
  PROVE  TokensOf(<<Sym(o)>>) = OpTokens(o)
<1> DEFINE t == <<Sym(o)>>
<1>1. t[1] = Sym(o) /\ Sym(o)[1] = "op" /\ Sym(o)[2] = o BY DEF Sym
<1> HIDE DEF t
<1>2. TokensAt(t, 1) = OpTokens(o) BY <1>1, TokensAtIs
<1> QED BY <1>2, TokensOfOne DEF t

\* What stands to the right of a comparison is one token with its value.
OneToken(r) ==
  /\ r.text \in Texts /\ r.text # <<>> /\ r.text[Len(r.text)] # Sym("-")
  /\ \E k \in Tokens : TokensOf(r.text) = <<k>> /\ Operand(k, Env) = r.val

LEMMA RightIs ==
  ASSUME NEW r \in RightOperands
  PROVE  OneToken(r)
<1>1. ASSUME NEW s \in Symbols, r.text = <<s>>, s # Sym("-")
      PROVE  r.text \in Texts /\ r.text # <<>> /\ r.text[Len(r.text)] # Sym("-")
  BY <1>1 DEF Texts
<1>2. \A v : Operand(<<"NUMBER", v>>, Env) = v BY DEF Operand
<1>3. ASSUME NEW s \in Numerals, r = [text |-> <<s>>, val |-> Stored(s, 1)]
      PROVE  OneToken(r)
  <2>1. s \in Symbols /\ IsNumber(s) /\ r.text = <<s>> /\ r.val = Stored(s, 1)
    BY <1>3 DEF Numerals
  <2>2. s # Sym("-") BY <2>1 DEF IsNumber, Sym
  <2> QED BY <1>1, <1>2, <2>1, <2>2, NumberAlone DEF OneToken
<1>4. ASSUME NEW s \in Numerals, r = [text |-> <<Sym("-"), s>>, val |-> Stored(s, -1)]
      PROVE  OneToken(r)
  <2>1. s \in Symbols /\ IsNumber(s) /\ r.text = <<Sym("-"), s>> /\ r.val = Stored(s, -1)
    BY <1>4 DEF Numerals
  <2>2. s # Sym("-") BY <2>1 DEF IsNumber, Sym
  <2>3. Len(r.text) = 2 /\ r.text[2] = s /\ r.text # <<>> BY <2>1
  <2>4. <<"NUMBER", Stored(s, -1)>> \in Tokens BY <2>1 DEF Tokens
  <2>5. r.text \in Texts /\ TokensOf(r.text) = <<<<"NUMBER", Stored(s, -1)>>>>
    BY <2>1, TokensOfSigned
  <2>6. Operand(<<"NUMBER", Stored(s, -1)>>, Env) = r.val BY <1>2, <2>1
  <2> QED BY <2>2, <2>3, <2>4, <2>5, <2>6 DEF OneToken
<1>5. ASSUME NEW s \in Symbols, s[1] = "quoted", r = [text |-> <<s>>, val |-> Text(s[2])]
      PROVE  OneToken(r)
  <2> DEFINE t == <<s>>
  <2>1. r.text = t /\ r.val = Text(s[2]) /\ t[1] = s BY <1>5
  <2>2. s # Sym("-") BY <1>5 DEF Sym
  <2> HIDE DEF t
  <2>3. TokensAt(t, 1) = <<<<"STRING", s[2]>>>> BY <1>5, <2>1, TokensAtIs
  <2>4. TokensOf(t) = <<<<"STRING", s[2]>>>> BY <2>3, TokensOfOne DEF t
  <2>5. <<"STRING", s[2]>> \in Tokens BY DEF Tokens
  <2>6. Operand(<<"STRING", s[2]>>, Env) = Text(s[2]) BY DEF Operand
  <2> QED BY <1>1, <2>1, <2>2, <2>4, <2>5, <2>6 DEF t, OneToken
<1>6. ASSUME NEW s \in Names, r = [text |-> <<s>>, val |-> Lookup(s[2])]
      PROVE  OneToken(r)
  <2>1. s \in Symbols /\ s[1] = "name" /\ r.text = <<s>> /\ r.val = Lookup(s[2])
    BY <1>6, NameToken
  <2>2. s # Sym("-") BY <2>1 DEF Sym
  <2>3. TokensOf(r.text) = <<<<"IDENTIFIER", s[2]>>>> BY <2>1, WordAlone, NameToken
  <2> QED BY <1>1, <2>1, <2>2, <2>3, NameToken DEF OneToken
<1>7. ASSUME NEW s, NEW n \in {0, 1},
             (n = 1 /\ s \in TrueWords) \/ (n = 0 /\ s \in FalseWords),
             r = [text |-> <<s>>, val |-> Whole(n)]
      PROVE  OneToken(r)
  <2>1. s \in TrueWords \union FalseWords /\ r.text = <<s>> /\ r.val = Whole(n) BY <1>7
  <2>2. s \in Symbols BY <2>1, SymbolsHave DEF Keywords
  <2>3. s[1] = "name" /\ s = Word(s[2]) /\ s # Sym("-")
    BY <2>1 DEF TrueWords, FalseWords, Word, Sym
  <2>4. s[2] \notin {"and", "AND", "or", "OR", "not", "NOT"}
    BY <2>1 DEF TrueWords, FalseWords, Word
  <2>5. n = 0 => Word(s[2]) \in FalseWords /\ Word(s[2]) \notin TrueWords
    BY <1>7, <2>3 DEF TrueWords, FalseWords, Word
  <2>6. n = 1 => Word(s[2]) \in TrueWords BY <1>7, <2>3
  <2>7. WordToken(s[2]) = <<"NUMBER", Whole(n)>>
    <3>1. s[2] \notin {"and", "AND"} /\ s[2] \notin {"or", "OR"} /\ s[2] \notin {"not", "NOT"}
      BY <2>4
    <3>2. n = 1 => WordToken(s[2]) = <<"NUMBER", Whole(1)>>
      BY <2>6, <3>1 DEF WordToken, TrueWords, FalseWords, Word
    <3>3. n = 0 => WordToken(s[2]) = <<"NUMBER", Whole(0)>> BY <2>5, <3>1 DEF WordToken
    <3> QED BY <3>2, <3>3
  <2>8. <<"NUMBER", Whole(n)>> \in Tokens BY DEF Tokens
  <2>9. TokensOf(r.text) = <<<<"NUMBER", Whole(n)>>>>
    BY <2>1, <2>2, <2>3, <2>7, WordAlone
  <2>10. Operand(<<"NUMBER", Whole(n)>>, Env) = r.val BY <1>2, <2>1
  <2> QED BY <1>1, <2>1, <2>2, <2>3, <2>8, <2>9, <2>10 DEF OneToken
<1>8. ASSUME NEW s \in TrueWords, r = [text |-> <<s>>, val |-> Whole(1)]
      PROVE  OneToken(r)
  <2>1. 1 \in {0, 1} OBVIOUS
  <2> QED BY <1>7, <1>8, <2>1
<1>9. ASSUME NEW s \in FalseWords, r = [text |-> <<s>>, val |-> Whole(0)]
      PROVE  OneToken(r)
  <2>1. 0 \in {0, 1} OBVIOUS
  <2> QED BY <1>7, <1>9, <2>1
<1>10. \/ \E s \in Numerals : r = [text |-> <<s>>, val |-> Stored(s, 1)]
       \/ \E s \in Numerals : r = [text |-> <<Sym("-"), s>>, val |-> Stored(s, -1)]
       \/ \E s \in Symbols : s[1] = "quoted" /\ r = [text |-> <<s>>, val |-> Text(s[2])]
       \/ \E s \in Names : r = [text |-> <<s>>, val |-> Lookup(s[2])]
       \/ \E s \in TrueWords : r = [text |-> <<s>>, val |-> Whole(1)]
       \/ \E s \in FalseWords : r = [text |-> <<s>>, val |-> Whole(0)]
  BY DEF RightOperands
<1> QED BY <1>3, <1>4, <1>5, <1>6, <1>8, <1>9, <1>10

-----------------------------------------------------------------------------
(* Texts of phrases.                                                       *)

LEMMA Glued ==
  ASSUME NEW S, NEW u \in Seq(S), NEW t \in Seq(S), u # <<>>, t # <<>>
  PROVE  /\ u \o t \in Seq(S) /\ u \o t # <<>> /\ Len(u \o t) = Len(u) + Len(t)
         /\ Len(u \o t) # 1 /\ (u \o t)[1] = u[1] /\ (u \o t)[Len(u \o t)] = t[Len(t)]
         /\ \A i \in 1..Len(u \o t) : \/ \E j \in 1..Len(u) : (u \o t)[i] = u[j]
                                      \/ \E j \in 1..Len(t) : (u \o t)[i] = t[j]
<1> DEFINE w == u \o t
           m == Len(u)
           n == Len(t)
<1>1. /\ w \in Seq(S) /\ Len(w) = m + n
      /\ \A i \in 1..(m + n) : w[i] = IF i <= m THEN u[i] ELSE t[i - m]
  BY ConcatProperties
<1>2. m \in Nat \ {0} /\ n \in Nat \ {0} BY NotEmpty
<1> HIDE DEF w, m, n
<1>3. w # <<>> /\ Len(w) # 1 BY <1>1, <1>2, EmptySeq
<1>4. w[1] = u[1]
  <2>1. 1 \in 1..(m + n) /\ 1 <= m BY <1>2
  <2> QED BY <1>1, <2>1
<1>5. w[m + n] = t[n]
  <2>1. m + n \in 1..(m + n) /\ ~(m + n <= m) /\ (m + n) - m = n BY <1>2
  <2> QED BY <1>1, <2>1
<1>6. ASSUME NEW i \in 1..(m + n)
      PROVE  (\E j \in 1..m : w[i] = u[j]) \/ (\E j \in 1..n : w[i] = t[j])
  <2>1. CASE i <= m
    <3>1. i \in 1..m /\ w[i] = u[i] BY <1>1, <1>2, <2>1
    <3> QED BY <3>1
  <2>2. CASE ~(i <= m)
    <3>1. i - m \in 1..n /\ w[i] = t[i - m] BY <1>1, <1>2, <2>2
    <3> QED BY <3>1
  <2> QED BY <2>1, <2>2
<1> QED BY <1>1, <1>3, <1>4, <1>5, <1>6 DEF w, m, n

\* Parts of numeric texts and of conditions.
NumericPart(t) ==
  t \in Texts /\ t # <<>> /\ \A i \in 1..Len(t) : t[i][1] # "quoted" /\ t[i] \notin Comparisons

ConditionPart(t) ==
  t \in Texts /\ t # <<>> /\ t[Len(t)] # Sym("-") /\ TokensOf(t) # <<>>

LEMMA NumericGlued ==
  ASSUME NEW u, NEW t, NumericPart(u), NumericPart(t)
  PROVE  /\ NumericPart(u \o t) /\ (u \o t)[1] = u[1]
         /\ u[1] # Sym("+") => NumericText(u \o t)
<1> DEFINE w == u \o t
<1>1. u \in Seq(Symbols) /\ t \in Seq(Symbols) /\ u # <<>> /\ t # <<>>
  BY DEF NumericPart, Texts
<1>2. /\ w \in Seq(Symbols) /\ w # <<>> /\ Len(w) # 1 /\ w[1] = u[1]
      /\ \A i \in 1..Len(w) : \/ \E j \in 1..Len(u) : w[i] = u[j]
                              \/ \E j \in 1..Len(t) : w[i] = t[j]
  BY <1>1, Glued
<1> HIDE DEF w
<1>3. \A i \in 1..Len(w) : w[i][1] # "quoted" /\ w[i] \notin Comparisons
  BY <1>2 DEF NumericPart
<1>4. Single(w) BY <1>2 DEF Single
<1> QED BY <1>2, <1>3, <1>4 DEF NumericPart, NumericText, Texts, w

LEMMA ConditionGlued ==
  ASSUME NEW u, NEW t, ConditionPart(u), ConditionPart(t)
  PROVE  /\ ConditionPart(u \o t) /\ Single(u \o t)
         /\ TokensOf(u \o t) = TokensOf(u) \o TokensOf(t)
<1> DEFINE w == u \o t
<1>1. u \in Seq(Symbols) /\ t \in Seq(Symbols) /\ u # <<>> /\ t # <<>>
  BY DEF ConditionPart, Texts
<1>2. w \in Seq(Symbols) /\ w # <<>> /\ Len(w) # 1 /\ w[Len(w)] = t[Len(t)]
  BY <1>1, Glued
<1>3. Parted(u, t) BY DEF Parted, ConditionPart
<1>4. TokensOf(w) = TokensOf(u) \o TokensOf(t) BY <1>1, <1>3, TokensOfBoth DEF Texts
<1> HIDE DEF w
<1>5. /\ TokensOf(u) \in Seq(Tokens) /\ TokensOf(t) \in Seq(Tokens)
      /\ TokensOf(u) # <<>> /\ TokensOf(t) # <<>>
  BY TokensOfType DEF ConditionPart
<1>6. TokensOf(u) \o TokensOf(t) # <<>> BY <1>5, Glued
<1>7. Single(w) BY <1>2 DEF Single
<1> QED BY <1>2, <1>4, <1>6, <1>7 DEF ConditionPart, Texts, w

\* The texts of operators and parentheses.
LEMMA OperatorParts ==
  /\ \A o \in {"(", ")", "+", "-", "*", "/"} :
       NumericPart(<<Sym(o)>>) /\ <<Sym(o)>>[1] = Sym(o)
  /\ NumericPart(<<Word("sqrt"), Sym("(")>>)
  /\ <<Word("sqrt"), Sym("(")>>[1] # Sym("+")
<1>1. ASSUME NEW o \in {"(", ")", "+", "-", "*", "/"} PROVE NumericPart(<<Sym(o)>>)
  <2>1. Sym(o) \in Symbols /\ Sym(o)[1] # "quoted" /\ Sym(o) \notin Comparisons
    BY SymbolsHave DEF Sym, Comparisons
  <2> QED BY <2>1 DEF NumericPart, Texts
<1>2. NumericPart(<<Word("sqrt"), Sym("(")>>)
  <2>1. /\ Word("sqrt") \in Symbols /\ Word("sqrt")[1] # "quoted"
        /\ Word("sqrt") \notin Comparisons
    BY SymbolsHave DEF Keywords, Word, Sym, Comparisons
  <2>2. Sym("(") \in Symbols /\ Sym("(")[1] # "quoted" /\ Sym("(") \notin Comparisons
    BY SymbolsHave DEF Sym, Comparisons
  <2> DEFINE t == <<Word("sqrt"), Sym("(")>>
  <2>3. t \in Texts /\ t # <<>> /\ Len(t) = 2 /\ t[1] = Word("sqrt") /\ t[2] = Sym("(")
    BY <2>1, <2>2 DEF Texts
  <2> HIDE DEF t
  <2>4. NumericPart(t) BY <2>1, <2>2, <2>3 DEF NumericPart
  <2> QED BY <2>4 DEF t
<1>3. <<Word("sqrt"), Sym("(")>>[1] # Sym("+") BY DEF Word, Sym
<1> QED BY <1>1, <1>2, <1>3

LEMMA ConditionParts ==
  /\ ConditionPart(<<Sym("(")>>) /\ TokensOf(<<Sym("(")>>) = <<<<"LPAREN">>>>
  /\ ConditionPart(<<Sym(")")>>) /\ TokensOf(<<Sym(")")>>) = <<<<"RPAREN">>>>
  /\ ConditionPart(<<Sym("!")>>) /\ TokensOf(<<Sym("!")>>) = <<<<"OPERATOR", "!">>>>
  /\ ConditionPart(<<Word("not")>>) /\ TokensOf(<<Word("not")>>) = <<<<"NOT">>>>
  /\ \A o \in {"and", "&&"} : /\ ConditionPart(<<OpSymbol(o)>>)
                              /\ TokensOf(<<OpSymbol(o)>>) = <<<<"AND">>>>
  /\ \A o \in {"or", "||"} : /\ ConditionPart(<<OpSymbol(o)>>)
                             /\ TokensOf(<<OpSymbol(o)>>) = <<<<"OR">>>>
<1>1. ASSUME NEW s \in Symbols, NEW k, s # Sym("-"), TokensOf(<<s>>) = <<k>>
      PROVE  ConditionPart(<<s>>)
  BY <1>1 DEF ConditionPart, Texts
<1>2. ASSUME NEW o, NEW k, Sym(o) \in Symbols, o # "-", OpTokens(o) = <<k>>
      PROVE  ConditionPart(<<Sym(o)>>) /\ TokensOf(<<Sym(o)>>) = <<k>>
  <2>1. Sym(o) # Sym("-") BY <1>2 DEF Sym
  <2> QED BY <1>1, <1>2, <2>1, OperatorAlone
<1>3. ASSUME NEW n, NEW k, Word(n) \in Symbols, WordToken(n) = k
      PROVE  ConditionPart(<<Word(n)>>) /\ TokensOf(<<Word(n)>>) = <<k>>
  <2>1. Word(n) # Sym("-") /\ Word(n)[1] = "name" /\ Word(n)[2] = n BY DEF Sym, Word
  <2> QED BY <1>1, <1>3, <2>1, WordAlone
<1>4. /\ OpTokens("(") = <<<<"LPAREN">>>> /\ OpTokens(")") = <<<<"RPAREN">>>>
      /\ OpTokens("!") = <<<<"OPERATOR", "!">>>>
      /\ OpTokens("&&") = <<<<"AND">>>> /\ OpTokens("||") = <<<<"OR">>>>
      /\ WordToken("not") = <<"NOT">> /\ WordToken("and") = <<"AND">>
      /\ WordToken("or") = <<"OR">>
  BY DEF OpTokens, WordToken, TrueWords, FalseWords, Word
<1>5. Word("not") \in Symbols /\ Word("and") \in Symbols /\ Word("or") \in Symbols
  BY SymbolsHave DEF Keywords
<1>6. ConditionPart(<<Sym("(")>>) /\ TokensOf(<<Sym("(")>>) = <<<<"LPAREN">>>>
  BY <1>2, <1>4, SymbolsHave
<1>7. ConditionPart(<<Sym(")")>>) /\ TokensOf(<<Sym(")")>>) = <<<<"RPAREN">>>>
  BY <1>2, <1>4, SymbolsHave
<1>8. ConditionPart(<<Sym("!")>>) /\ TokensOf(<<Sym("!")>>) = <<<<"OPERATOR", "!">>>>
  BY <1>2, <1>4, SymbolsHave
<1>9. ConditionPart(<<Sym("&&")>>) /\ TokensOf(<<Sym("&&")>>) = <<<<"AND">>>>
  BY <1>2, <1>4, SymbolsHave
<1>10. ConditionPart(<<Sym("||")>>) /\ TokensOf(<<Sym("||")>>) = <<<<"OR">>>>
  BY <1>2, <1>4, SymbolsHave
<1>11. ConditionPart(<<Word("not")>>) /\ TokensOf(<<Word("not")>>) = <<<<"NOT">>>>
  BY <1>3, <1>4, <1>5
<1>12. ConditionPart(<<Word("and")>>) /\ TokensOf(<<Word("and")>>) = <<<<"AND">>>>
  BY <1>3, <1>4, <1>5
<1>13. ConditionPart(<<Word("or")>>) /\ TokensOf(<<Word("or")>>) = <<<<"OR">>>>
  BY <1>3, <1>4, <1>5
<1>14. /\ OpSymbol("and") = Word("and") /\ OpSymbol("&&") = Sym("&&")
       /\ OpSymbol("or") = Word("or") /\ OpSymbol("||") = Sym("||")
  BY DEF OpSymbol
<1> QED BY <1>6, <1>7, <1>8, <1>9, <1>10, <1>11, <1>12, <1>13, <1>14

-----------------------------------------------------------------------------
(* Numbers, names and comparisons are conditions.                          *)

LEMMA FirstToken ==
  ASSUME NEW K \in Seq(Tokens), NEW p \in Nat \ {0}, p <= Len(K)
  PROVE  /\ K[p][1] = "NUMBER" =>
              From(Judge(K), "not", p) = <<K[p][2] \notin {Whole(0), Double(<<0, 1>>)}, p + 1>>
         /\ K[p][1] = "IDENTIFIER" => From(Judge(K), "not", p) = Comparison(K, p, Env)
<1>1. ~(p > Len(K)) BY LenProperties
<1>2. From(Judge(K), "not", p) = Not(Judge(K), K, Env, p) BY JudgeIs
<1>3. K[p][1] # "NOT" => Not(Judge(K), K, Env, p) = Primary(Judge(K), K, Env, p)
  BY DEF Not, IsA
<1>4. K[p][1] = "NUMBER" =>
        Primary(Judge(K), K, Env, p) = <<K[p][2] \notin {Whole(0), Double(<<0, 1>>)}, p + 1>>
  BY <1>1 DEF Primary
<1>5. K[p][1] = "IDENTIFIER" => Primary(Judge(K), K, Env, p) = Comparison(K, p, Env)
  BY <1>1 DEF Primary
<1> QED BY <1>2, <1>3, <1>4, <1>5

\* A number alone is a condition.
LEMMA NumeralReads ==
  ASSUME NEW s \in Numerals, NEW val,
         val = Flag(Stored(s, 1) \notin {Whole(0), Double(<<0, 1>>)})
  PROVE  val \in TruthValues /\ NotReads(TokensOf(<<s>>), val)
<1> DEFINE v == Stored(s, 1)
           b == v \notin {Whole(0), Double(<<0, 1>>)}
           k == <<"NUMBER", v>>
           w == <<k>>
<1>1. s \in Symbols /\ IsNumber(s) BY DEF Numerals
<1>2. TokensOf(<<s>>) = w BY <1>1, NumberAlone
<1>3. b \in BOOLEAN /\ val = Flag(b) /\ k[1] = "NUMBER" /\ k[2] = v /\ Len(w) = 1 OBVIOUS
<1>4. ASSUME NEW K \in Seq(Tokens), NEW a \in Nat, Sits(w, K, a)
      PROVE  From(Judge(K), "not", a + 1) = Res(val, a + 1 + 1)
  <2> DEFINE p == a + 1
  <2>1. p <= Len(K) /\ K[p] = k BY <1>4, SitsOne
  <2>2. p \in Nat \ {0} OBVIOUS
  <2> HIDE DEF p, k, w
  <2>3. From(Judge(K), "not", p) = <<b, p + 1>> BY <1>3, <2>1, <2>2, FirstToken
  <2> HIDE DEF b
  <2>4. Res(val, p + 1) = <<b, p + 1>> BY <1>3, FlagIs
  <2> QED BY <2>3, <2>4 DEF p
<1> HIDE DEF w, b, k, v
<1>5. NotReads(w, val) BY <1>3, <1>4 DEF NotReads
<1>6. val \in TruthValues BY <1>3, FlagIs
<1> QED BY <1>2, <1>5, <1>6

\* What a name may be worth.
LEMMA LookupIs ==
  ASSUME NEW name
  PROVE  Lookup(name) # Throws =>
           \/ AsBool(Lookup(name)) = Throws
           \/ \E b \in BOOLEAN : AsBool(Lookup(name)) = Flag(b)
BY AsBoolType DEF Lookup

\* A name alone is a condition.
LEMMA NameReads ==
  ASSUME NEW s \in Names, NEW val,
         val = IF Lookup(s[2]) = Throws THEN Throws ELSE AsBool(Lookup(s[2]))
  PROVE  val \in TruthValues /\ NotReads(TokensOf(<<s>>), val)
<1> DEFINE v == Lookup(s[2])
           k == <<"IDENTIFIER", s[2]>>
           w == <<k>>
<1>1. s \in Symbols /\ s[1] = "name" /\ WordToken(s[2]) = k /\ Operand(k, Env) = v
  BY NameToken
<1>2. TokensOf(<<s>>) = w BY <1>1, WordAlone
<1>3. v # Throws => AsBool(v) = Throws \/ \E b \in BOOLEAN : AsBool(v) = Flag(b)
  BY LookupIs
<1>4. k[1] = "IDENTIFIER" /\ Len(w) = 1 OBVIOUS
<1>5. val \in TruthValues
  <2>1. Throws \in TruthValues BY DEF TruthValues
  <2>2. \A b \in BOOLEAN : Flag(b) \in TruthValues BY FlagIs
  <2> QED BY <1>3, <2>1, <2>2
<1> HIDE DEF v
<1>6. ASSUME NEW K \in Seq(Tokens), NEW a \in Nat, Sits(w, K, a),
             ~IsA(K, a + 1 + 1, "OPERATOR")
      PROVE  From(Judge(K), "not", a + 1) = Res(val, a + 1 + 1)
  <2> DEFINE p == a + 1
  <2>1. p <= Len(K) /\ K[p] = k BY <1>6, SitsOne
  <2>2. p \in Nat \ {0} /\ ~IsA(K, p + 1, "OPERATOR") BY <1>6
  <2> HIDE DEF p, w
  <2>3. From(Judge(K), "not", p) = Comparison(K, p, Env) BY <1>4, <2>1, <2>2, FirstToken
  <2> HIDE DEF k
  <2>4. Comparison(K, p, Env) =
          IF v = Throws THEN Throws
          ELSE IF AsBool(v) = Throws THEN Throws ELSE <<AsBool(v)[2], p + 1>>
    BY <1>1, <2>1, <2>2 DEF Comparison
  <2>5. val = (IF v = Throws THEN Throws ELSE AsBool(v)) BY DEF v
  <2>6. Comparison(K, p, Env) = Res(val, p + 1) BY <2>4, <2>5 DEF Res
  <2> QED BY <2>3, <2>6 DEF p
<1> HIDE DEF w, k
<1>7. NotReads(w, val) BY <1>4, <1>6 DEF NotReads
<1> QED BY <1>2, <1>5, <1>7

\* A name, an operator and a token k of value v: a comparison.
LEMMA ComparedReads ==
  ASSUME NEW name, <<"IDENTIFIER", name>> \in Tokens, NEW o, <<"OPERATOR", o>> \in Tokens,
         NEW k \in Tokens, NEW left, NEW right, NEW val,
         Operand(<<"IDENTIFIER", name>>, Env) = left, Operand(k, Env) = right,
         val = IF Throws \in {left, right} THEN Throws ELSE Flag(Compare(left, o, right))
  PROVE  /\ val \in TruthValues
         /\ NotReads(<<<<"IDENTIFIER", name>>, <<"OPERATOR", o>>, k>>, val)
<1> DEFINE i == <<"IDENTIFIER", name>>
           q == <<"OPERATOR", o>>
           w == <<i, q, k>>
           c == Compare(left, o, right)
<1>1. /\ i[1] = "IDENTIFIER" /\ q[1] = "OPERATOR" /\ q[2] = o
      /\ Len(w) = 3 /\ w[1] = i /\ w[2] = q /\ w[3] = k
  OBVIOUS
<1>2. c \in BOOLEAN BY CompareType
<1>3. val = IF Throws \in {left, right} THEN Throws ELSE Flag(c) OBVIOUS
<1> HIDE DEF c, i, q, w
<1>4. val \in TruthValues
  <2>1. Throws \in TruthValues BY DEF TruthValues
  <2> QED BY <1>2, <1>3, <2>1, FlagIs
<1>5. ASSUME NEW K \in Seq(Tokens), NEW a \in Nat, Sits(w, K, a)
      PROVE  From(Judge(K), "not", a + 1) = Res(val, a + Len(w) + 1)
  <2> DEFINE p == a + 1
  <2>1. a + 3 <= Len(K) /\ K[a + 1] = i /\ K[a + 2] = q /\ K[a + 3] = k
    <3>1. 1 \in 1..3 /\ 2 \in 1..3 /\ 3 \in 1..3 OBVIOUS
    <3> QED BY <1>1, <1>5, <3>1 DEF Sits
  <2>2. /\ p \in Nat \ {0} /\ p <= Len(K) /\ p + 1 <= Len(K) /\ ~(p + 2 > Len(K))
        /\ p + 1 = a + 2 /\ p + 2 = a + 3 /\ p + 3 = a + Len(w) + 1
    BY <1>1, <2>1, LenProperties
  <2>3. K[p] = i /\ K[p + 1] = q /\ K[p + 2] = k BY <2>1, <2>2
  <2> HIDE DEF p
  <2>4. From(Judge(K), "not", p) = Comparison(K, p, Env)
    BY <1>1, <2>2, <2>3, FirstToken
  <2>5. IsA(K, p + 1, "OPERATOR") BY <1>1, <2>2, <2>3 DEF IsA
  <2>6. Operand(K[p], Env) = left /\ Operand(K[p + 2], Env) = right /\ K[p + 1][2] = o
    BY <1>1, <2>3 DEF i
  <2>7. Comparison(K, p, Env) =
          IF Throws \in {left, right} THEN Throws ELSE <<c, p + 3>>
    BY <2>2, <2>5, <2>6 DEF Comparison, c
  <2>8. Res(Flag(c), p + 3) = <<c, p + 3>> BY <1>2, FlagIs
  <2>9. Comparison(K, p, Env) = Res(val, p + 3) BY <1>3, <2>7, <2>8 DEF Res
  <2> QED BY <2>2, <2>4, <2>9 DEF p
<1> QED BY <1>4, <1>5 DEF NotReads, i, q, w

-----------------------------------------------------------------------------
(* The conditions of one operand or one comparison.                        *)

\* What a condition is: its text is tokenized whatever follows, and its tokens
\* read as its value.
ConditionMeans(t, val) ==
  ConditionPart(t) /\ Single(t) /\ val \in TruthValues /\ NotReads(TokensOf(t), val)

LEMMA Pairs ==
  ASSUME NEW x, NEW y, NEW z
  PROVE  <<x>> # <<>> /\ <<x>> \o <<y>> = <<x, y>> /\ <<x, y>> \o <<z>> = <<x, y, z>>
<1> DEFINE S == {x, y, z}
           u == <<x>>
           v == <<y>>
           p == <<x, y>>
           e == <<z>>
           t == <<x, y, z>>
<1>1. /\ u \in Seq(S) /\ v \in Seq(S) /\ e \in Seq(S) /\ p \in Seq(S) /\ t \in Seq(S)
      /\ Len(u) = 1 /\ Len(v) = 1 /\ Len(e) = 1 /\ Len(p) = 2 /\ Len(t) = 3
      /\ u[1] = x /\ v[1] = y /\ p[1] = x /\ p[2] = y /\ e[1] = z
      /\ t[1] = x /\ t[2] = y /\ t[3] = z
  OBVIOUS
<1>2. u # <<>> OBVIOUS
<1> HIDE DEF u, v, p, e, t, S
<1>3. u \o v = p
  <2> DEFINE w == u \o v
  <2>0. /\ w \in Seq(S) /\ Len(w) = Len(u) + Len(v)
        /\ \A i \in 1..(Len(u) + Len(v)) : w[i] = IF i <= Len(u) THEN u[i] ELSE v[i - Len(u)]
    BY <1>1, ConcatProperties
  <2> HIDE DEF w
  <2>1. /\ w \in Seq(S) /\ Len(w) = 2
        /\ \A i \in 1..2 : w[i] = IF i <= 1 THEN u[i] ELSE v[i - 1]
    BY <1>1, <2>0
  <2>2. \A i \in 1..2 : w[i] = p[i] BY <1>1, <2>1
  <2> QED BY <1>1, <2>1, <2>2, SeqEqual DEF w
<1>4. p \o e = t
  <2> DEFINE w == p \o e
  <2>0. /\ w \in Seq(S) /\ Len(w) = Len(p) + Len(e)
        /\ \A i \in 1..(Len(p) + Len(e)) : w[i] = IF i <= Len(p) THEN p[i] ELSE e[i - Len(p)]
    BY <1>1, ConcatProperties
  <2> HIDE DEF w
  <2>1. /\ w \in Seq(S) /\ Len(w) = 3
        /\ \A i \in 1..3 : w[i] = IF i <= 2 THEN p[i] ELSE e[i - 2]
    BY <1>1, <2>0
  <2>2. \A i \in 1..3 : w[i] = t[i] BY <1>1, <2>1
  <2> QED BY <1>1, <2>1, <2>2, SeqEqual DEF w
<1> QED BY <1>2, <1>3, <1>4 DEF u, v, p, e, t

LEMMA ComparedParts ==
  ASSUME NEW s \in Names, NEW o \in Compared
  PROVE  /\ ConditionPart(<<s, Sym(o)>>)
         /\ TokensOf(<<s, Sym(o)>>) = <<<<"IDENTIFIER", s[2]>>, <<"OPERATOR", o>>>>
         /\ <<"IDENTIFIER", s[2]>> \in Tokens /\ <<"OPERATOR", o>> \in Tokens
<1> DEFINE i == <<"IDENTIFIER", s[2]>>
           q == <<"OPERATOR", o>>
           u == <<s>>
           t == <<Sym(o)>>
<1>1. s \in Symbols /\ s[1] = "name" /\ WordToken(s[2]) = i /\ i \in Tokens BY NameToken
<1>2. Sym(o) \in Symbols BY SymbolsHave
<1>3. OpTokens(o) = <<q>> BY DEF OpTokens, Compared
<1>4. q \in Tokens BY DEF Tokens, Compared
<1>5. TokensOf(u) = <<i>> BY <1>1, WordAlone
<1>6. TokensOf(t) = <<q>> BY <1>2, <1>3, OperatorAlone
<1>7. Sym(o) # Sym("-") /\ s # Sym("-") BY <1>1 DEF Sym, Compared
<1>8. u \in Texts /\ t \in Texts /\ u # <<>> /\ t # <<>> /\ u[Len(u)] = s /\ t[Len(t)] = Sym(o)
  BY <1>1, <1>2 DEF Texts
<1>9. <<i>> # <<>> /\ <<q>> # <<>> /\ <<i>> \o <<q>> = <<i, q>> BY Pairs
<1>10. u \o t = <<s, Sym(o)>> BY Pairs
<1> HIDE DEF i, q, u, t
<1>11. ConditionPart(u) /\ ConditionPart(t)
  BY <1>5, <1>6, <1>7, <1>8, <1>9 DEF ConditionPart
<1>12. ConditionPart(u \o t) /\ TokensOf(u \o t) = <<i, q>>
  BY <1>5, <1>6, <1>9, <1>11, ConditionGlued
<1> QED BY <1>1, <1>4, <1>10, <1>12 DEF i, q

LEMMA ComparisonMeans ==
  ASSUME NEW s \in Names, NEW o \in Compared, NEW r \in RightOperands, NEW val,
         val = IF Throws \in {Lookup(s[2]), r.val} THEN Throws
               ELSE Flag(Compare(Lookup(s[2]), o, r.val))
  PROVE  ConditionMeans(<<s, Sym(o)>> \o r.text, val)
<1> DEFINE i == <<"IDENTIFIER", s[2]>>
           q == <<"OPERATOR", o>>
           u == <<s, Sym(o)>>
           t == r.text
           left == Lookup(s[2])
           right == r.val
<1>1. OneToken(r) BY RightIs
<1>2. PICK k \in Tokens : TokensOf(t) = <<k>> /\ Operand(k, Env) = right
  BY <1>1 DEF OneToken
<1>3. t \in Texts /\ t # <<>> /\ t[Len(t)] # Sym("-") BY <1>1 DEF OneToken
<1>4. <<k>> # <<>> /\ <<i, q>> \o <<k>> = <<i, q, k>> BY Pairs
<1>5. ConditionPart(t) BY <1>2, <1>3, <1>4 DEF ConditionPart
<1>6. /\ ConditionPart(u) /\ TokensOf(u) = <<i, q>> /\ i \in Tokens /\ q \in Tokens
  BY ComparedParts
<1> HIDE DEF t, u
<1>7. ConditionPart(u \o t) /\ Single(u \o t) /\ TokensOf(u \o t) = <<i, q, k>>
  BY <1>2, <1>4, <1>5, <1>6, ConditionGlued
<1>8. Operand(i, Env) = left BY NameToken
<1>9. val = IF Throws \in {left, right} THEN Throws ELSE Flag(Compare(left, o, right))
  OBVIOUS
<1> HIDE DEF left, right
<1>10. val \in TruthValues /\ NotReads(<<i, q, k>>, val)
  BY <1>2, <1>6, <1>8, <1>9, ComparedReads
<1> QED BY <1>7, <1>10 DEF ConditionMeans, u, t

LEMMA ConditionLeafMeans ==
  ASSUME NEW l, IsConditionLeaf(l)
  PROVE  ConditionMeans(l.text, l.val)
<1>1. ASSUME NEW s \in Symbols, s # Sym("-"), TokensOf(<<s>>) # <<>>,
             IsNumber(s) \/ s \in Names
      PROVE  ConditionPart(<<s>>) /\ Single(<<s>>)
  BY <1>1 DEF ConditionPart, Texts, Single
<1>2. ASSUME NEW s \in Numerals, l.text = <<s>>,
             l.val = Flag(Stored(s, 1) \notin {Whole(0), Double(<<0, 1>>)})
      PROVE  ConditionMeans(l.text, l.val)
  <2>1. s \in Symbols /\ IsNumber(s) BY DEF Numerals
  <2>2. s # Sym("-") BY <2>1 DEF IsNumber, Sym
  <2>3. TokensOf(<<s>>) # <<>> BY <2>1, NumberAlone, Pairs
  <2>4. ConditionPart(<<s>>) /\ Single(<<s>>) BY <1>1, <2>1, <2>2, <2>3
  <2>5. l.val \in TruthValues /\ NotReads(TokensOf(<<s>>), l.val) BY <1>2, NumeralReads
  <2> QED BY <1>2, <2>4, <2>5 DEF ConditionMeans
<1>3. ASSUME NEW s \in Names, l.text = <<s>>,
             l.val = IF Lookup(s[2]) = Throws THEN Throws ELSE AsBool(Lookup(s[2]))
      PROVE  ConditionMeans(l.text, l.val)
  <2>1. s \in Symbols /\ s[1] = "name" BY NameToken
  <2>2. s # Sym("-") BY <2>1 DEF Sym
  <2>3. TokensOf(<<s>>) # <<>> BY <2>1, WordAlone
  <2>4. ConditionPart(<<s>>) /\ Single(<<s>>) BY <1>1, <2>1, <2>2, <2>3
  <2>5. l.val \in TruthValues /\ NotReads(TokensOf(<<s>>), l.val) BY <1>3, NameReads
  <2> QED BY <1>3, <2>4, <2>5 DEF ConditionMeans
<1>4. ASSUME NEW s \in Names, NEW o \in Compared, NEW r \in RightOperands,
             l.text = <<s, Sym(o)>> \o r.text,
             l.val = IF Throws \in {Lookup(s[2]), r.val} THEN Throws
                     ELSE Flag(Compare(Lookup(s[2]), o, r.val))
      PROVE  ConditionMeans(l.text, l.val)
  BY <1>4, ComparisonMeans
<1> QED BY <1>2, <1>3, <1>4 DEF IsConditionLeaf

\* A condition's text is satisfied if it means TRUE.
LEMMA HoldsIs ==
  ASSUME NEW t \in Texts, NEW val \in TruthValues, TokensOf(t) # <<>>, OrReads(TokensOf(t), val)
  PROVE  Holds(t, Env) <=> val = Flag(TRUE)
<1> DEFINE s == TokensOf(t)
           K == Append(s, <<"END">>)
           n == Len(s)
           e == From(Judge(K), "or", 1)
<1>1. Tokenize(t) = K BY TokenizeIs
<1>2. s \in Seq(Tokens) /\ s # <<>> BY TokensOfType
<1> HIDE DEF s
<1>3. n \in Nat \ {0} BY <1>2, NotEmpty
<1>4. /\ K \in Seq(Tokens) /\ Len(K) = n + 1 /\ K[n + 1] = <<"END">>
      /\ \A j \in 1..n : K[j] = s[j]
  BY <1>2, TokensHave, AppendProperties
<1> HIDE DEF K, n
<1>5. Sits(s, K, 0)
  <2>1. 0 + n <= Len(K) /\ \A j \in 1..n : K[0 + j] = s[j] BY <1>3, <1>4
  <2> QED BY <2>1 DEF Sits, n
<1>6. \A type \in {"OPERATOR", "AND", "OR"} : ~IsA(K, n + 1, type) BY <1>4 DEF IsA
<1>7. 0 + n + 1 = n + 1 /\ 0 + 1 = 1 BY <1>3
<1>8. OrReads(s, val) BY DEF s
<1>9. From(Judge(K), "or", 0 + 1) = Res(val, 0 + n + 1)
  <2>1. \A type \in {"OPERATOR", "AND", "OR"} : ~IsA(K, 0 + n + 1, type) BY <1>6, <1>7
  <2> QED BY <1>2, <1>4, <1>5, <1>8, <2>1, OrEnds DEF n
<1>10. e = Res(val, n + 1) BY <1>7, <1>9
<1>11. Len(K) > 1 BY <1>3, <1>4
<1>12. Holds(t, Env) <=> (Res(val, n + 1) # Throws /\ Res(val, n + 1)[1])
  BY <1>1, <1>10, <1>11 DEF Holds, Judge
<1>13. CASE val = Throws
  <2>1. Throws # Flag(TRUE) BY NotThrows
  <2> QED BY <1>12, <1>13, <2>1 DEF Res
<1>14. CASE val # Throws
  <2>1. val[2] \in BOOLEAN /\ val = Flag(val[2]) BY <1>14, TruthValuesAre
  <2>2. Res(val, n + 1) = <<val[2], n + 1>> /\ <<val[2], n + 1>> # Throws
    BY <1>14, NotThrows DEF Res
  <2>3. Flag(TRUE)[2] = TRUE BY FlagIs
  <2>4. Holds(t, Env) <=> val[2] = TRUE
    <3>1. Res(val, n + 1)[1] = val[2] BY <2>2
    <3> QED BY <1>12, <2>1, <2>2, <3>1
  <2>5. val[2] = TRUE <=> val = Flag(TRUE) BY <2>1, <2>3
  <2> QED BY <2>4, <2>5
<1> QED BY <1>13, <1>14

-----------------------------------------------------------------------------
(* Phrases that mean what they are read as: the inductive invariant.       *)

\* A numeric phrase and a condition whose text, wherever it stands, is read as
\* the phrase's meaning by the levels of the parser that may read it.
NumericPhrase(p) ==
  /\ NumericText(p.text) /\ p.val \in NumberValues
  /\ p.level <= 1 => FactorReads(p.text, p.val)
  /\ p.level <= 2 => TermReads(p.text, p.val)
  /\ SumReads(p.text, p.val)

ConditionPhrase(p) ==
  /\ ConditionPart(p.text) /\ Single(p.text) /\ p.val \in TruthValues
  /\ p.level <= 2 => NotReads(TokensOf(p.text), p.val)
  /\ p.level <= 3 => AndReads(TokensOf(p.text), p.val)
  /\ OrReads(TokensOf(p.text), p.val)

Phrases ==
  [kind : {"num", "cond"}, level : Nat \ {0}, text : Texts,
   val : NumberValues \union TruthValues, leaves : Nat, ops : Nat]

Meant ==
  {p \in Phrases : /\ p.kind = "num" => NumericPhrase(p)
                   /\ p.kind = "cond" => ConditionPhrase(p)}

\* The strengthening that is inductive.
PhrasesMean == stack \in Seq(Meant)

LEMMA NumericMeant ==
  ASSUME NEW level \in Nat \ {0}, NEW text, NEW val, NEW leaves \in Nat, NEW ops \in Nat,
         NumericText(text), val \in NumberValues,
         level <= 1 => FactorReads(text, val),
         level <= 2 => TermReads(text, val), SumReads(text, val)
  PROVE  Phrase("num", level, text, val, leaves, ops) \in Meant
<1> DEFINE p == Phrase("num", level, text, val, leaves, ops)
<1>1. /\ p.kind = "num" /\ p.level = level /\ p.text = text /\ p.val = val
      /\ p = [kind |-> p.kind, level |-> p.level, text |-> p.text, val |-> p.val,
              leaves |-> leaves, ops |-> ops]
  BY DEF Phrase
<1>2. text \in Texts BY DEF NumericText
<1> HIDE DEF p
<1>3. p \in Phrases BY <1>1, <1>2 DEF Phrases
<1>4. NumericPhrase(p) BY <1>1 DEF NumericPhrase
<1> QED BY <1>1, <1>3, <1>4 DEF Meant, p

LEMMA ConditionMeant ==
  ASSUME NEW level \in Nat \ {0}, NEW text, NEW val, NEW leaves \in Nat, NEW ops \in Nat,
         ConditionPart(text), Single(text), val \in TruthValues,
         level <= 2 => NotReads(TokensOf(text), val),
         level <= 3 => AndReads(TokensOf(text), val), OrReads(TokensOf(text), val)
  PROVE  Phrase("cond", level, text, val, leaves, ops) \in Meant
<1> DEFINE p == Phrase("cond", level, text, val, leaves, ops)
<1>1. /\ p.kind = "cond" /\ p.level = level /\ p.text = text /\ p.val = val
      /\ p = [kind |-> p.kind, level |-> p.level, text |-> p.text, val |-> p.val,
              leaves |-> leaves, ops |-> ops]
  BY DEF Phrase
<1>2. text \in Texts BY DEF ConditionPart
<1> HIDE DEF p
<1>3. p \in Phrases BY <1>1, <1>2 DEF Phrases
<1>4. ConditionPhrase(p) BY <1>1 DEF ConditionPhrase
<1> QED BY <1>1, <1>3, <1>4 DEF Meant, p

LEMMA MeantAre ==
  ASSUME NEW p \in Meant
  PROVE  /\ p.kind \in {"num", "cond"} /\ p.level \in Nat \ {0} /\ p.text \in Texts
         /\ p.leaves \in Nat /\ p.ops \in Nat /\ p.ops + 1 \in Nat
         /\ p.kind = "num" => NumericPhrase(p)
         /\ p.kind = "cond" => ConditionPhrase(p)
BY DEF Meant, Phrases

\* What the first level of each parser reads, the others read.
LEMMA NumericFirst ==
  ASSUME NEW text, NEW val, NEW leaves \in Nat, NEW ops \in Nat,
         NumericText(text), val \in NumberValues, FactorReads(text, val)
  PROVE  Phrase("num", 1, text, val, leaves, ops) \in Meant
<1>1. text \in Texts BY DEF NumericText
<1>2. TermReads(text, val) /\ SumReads(text, val) BY <1>1, TermFromFactor, SumFromTerm
<1>3. 1 \in Nat \ {0} OBVIOUS
<1> QED BY <1>2, <1>3, NumericMeant

LEMMA ConditionFirst ==
  ASSUME NEW level \in Nat \ {0}, NEW text, NEW val, NEW leaves \in Nat, NEW ops \in Nat,
         ConditionMeans(text, val)
  PROVE  Phrase("cond", level, text, val, leaves, ops) \in Meant
<1> DEFINE s == TokensOf(text)
<1>1. /\ ConditionPart(text) /\ Single(text) /\ val \in TruthValues /\ NotReads(s, val)
  BY DEF ConditionMeans
<1>2. s \in Seq(Tokens) BY <1>1, TokensOfType DEF ConditionPart
<1> HIDE DEF s
<1>3. AndReads(s, val) BY <1>1, <1>2, AndFromNot
<1>4. OrReads(s, val) BY <1>1, <1>2, <1>3, OrFromAnd
<1> QED BY <1>1, <1>3, <1>4, ConditionMeant DEF s

LEMMA LeafMeant ==
  ASSUME NEW l \in Leaves
  PROVE  Phrase(l.kind, 1, l.text, l.val, 1, 0) \in Meant
<1>1. CASE IsNumericLeaf(l)
  <2>1. PICK s \in Numerals \union Names :
          /\ l.kind = "num" /\ l.text = <<s>>
          /\ l.val = IF s \in Numerals THEN Double(Magnitude(s))
                     ELSE IF VariableToDouble(s[2], Env) = Throws THEN Throws
                     ELSE Double(VariableToDouble(s[2], Env))
    BY <1>1 DEF IsNumericLeaf
  <2>2. s \in Symbols /\ (IsNumber(s) \/ s \in Names) /\ (IsNumber(s) <=> s \in Numerals)
    BY DEF Numerals, Names
  <2>3. s \in Names => s = Word(s[2]) BY DEF Names
  <2>4. l.val \in NumberValues /\ FactorReads(<<s>>, l.val)
    BY <2>1, <2>2, <2>3, OperandReads
  <2>5. s # Sym("+") /\ s[1] # "quoted" /\ s \notin Comparisons
    BY <2>2, <2>3 DEF IsNumber, Sym, Word, Comparisons
  <2>6. NumericText(<<s>>)
    <3> DEFINE t == <<s>>
    <3>1. t \in Seq(Symbols) /\ t # <<>> /\ Len(t) = 1 /\ t[1] = s BY <2>2
    <3> HIDE DEF t
    <3>2. NumericText(t) BY <2>2, <2>5, <3>1 DEF NumericText, Single, Texts
    <3> QED BY <3>2 DEF t
  <2>7. 1 \in Nat /\ 0 \in Nat OBVIOUS
  <2> QED BY <2>1, <2>4, <2>6, <2>7, NumericFirst
<1>2. CASE IsConditionLeaf(l)
  <2>1. l.kind = "cond" BY <1>2 DEF IsConditionLeaf
  <2>2. ConditionMeans(l.text, l.val) BY <1>2, ConditionLeafMeans
  <2>3. 1 \in Nat \ {0} /\ 1 \in Nat /\ 0 \in Nat OBVIOUS
  <2> QED BY <2>1, <2>2, <2>3, ConditionFirst
<1> QED BY <1>1, <1>2, GrammarAssumption

\* A phrase in parentheses.
LEMMA EnclosedMeant ==
  ASSUME NEW p \in Meant
  PROVE  Phrase(p.kind, 1, <<Sym("(")>> \o p.text \o <<Sym(")")>>, p.val,
                p.leaves, p.ops + 1) \in Meant
<1> DEFINE o == <<Sym("(")>>
           e == <<Sym(")")>>
           t == p.text
           w == o \o t \o e
<1>1. p.leaves \in Nat /\ p.ops + 1 \in Nat /\ t \in Texts BY MeantAre
<1>2. CASE p.kind = "num"
  <2>1. NumericPhrase(p) BY <1>2, MeantAre
  <2>2. NumericText(t) /\ p.val \in NumberValues /\ SumReads(t, p.val)
    BY <2>1 DEF NumericPhrase
  <2>3. NumericPart(t) BY <2>2 DEF NumericText, NumericPart
  <2>4. NumericPart(o) /\ NumericPart(e) /\ o[1] = Sym("(") BY OperatorParts
  <2>5. Sym("(") # Sym("+") BY DEF Sym
  <2>6. FactorReads(w, p.val) BY <1>1, <2>2, EncloseReads
  <2> HIDE DEF o, e, t
  <2>7. NumericPart(o \o t) /\ (o \o t)[1] = Sym("(") BY <2>3, <2>4, NumericGlued
  <2>8. NumericText(w) BY <2>4, <2>5, <2>7, NumericGlued
  <2> HIDE DEF w
  <2>9. Phrase("num", 1, w, p.val, p.leaves, p.ops + 1) \in Meant
    BY <1>1, <2>2, <2>6, <2>8, NumericFirst
  <2> QED BY <1>2, <2>9 DEF w, o, e, t
<1>3. CASE p.kind = "cond"
  <2> DEFINE s == TokensOf(t)
  <2>1. ConditionPhrase(p) BY <1>3, MeantAre
  <2>2. ConditionPart(t) /\ p.val \in TruthValues /\ OrReads(s, p.val)
    BY <2>1 DEF ConditionPhrase
  <2>3. /\ ConditionPart(o) /\ TokensOf(o) = <<<<"LPAREN">>>>
        /\ ConditionPart(e) /\ TokensOf(e) = <<<<"RPAREN">>>>
    BY ConditionParts
  <2>4. s \in Seq(Tokens) BY <1>1, TokensOfType
  <2>5. NotReads(<<<<"LPAREN">>>> \o s \o <<<<"RPAREN">>>>, p.val)
    BY <2>2, <2>4, ParenthesesRead
  <2> HIDE DEF o, e, t
  <2> DEFINE v == o \o t
  <2>6. ConditionPart(v) /\ TokensOf(v) = <<<<"LPAREN">>>> \o s
    BY <2>2, <2>3, ConditionGlued
  <2> HIDE DEF v, s
  <2>7. /\ ConditionPart(v \o e) /\ Single(v \o e)
        /\ TokensOf(v \o e) = <<<<"LPAREN">>>> \o s \o <<<<"RPAREN">>>>
    BY <2>3, <2>6, ConditionGlued
  <2>8. ConditionMeans(v \o e, p.val) BY <2>2, <2>5, <2>7 DEF ConditionMeans
  <2> USE DEF v
  <2> HIDE DEF w
  <2>9. 1 \in Nat \ {0} OBVIOUS
  <2>10. Phrase("cond", 1, w, p.val, p.leaves, p.ops + 1) \in Meant
    BY <1>1, <2>8, <2>9, ConditionFirst DEF w
  <2> QED BY <1>3, <2>10 DEF w, o, e, t
<1> QED BY <1>2, <1>3, MeantAre

-----------------------------------------------------------------------------
(* Every operation on phrases keeps this.                                  *)

\* A minus before a phrase of the first level.
LEMMA NegatedMeant ==
  ASSUME NEW p \in Meant, p.kind = "num", p.level = 1
  PROVE  Phrase(p.kind, 1, <<Sym("-")>> \o p.text,
                IF p.val = Throws THEN Throws ELSE Double(Minus(<<0, 1>>, p.val[2])),
                p.leaves, p.ops + 1) \in Meant
<1> DEFINE o == <<Sym("-")>>
           t == p.text
           new == IF p.val = Throws THEN Throws ELSE Double(Minus(<<0, 1>>, p.val[2]))
<1>1. p.leaves \in Nat /\ p.ops + 1 \in Nat /\ t \in Texts /\ NumericPhrase(p)
  BY MeantAre
<1>2. NumericText(t) /\ p.val \in NumberValues /\ FactorReads(t, p.val)
  BY <1>1 DEF NumericPhrase
<1>3. NumericPart(t) BY <1>2 DEF NumericText, NumericPart
<1>4. NumericPart(o) /\ o[1] = Sym("-") BY OperatorParts
<1>5. Sym("-") # Sym("+") BY DEF Sym
<1>6. new \in NumberValues /\ FactorReads(o \o t, new) BY <1>1, <1>2, NegateReads
<1> HIDE DEF o, t, new
<1>7. NumericText(o \o t) BY <1>3, <1>4, <1>5, NumericGlued
<1>8. Phrase("num", 1, o \o t, new, p.leaves, p.ops + 1) \in Meant
  BY <1>1, <1>6, <1>7, NumericFirst
<1> QED BY <1>8 DEF o, t, new

\* The root of a square.
LEMMA RootMeant ==
  ASSUME NEW p \in Meant, p.kind = "num",
         p.val = Throws \/ \E r \in Roots : p.val = Double(Times(r, r))
  PROVE  Phrase(p.kind, 1, <<Word("sqrt"), Sym("(")>> \o p.text \o <<Sym(")")>>,
                IF p.val = Throws THEN Throws
                ELSE Double(CHOOSE r \in Roots : p.val = Double(Times(r, r))),
                p.leaves, p.ops + 1) \in Meant
<1> DEFINE o == <<Word("sqrt"), Sym("(")>>
           e == <<Sym(")")>>
           t == p.text
           new == IF p.val = Throws THEN Throws
                  ELSE Double(CHOOSE r \in Roots : p.val = Double(Times(r, r)))
           w == o \o t \o e
<1>1. p.leaves \in Nat /\ p.ops + 1 \in Nat /\ t \in Texts /\ NumericPhrase(p)
  BY MeantAre
<1>2. NumericText(t) /\ p.val \in NumberValues /\ SumReads(t, p.val)
  BY <1>1 DEF NumericPhrase
<1>3. NumericPart(t) BY <1>2 DEF NumericText, NumericPart
<1>4. NumericPart(o) /\ NumericPart(e) /\ o[1] # Sym("+") BY OperatorParts
<1>5. new \in NumberValues /\ FactorReads(w, new) BY <1>1, <1>2, RootReads
<1> HIDE DEF o, t, e, new
<1>6. NumericPart(o \o t) /\ (o \o t)[1] # Sym("+") BY <1>3, <1>4, NumericGlued
<1>7. NumericText(w) BY <1>4, <1>6, NumericGlued
<1> HIDE DEF w
<1>8. Phrase("num", 1, w, new, p.leaves, p.ops + 1) \in Meant
  BY <1>1, <1>5, <1>7, NumericFirst
<1> QED BY <1>8 DEF w, o, e, t, new

\* not and ! before a condition.
LEMMA NegationMeant ==
  ASSUME NEW p \in Meant, p.kind = "cond", p.level <= 2
  PROVE  /\ Phrase(p.kind, 2, <<Word("not")>> \o p.text,
                   IF p.val = Throws THEN Throws ELSE Flag(~p.val[2]),
                   p.leaves, p.ops + 1) \in Meant
         /\ Phrase(p.kind, 2, <<Sym("!")>> \o p.text, Throws, p.leaves, p.ops + 1) \in Meant
<1> DEFINE n == <<Word("not")>>
           e == <<Sym("!")>>
           t == p.text
           s == TokensOf(t)
           new == IF p.val = Throws THEN Throws ELSE Flag(~p.val[2])
<1>1. p.leaves \in Nat /\ p.ops + 1 \in Nat /\ t \in Texts /\ ConditionPhrase(p)
  BY MeantAre
<1>2. ConditionPart(t) /\ p.val \in TruthValues /\ NotReads(s, p.val)
  BY <1>1 DEF ConditionPhrase
<1>3. s \in Seq(Tokens) BY <1>1, TokensOfType
<1>4. /\ ConditionPart(n) /\ TokensOf(n) = <<<<"NOT">>>>
      /\ ConditionPart(e) /\ TokensOf(e) = <<<<"OPERATOR", "!">>>>
  BY ConditionParts
<1>5. new \in TruthValues /\ NotReads(<<<<"NOT">>>> \o s, new)
  BY <1>2, <1>3, NegationReads
<1>6. Throws \in TruthValues /\ NotReads(<<<<"OPERATOR", "!">>>> \o s, Throws)
  BY <1>3, BangReads DEF TruthValues
<1> HIDE DEF n, e, t, new
<1>7. /\ ConditionPart(n \o t) /\ Single(n \o t) /\ TokensOf(n \o t) = <<<<"NOT">>>> \o s
      /\ ConditionPart(e \o t) /\ Single(e \o t)
      /\ TokensOf(e \o t) = <<<<"OPERATOR", "!">>>> \o s
  BY <1>2, <1>4, ConditionGlued
<1> HIDE DEF s
<1>8. ConditionMeans(n \o t, new) /\ ConditionMeans(e \o t, Throws)
  BY <1>5, <1>6, <1>7 DEF ConditionMeans
<1>9. 2 \in Nat \ {0} OBVIOUS
<1>10. /\ Phrase("cond", 2, n \o t, new, p.leaves, p.ops + 1) \in Meant
       /\ Phrase("cond", 2, e \o t, Throws, p.leaves, p.ops + 1) \in Meant
  BY <1>1, <1>8, <1>9, ConditionFirst
<1> QED BY <1>10 DEF n, e, t, new

\* Two phrases and an operator between them.
LEMMA CombinedMeant ==
  ASSUME NEW a \in Meant, NEW b \in Meant, a.kind = "num", b.kind = "num",
         NEW o \in DOMAIN Binds, a.level <= Binds[o], b.level < Binds[o]
  PROVE  Phrase("num", Binds[o], a.text \o <<OpSymbol(o)>> \o b.text,
                Both(o, a.val, b.val), a.leaves + b.leaves, a.ops + b.ops + 1) \in Meant
<1> DEFINE e == <<Sym(o)>>
           t == a.text
           u == b.text
           w == t \o e \o u
           c == Both(o, a.val, b.val)
<1>1. /\ a.leaves + b.leaves \in Nat /\ a.ops + b.ops + 1 \in Nat
      /\ t \in Texts /\ u \in Texts /\ a.level \in Nat \ {0} /\ b.level \in Nat \ {0}
      /\ NumericPhrase(a) /\ NumericPhrase(b)
  BY MeantAre
<1>2. /\ NumericText(t) /\ a.val \in NumberValues
      /\ NumericText(u) /\ b.val \in NumberValues
  BY <1>1 DEF NumericPhrase
<1>3. o \in NumericOperators /\ OpSymbol(o) = Sym(o)
  BY DEF Binds, NumericOperators, OpSymbol
<1>4. NumericPart(t) /\ NumericPart(u) /\ t[1] # Sym("+")
  BY <1>2 DEF NumericText, NumericPart
<1>5. NumericPart(e) BY <1>3, OperatorParts DEF NumericOperators
<1> HIDE DEF e, t, u
<1>6. NumericPart(t \o e) /\ (t \o e)[1] = t[1] BY <1>4, <1>5, NumericGlued
<1>7. NumericText(w) BY <1>4, <1>6, NumericGlued
<1>8. c \in NumberValues BY <1>2, <1>3, BothIs
<1>9. w \in Texts BY <1>7 DEF NumericText
<1>10. CASE o \in {"*", "/"}
  <2>1. Binds[o] = 2 BY <1>10 DEF Binds
  <2>2. TermReads(t, a.val) BY <1>1, <2>1 DEF NumericPhrase, t
  <2>3. b.level <= 1 BY <1>1, <2>1
  <2>4. FactorReads(u, b.val) BY <1>1, <2>3 DEF NumericPhrase, u
  <2>5. TermReads(w, c) BY <1>1, <1>2, <1>10, <2>2, <2>4, ProductReads DEF e
  <2> HIDE DEF w, c
  <2>6. SumReads(w, c) BY <1>8, <1>9, <2>5, SumFromTerm
  <2>7. 2 \in Nat \ {0} /\ ~(2 <= 1) OBVIOUS
  <2>8. Phrase("num", 2, w, c, a.leaves + b.leaves, a.ops + b.ops + 1) \in Meant
    BY <1>1, <1>7, <1>8, <2>5, <2>6, <2>7, NumericMeant
  <2> QED BY <1>3, <2>1, <2>8 DEF w, c, e, t, u
<1>11. CASE o \in {"+", "-"}
  <2>1. Binds[o] = 3 BY <1>11 DEF Binds
  <2>2. SumReads(t, a.val) BY <1>1 DEF NumericPhrase, t
  <2>3. b.level <= 2 BY <1>1, <2>1
  <2>4. TermReads(u, b.val) BY <1>1, <2>3 DEF NumericPhrase, u
  <2>5. SumReads(w, c) BY <1>1, <1>2, <1>11, <2>2, <2>4, SumOfReads DEF e
  <2> HIDE DEF w, c
  <2>6. 3 \in Nat \ {0} /\ ~(3 <= 1) /\ ~(3 <= 2) OBVIOUS
  <2>7. Phrase("num", 3, w, c, a.leaves + b.leaves, a.ops + b.ops + 1) \in Meant
    BY <1>1, <1>7, <1>8, <2>5, <2>6, NumericMeant
  <2> QED BY <1>3, <2>1, <2>7 DEF w, c, e, t, u
<1> QED BY <1>3, <1>10, <1>11 DEF NumericOperators

LEMMA JoinedMeant ==
  ASSUME NEW a \in Meant, NEW b \in Meant, a.kind = "cond", b.kind = "cond",
         NEW o \in DOMAIN Joins, a.level <= Joins[o], b.level < Joins[o]
  PROVE  Phrase("cond", Joins[o], a.text \o <<OpSymbol(o)>> \o b.text,
                Both(o, a.val, b.val), a.leaves + b.leaves, a.ops + b.ops + 1) \in Meant
<1> DEFINE e == <<OpSymbol(o)>>
           t == a.text
           u == b.text
           v == t \o e
           w == v \o u
           s == TokensOf(t)
           r == TokensOf(u)
           c == Both(o, a.val, b.val)
<1>1. /\ a.leaves + b.leaves \in Nat /\ a.ops + b.ops + 1 \in Nat
      /\ t \in Texts /\ u \in Texts /\ a.level \in Nat \ {0} /\ b.level \in Nat \ {0}
      /\ ConditionPhrase(a) /\ ConditionPhrase(b)
  BY MeantAre
<1>2. /\ ConditionPart(t) /\ a.val \in TruthValues
      /\ ConditionPart(u) /\ b.val \in TruthValues
  BY <1>1 DEF ConditionPhrase
<1>3. o \in {"and", "&&", "or", "||"} BY DEF Joins
<1>4. s \in Seq(Tokens) /\ r \in Seq(Tokens) BY <1>1, TokensOfType
<1>5. ASSUME NEW k, ConditionPart(e), TokensOf(e) = <<k>>
      PROVE  ConditionPart(w) /\ Single(w) /\ TokensOf(w) = s \o <<k>> \o r
  <2> HIDE DEF e, t, u
  <2>1. ConditionPart(v) /\ TokensOf(v) = s \o <<k>> BY <1>2, <1>5, ConditionGlued
  <2> HIDE DEF v
  <2>2. ConditionPart(w) /\ Single(w) /\ TokensOf(w) = TokensOf(v) \o r
    BY <1>2, <2>1, ConditionGlued
  <2> QED BY <2>1, <2>2
<1>6. CASE o \in {"and", "&&"}
  <2>1. Joins[o] = 3 BY <1>6 DEF Joins
  <2>2. ConditionPart(e) /\ TokensOf(e) = <<<<"AND">>>> BY <1>6, ConditionParts
  <2>3. AndReads(s, a.val) BY <1>1, <2>1 DEF ConditionPhrase
  <2>4. b.level <= 2 BY <1>1, <2>1
  <2>5. NotReads(r, b.val) BY <1>1, <2>4 DEF ConditionPhrase
  <2>6. /\ c \in TruthValues
    <3>1. o \in Connectives["ands"] /\ "ands" \in ConditionLoops
      BY <1>6 DEF Connectives, ConditionLoops
    <3> QED BY <1>2, <3>1, JoinedIs
  <2>7. ConditionPart(w) /\ Single(w) /\ TokensOf(w) = s \o <<<<"AND">>>> \o r
    BY <1>5, <2>2
  <2> HIDE DEF s, r, w
  <2>8. AndReads(TokensOf(w), c) BY <1>2, <1>4, <1>6, <2>3, <2>5, <2>7, AndJoins
  <2> HIDE DEF c
  <2>9. TokensOf(w) \in Seq(Tokens) BY <2>7, TokensOfType DEF ConditionPart
  <2>10. OrReads(TokensOf(w), c) BY <2>6, <2>8, <2>9, OrFromAnd
  <2>11. 3 \in Nat \ {0} /\ ~(3 <= 2) OBVIOUS
  <2>12. Phrase("cond", 3, w, c, a.leaves + b.leaves, a.ops + b.ops + 1) \in Meant
    BY <1>1, <2>6, <2>7, <2>8, <2>10, <2>11, ConditionMeant
  <2> QED BY <2>1, <2>12 DEF w, c
<1>7. CASE o \in {"or", "||"}
  <2>1. Joins[o] = 4 BY <1>7 DEF Joins
  <2>2. ConditionPart(e) /\ TokensOf(e) = <<<<"OR">>>> BY <1>7, ConditionParts
  <2>3. OrReads(s, a.val) BY <1>1 DEF ConditionPhrase
  <2>4. b.level <= 3 BY <1>1, <2>1
  <2>5. AndReads(r, b.val) BY <1>1, <2>4 DEF ConditionPhrase
  <2>6. /\ c \in TruthValues
    <3>1. o \in Connectives["ors"] /\ "ors" \in ConditionLoops
      BY <1>7 DEF Connectives, ConditionLoops
    <3> QED BY <1>2, <3>1, JoinedIs
  <2>7. ConditionPart(w) /\ Single(w) /\ TokensOf(w) = s \o <<<<"OR">>>> \o r
    BY <1>5, <2>2
  <2> HIDE DEF s, r, w
  <2>8. OrReads(TokensOf(w), c) BY <1>2, <1>4, <1>7, <2>3, <2>5, <2>7, OrJoins
  <2> HIDE DEF c
  <2>9. 4 \in Nat \ {0} /\ ~(4 <= 2) /\ ~(4 <= 3) OBVIOUS
  <2>10. Phrase("cond", 4, w, c, a.leaves + b.leaves, a.ops + b.ops + 1) \in Meant
    BY <1>1, <2>6, <2>7, <2>8, <2>9, ConditionMeant
  <2> QED BY <2>1, <2>10 DEF w, c
<1> QED BY <1>3, <1>6, <1>7

-----------------------------------------------------------------------------
(* The invariant and what follows from it.                                 *)

LEMMA Initially == GrammarInit => PhrasesMean
BY DEF GrammarInit, PhrasesMean

LEMMA Shorter ==
  ASSUME NEW S, NEW s \in Seq(S), NEW k \in Nat, k <= Len(s), NEW x \in S
  PROVE  Append(SubSeq(s, 1, k), x) \in Seq(S)
<1>1. Len(s) \in Nat /\ \A i \in 1..Len(s) : s[i] \in S BY ElementOfSeq
<1>2. \A i \in 1..k : s[i] \in S BY <1>1
<1>3. SubSeq(s, 1, k) \in Seq(S) BY <1>2, SubSeqProperties
<1> QED BY <1>3

\* What replaces the top phrase means what it says.
LEMMA Replaced ==
  ASSUME PhrasesMean, stack # <<>>, NEW level, NEW text, NEW val,
         Replace(level, text, val),
         Top \in Meant =>
           Phrase(Top.kind, level, text, val, Top.leaves, Top.ops + 1) \in Meant
  PROVE  PhrasesMean'
<1> DEFINE n == Len(stack)
           x == Phrase(Top.kind, level, text, val, Top.leaves, Top.ops + 1)
<1>1. n \in Nat \ {0} /\ n \in 1..n BY NotEmpty DEF PhrasesMean
<1>2. Top \in Meant BY <1>1 DEF PhrasesMean, Top
<1>3. x \in Meant BY <1>2
<1>4. stack' = Append(SubSeq(stack, 1, n - 1), x) BY DEF Replace, Rest
<1>5. n - 1 \in Nat /\ n - 1 <= Len(stack) BY <1>1
<1> HIDE DEF n, x
<1>6. Append(SubSeq(stack, 1, n - 1), x) \in Seq(Meant)
  BY <1>3, <1>5, Shorter DEF PhrasesMean
<1> QED BY <1>4, <1>6 DEF PhrasesMean

LEMMA CombinedStep ==
  ASSUME PhrasesMean, NEW table, NEW kind, Combine(table, kind),
         \A a \in Meant, b \in Meant, o \in DOMAIN table :
           a.kind = kind /\ b.kind = kind /\ a.level <= table[o] /\ b.level < table[o] =>
             Phrase(kind, table[o], a.text \o <<OpSymbol(o)>> \o b.text,
                    Both(o, a.val, b.val), a.leaves + b.leaves, a.ops + b.ops + 1) \in Meant
  PROVE  PhrasesMean'
<1> DEFINE n == Len(stack)
           a == stack[n - 1]
           b == stack[n]
<1>1. n \in Nat /\ n >= 2 BY DEF PhrasesMean, Combine
<1>2. n - 1 \in 1..n /\ n \in 1..n /\ n - 2 \in Nat /\ n - 2 <= n BY <1>1
<1>3. a \in Meant /\ b \in Meant BY <1>2, ElementOfSeq DEF PhrasesMean
<1>4. PICK o \in DOMAIN table :
        /\ a.kind = kind /\ b.kind = kind /\ a.level <= table[o] /\ b.level < table[o]
        /\ stack' = Append(SubSeq(stack, 1, n - 2),
             Phrase(kind, table[o], a.text \o <<OpSymbol(o)>> \o b.text,
                    Both(o, a.val, b.val), a.leaves + b.leaves, a.ops + b.ops + 1))
  BY DEF Combine, Top
<1> DEFINE x == Phrase(kind, table[o], a.text \o <<OpSymbol(o)>> \o b.text,
                       Both(o, a.val, b.val), a.leaves + b.leaves, a.ops + b.ops + 1)
<1> HIDE DEF a, b
<1>5. x \in Meant BY <1>3, <1>4
<1> HIDE DEF x
<1>6. stack' = Append(SubSeq(stack, 1, n - 2), x) BY <1>4 DEF x
<1> HIDE DEF n
<1>7. Append(SubSeq(stack, 1, n - 2), x) \in Seq(Meant)
  BY <1>2, <1>5, Shorter DEF PhrasesMean, n
<1> QED BY <1>6, <1>7 DEF PhrasesMean

\* No step puts a phrase on the stack that the parsers read as something else.
LEMMA Stepwise ==
  ASSUME PhrasesMean, [GrammarNext]_stack
  PROVE  PhrasesMean'
<1>1. CASE PushLeaf
  <2>1. PICK l \in Leaves :
          stack' = Append(stack, Phrase(l.kind, 1, l.text, l.val, 1, 0))
    BY <1>1 DEF PushLeaf
  <2> DEFINE x == Phrase(l.kind, 1, l.text, l.val, 1, 0)
  <2>2. x \in Meant BY LeafMeant
  <2> HIDE DEF x
  <2>3. Append(stack, x) \in Seq(Meant) BY <2>2, AppendProperties DEF PhrasesMean
  <2> QED BY <2>1, <2>3 DEF PhrasesMean, x
<1>2. CASE Enclose BY <1>2, EnclosedMeant, Replaced DEF Enclose
<1>3. CASE Negate BY <1>3, NegatedMeant, Replaced DEF Negate
<1>4. CASE SquareRoot BY <1>4, RootMeant, Replaced DEF SquareRoot
<1>5. CASE NotOf BY <1>5, NegationMeant, Replaced DEF NotOf
<1>6. CASE Bang BY <1>6, NegationMeant, Replaced DEF Bang
<1>7. CASE Combine(Binds, "num") BY <1>7, CombinedMeant, CombinedStep
<1>8. CASE Combine(Joins, "cond") BY <1>8, JoinedMeant, CombinedStep
<1>9. CASE UNCHANGED stack BY <1>9 DEF PhrasesMean
<1> QED BY <1>1, <1>2, <1>3, <1>4, <1>5, <1>6, <1>7, <1>8, <1>9 DEF GrammarNext

LEMMA GrammarAlways == GrammarSpec => []PhrasesMean
BY Initially, Stepwise, PTL DEF GrammarSpec

LEMMA NumericAgreeing == PhrasesMean => NumericAgrees
<1> SUFFICES ASSUME PhrasesMean, NEW i \in DOMAIN stack, stack[i].kind = "num"
             PROVE  LET p == stack[i]
                        r == IF p.val = Throws THEN Throws ELSE p.val[2]
                    IN  /\ Number(p.text, Env) = r
                        /\ Contains(p.text, Arithmetic) =>
                             /\ AsDouble(Value(p.text, Env)) = r
                             /\ NumberLiteral(p.text) = Throws =>
                                  Value(p.text, Env) = Rounded(r)
  BY DEF NumericAgrees
<1> DEFINE p == stack[i]
           t == p.text
           val == p.val
           r == IF val = Throws THEN Throws ELSE val[2]
<1>1. p \in Meant BY ElementOfSeq DEF PhrasesMean
<1> HIDE DEF p
<1>2. NumericText(t) /\ val \in NumberValues /\ SumReads(t, val) /\ t \in Texts
  BY <1>1, MeantAre DEF NumericPhrase, p
<1> HIDE DEF t, val
<1>3. Number(t, Env) = r BY <1>2, NumberIs
<1>4. r = Throws \/ r \in Doubles BY <1>2, NumberValuesAre
<1> HIDE DEF r
<1>5. ASSUME Contains(t, Arithmetic)
      PROVE  /\ AsDouble(Value(t, Env)) = r
             /\ NumberLiteral(t) = Throws => Value(t, Env) = Rounded(r)
  <2>1. AsDouble(Rounded(r)) = r BY <1>4, RoundedIs
  <2> QED BY <1>2, <1>3, <1>5, <2>1, ValueIs
<1> QED BY <1>3, <1>5 DEF r, t, val, p

LEMMA ConditionAgreeing == PhrasesMean => ConditionAgrees
<1> SUFFICES ASSUME PhrasesMean, NEW i \in DOMAIN stack, stack[i].kind = "cond"
             PROVE  Holds(stack[i].text, Env) <=> stack[i].val = Flag(TRUE)
  BY DEF ConditionAgrees
<1> DEFINE p == stack[i]
<1>1. p \in Meant BY ElementOfSeq DEF PhrasesMean
<1>2. ConditionPart(p.text) /\ p.val \in TruthValues /\ OrReads(TokensOf(p.text), p.val)
  BY <1>1, MeantAre DEF ConditionPhrase
<1> HIDE DEF p
<1>3. Holds(p.text, Env) <=> p.val = Flag(TRUE) BY <1>2, HoldsIs DEF ConditionPart
<1> QED BY <1>3 DEF p

LEMMA LiteralsAgreeing == PhrasesMean => LiteralsAgree
<1> SUFFICES ASSUME PhrasesMean, NEW i \in DOMAIN stack,
                    Len(stack[i].text) = 1 \/ NumberLiteral(stack[i].text) # Throws
             PROVE  Literal(stack[i].text) = Value(stack[i].text, [n \in {} |-> n])
  BY DEF LiteralsAgree
<1> DEFINE p == stack[i]
           t == p.text
           none == [n \in {} |-> n]
<1>1. p \in Meant BY ElementOfSeq DEF PhrasesMean
<1>2. t \in Texts /\ t # <<>> /\ Single(t)
  BY <1>1, MeantAre DEF NumericPhrase, NumericText, ConditionPhrase, ConditionPart
<1>3. DOMAIN none = {} OBVIOUS
<1>5. Len(t) = 1 \/ NumberLiteral(t) # Throws OBVIOUS
<1> HIDE DEF p, t, none
<1>4. Literal(t) = Value(t, none)
  <2>0. DOMAIN t = 1..Len(t) /\ Len(t) \in Nat BY <1>2, TextsAre
  <2>1. CASE Len(t) = 1
    <3>1. 1 \in 1..Len(t) /\ \A j \in 1..Len(t) : t[j] = t[1] BY <2>0, <2>1
    <3>2. /\ t[1][1] # "quoted" /\ t[1] \notin Arithmetic /\ t[1] \notin Comparisons
          /\ t[1] \notin TrueWords /\ t[1] \notin FalseWords
      BY <1>2, <2>1, SingleIs
    <3>3. /\ ~IsQuoted(t) /\ ~Contains(t, Comparisons) /\ ~Contains(t, Arithmetic)
      BY <2>0, <3>1, <3>2 DEF IsQuoted, Contains
    <3>4. Literal(t) = IF NumberLiteral(t) # Throws THEN NumberLiteral(t) ELSE Text(t)
      BY <3>2 DEF Literal
    <3>5. Value(t, none) = IF NumberLiteral(t) # Throws THEN NumberLiteral(t) ELSE Text(t)
      BY <1>2, <1>3, <3>2, <3>3 DEF Value
    <3> QED BY <3>4, <3>5
  <2>2. CASE Len(t) # 1
    <3>1. NumberLiteral(t) # Throws BY <1>5, <2>2
    <3>2. Len(t) = 2 /\ t[1] \in {Sym("-"), Sym("+")} /\ IsNumber(t[2])
      BY <2>2, <3>1 DEF NumberLiteral
    <3>3. t[1][1] # "quoted" /\ t[1] \notin Comparisons /\ t[2] \notin Comparisons
      BY <3>2 DEF Sym, IsNumber, Comparisons
    <3>4. ~IsQuoted(t) BY <3>3 DEF IsQuoted
    <3>5. ~Contains(t, Comparisons)
      <4>1. \A j \in 1..Len(t) : j = 1 \/ j = 2 BY <3>2
      <4> QED BY <2>0, <3>3, <4>1 DEF Contains
    <3>6. Value(t, none) = NumberLiteral(t) BY <1>2, <2>2, <3>1, <3>4, <3>5 DEF Value
    <3>7. Literal(t) = NumberLiteral(t) BY <3>1 DEF Literal
    <3> QED BY <3>6, <3>7
  <2> QED BY <2>1, <2>2
<1> QED BY <1>4 DEF t, p, none

\* NumericExpressionParser computes of every numeric phrase what arithmetic
\* says, with * and / before + and -, from left to right, and fails as a whole
\* where an operand has no value or is divided by zero; a command stores the
\* number, as an int if it is whole.
THEOREM NumbersAgree == GrammarSpec => []NumericAgrees
BY GrammarAlways, NumericAgreeing, PTL

\* ConstraintEvaluator takes a condition as satisfied exactly if it means TRUE,
\* with not before and, and and before or, and if every operand of it can be
\* evaluated.
THEOREM ConditionsAgree == GrammarSpec => []ConditionAgrees
BY GrammarAlways, ConditionAgreeing, PTL

\* setFromParams stores a text without names of variables as the same value that
\* evaluateValueExpression computes of it for a command.
THEOREM StoredAlike == GrammarSpec => []LiteralsAgree
BY GrammarAlways, LiteralsAgreeing, PTL

=============================================================================
