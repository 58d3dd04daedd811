-------------------------- MODULE InputFilesProofs ---------------------------
(***************************************************************************)
(* What is read of the input files is what they say, for every value of    *)
(* the constants: whatever the JSON, of any depth.                         *)
(*                                                                         *)
(* Two arguments carry the proofs.  One is an invariant of the parser's    *)
(* loop, FilesInv, which knows of every satellite which of the entries     *)
(* read so far its tasks come from.  The other is that each function       *)
(* defined by recursion exists and satisfies its equation: shown for the   *)
(* documents of depth below n, from n to n + 1.  Induction over the        *)
(* natural numbers is that of NatSet, about a set of numbers.              *)
(***************************************************************************)
EXTENDS InputFiles, SequenceTheorems, WellFoundedInduction, TLAPS

-----------------------------------------------------------------------------
(* Induction over the natural numbers.                                     *)

\* Every set of natural numbers that is not empty has a least element.
LEMMA LeastElement ==
  ASSUME NEW T \in SUBSET Nat, T # {}
  PROVE  \E n \in T : \A m \in T : n <= m
<1> DEFINE R == {ss \in Nat \X Nat : ss[1] < ss[2]}
<1>1. R = OpToRel(<, Nat) BY DEF OpToRel
<1>2. IsWellFoundedOn(R, Nat) BY <1>1, NatLessThanWellFounded
<1> HIDE DEF R
<1>3. PICK n \in T : \A m \in T : <<m, n>> \notin R BY <1>2, WFMin
<1>4. ASSUME NEW m \in T, m < n PROVE FALSE BY <1>3, <1>4 DEF R
<1> QED BY <1>4

\* Induction over the natural numbers, for a set of them.
LEMMA NatSet ==
  ASSUME NEW S \in SUBSET Nat, 0 \in S, \A n \in S : n + 1 \in S
  PROVE  S = Nat
<1> SUFFICES ASSUME Nat \ S # {} PROVE FALSE OBVIOUS
<1>1. PICK n \in Nat \ S : \A m \in Nat \ S : n <= m
  <2> DEFINE T == Nat \ S
  <2>1. T \in SUBSET Nat /\ T # {} OBVIOUS
  <2> HIDE DEF T
  <2>2. \E n \in T : \A m \in T : n <= m BY <2>1, LeastElement
  <2> QED BY <2>2 DEF T
<1>2. n # 0 /\ n - 1 \in Nat /\ ~(n <= n - 1) OBVIOUS
<1>3. n - 1 \in S BY <1>1, <1>2
<1>4. (n - 1) + 1 = n OBVIOUS
<1> QED BY <1>3, <1>4

-----------------------------------------------------------------------------
(* ObjectsIn: the items of an array that are objects.                      *)

\* The function that ObjectsIn defines by recursion, for the first k items.
IsFilter(f, items, k) ==
  f = [n \in 0..k |-> IF n = 0 THEN <<>>
                      ELSE IF items[n][1] = "object" THEN Append(f[n - 1], items[n])
                      ELSE f[n - 1]]

\* There is such a function, for any number of items.
LEMMA FilterExists ==
  ASSUME NEW items, NEW k \in Nat
  PROVE  \E f : IsFilter(f, items, k)
<1> DEFINE S == {n \in Nat : \E f : IsFilter(f, items, n)}
<1>1. 0 \in S
  <2>1. IsFilter([n \in 0..0 |-> <<>>], items, 0) BY DEF IsFilter
  <2> QED BY <2>1
<1>2. ASSUME NEW n \in S PROVE n + 1 \in S
  <2>1. PICK f : IsFilter(f, items, n) OBVIOUS
  <2> DEFINE last == IF items[n + 1][1] = "object" THEN Append(f[n], items[n + 1])
                     ELSE f[n]
             g == [m \in 0..(n + 1) |-> IF m = n + 1 THEN last ELSE f[m]]
  <2>2. \A m \in 0..n : f[m] = IF m = 0 THEN <<>>
                               ELSE IF items[m][1] = "object" THEN Append(f[m - 1], items[m])
                               ELSE f[m - 1]
    BY <2>1 DEF IsFilter
  <2>3. \A m \in 0..(n + 1) : 
           g[m] = IF m = 0 THEN <<>>
                  ELSE IF items[m][1] = "object" THEN Append(g[m - 1], items[m])
                  ELSE g[m - 1]
    <3> TAKE m \in 0..(n + 1)
    <3>1. CASE m = n + 1
      <4>1. m # 0 /\ m - 1 = n /\ n # n + 1 /\ n \in 0..(n + 1) BY <3>1
      <4>2. g[m - 1] = f[n] /\ g[m] = last BY <3>1, <4>1
      <4> QED BY <3>1, <4>1, <4>2
    <3>2. CASE m # n + 1
      <4>1. m \in 0..n /\ (m # 0 => m - 1 \in 0..(n + 1) /\ m - 1 # n + 1)
        BY <3>2
      <4>2. g[m] = f[m] /\ (m # 0 => g[m - 1] = f[m - 1]) BY <3>2, <4>1
      <4> QED BY <2>2, <4>1, <4>2
    <3> QED BY <3>1, <3>2
  <2>4. IsFilter(g, items, n + 1)
    <3>1. g = [m \in 0..(n + 1) |-> g[m]] OBVIOUS
    <3> HIDE DEF g
    <3> QED BY <2>3, <3>1 DEF IsFilter
  <2> QED BY <2>4
<1> HIDE DEF S
<1>3. S = Nat BY <1>1, <1>2, NatSet DEF S
<1> QED BY <1>3 DEF S

\* ObjectsIn is its value for all of them.
LEMMA ObjectsInIs ==
  ASSUME NEW items, Len(items) \in Nat
  PROVE  \E f : IsFilter(f, items, Len(items)) /\ ObjectsIn(items) = f[Len(items)]
<1>1. \E f : IsFilter(f, items, Len(items)) BY FilterExists
<1> QED BY <1>1 DEF ObjectsIn, IsFilter

\* Its equation.
LEMMA FilterItem ==
  ASSUME NEW f, NEW items, NEW k \in Nat, IsFilter(f, items, k), NEW n \in 0..k
  PROVE  f[n] = IF n = 0 THEN <<>>
                ELSE IF items[n][1] = "object" THEN Append(f[n - 1], items[n])
                ELSE f[n - 1]
BY DEF IsFilter

JsonObjects == {v \in Json : v[1] = "object"}

\* What is in the array and an object, and nothing else.
LEMMA ObjectsInJson ==
  ASSUME NEW items \in Seq(Json)
  PROVE  /\ ObjectsIn(items) \in Seq(JsonObjects)
         /\ \A i \in DOMAIN ObjectsIn(items) :
              \E j \in DOMAIN items : ObjectsIn(items)[i] = items[j]
<1> DEFINE N == Len(items)
<1>1. N \in Nat /\ DOMAIN items = 1..N /\ \A i \in 1..N : items[i] \in Json OBVIOUS
<1> HIDE DEF N
<1>2. PICK f : IsFilter(f, items, N) /\ ObjectsIn(items) = f[N]
  BY <1>1, ObjectsInIs DEF N
<1> DEFINE Good(s) == /\ s \in Seq(JsonObjects)
                      /\ \A i \in 1..Len(s) : \E j \in 1..N : s[i] = items[j]
           S == {n \in Nat : n <= N => Good(f[n])}
<1>3. 0 \in S
  <2>1. 0 \in 0..N BY <1>1
  <2>2. f[0] = <<>> BY <1>1, <1>2, <2>1, FilterItem
  <2>3. Good(<<>>) OBVIOUS
  <2> QED BY <2>2, <2>3
<1>4. ASSUME NEW n \in S PROVE n + 1 \in S
  <2> SUFFICES ASSUME n + 1 <= N PROVE Good(f[n + 1]) OBVIOUS
  <2>1. /\ n \in Nat /\ n <= N /\ n + 1 \in 0..N /\ n + 1 \in 1..N
        /\ n + 1 # 0 /\ (n + 1) - 1 = n
    BY <1>1
  <2>2. Good(f[n]) BY <2>1
  <2>3. f[n + 1] = IF items[n + 1][1] = "object" THEN Append(f[n], items[n + 1]) ELSE f[n]
    BY <1>1, <1>2, <2>1, FilterItem
  <2>4. CASE items[n + 1][1] = "object"
    <3>1. items[n + 1] \in JsonObjects BY <1>1, <2>1, <2>4 DEF JsonObjects
    <3> DEFINE s == f[n]
               t == Append(s, items[n + 1])
    <3>2. s \in Seq(JsonObjects) /\ \A i \in 1..Len(s) : \E j \in 1..N : s[i] = items[j]
      BY <2>2
    <3> HIDE DEF s
    <3>3. /\ t \in Seq(JsonObjects) /\ Len(t) = Len(s) + 1 /\ t[Len(s) + 1] = items[n + 1]
          /\ \A i \in 1..Len(s) : t[i] = s[i]
      BY <3>1, <3>2, AppendProperties
    <3> HIDE DEF t
    <3>4. ASSUME NEW i \in 1..Len(t) PROVE \E j \in 1..N : t[i] = items[j]
      <4>1. CASE i = Len(s) + 1 BY <2>1, <3>3, <4>1
      <4>2. CASE i # Len(s) + 1
        <5>1. i \in 1..Len(s)
          <6>1. Len(s) \in Nat BY <3>2
          <6> QED BY <3>3, <4>2, <6>1
        <5> QED BY <3>2, <3>3, <5>1
      <4> QED BY <4>1, <4>2
    <3>5. f[n + 1] = t BY <2>3, <2>4 DEF t, s
    <3> QED BY <3>3, <3>4, <3>5
  <2>5. CASE items[n + 1][1] # "object" BY <2>2, <2>3, <2>5
  <2> QED BY <2>4, <2>5
<1> HIDE DEF S, Good
<1>5. S = Nat BY <1>3, <1>4, NatSet DEF S
<1>6. Good(ObjectsIn(items)) BY <1>1, <1>2, <1>5 DEF S
<1> QED BY <1>1, <1>6 DEF Good

\* Where every item is an object, none is left out.
LEMMA ObjectsInAll ==
  ASSUME NEW A, NEW items \in Seq(A), \A i \in 1..Len(items) : items[i][1] = "object"
  PROVE  ObjectsIn(items) = items
<1> DEFINE N == Len(items)
<1>1. N \in Nat /\ DOMAIN items = 1..N /\ \A i \in 1..N : items[i] \in A OBVIOUS
<1>2. \A i \in 1..N : items[i][1] = "object" OBVIOUS
<1> HIDE DEF N
<1>3. PICK f : IsFilter(f, items, N) /\ ObjectsIn(items) = f[N]
  BY <1>1, ObjectsInIs DEF N
<1> DEFINE Same(s, n) == s \in Seq(A) /\ Len(s) = n /\ \A i \in 1..n : s[i] = items[i]
           S == {n \in Nat : n <= N => Same(f[n], n)}
<1>4. 0 \in S
  <2>1. 0 \in 0..N BY <1>1
  <2>2. f[0] = <<>> BY <1>1, <1>3, <2>1, FilterItem
  <2>3. Same(<<>>, 0) OBVIOUS
  <2> QED BY <2>2, <2>3
<1>5. ASSUME NEW n \in S PROVE n + 1 \in S
  <2> SUFFICES ASSUME n + 1 <= N PROVE Same(f[n + 1], n + 1) OBVIOUS
  <2>1. /\ n \in Nat /\ n <= N /\ n + 1 \in 0..N /\ n + 1 \in 1..N
        /\ n + 1 # 0 /\ (n + 1) - 1 = n
    BY <1>1
  <2> DEFINE s == f[n]
             t == Append(s, items[n + 1])
  <2>2. s \in Seq(A) /\ Len(s) = n /\ \A i \in 1..n : s[i] = items[i] BY <2>1
  <2>3. f[n + 1] = t
    <3>1. f[n + 1] = IF n + 1 = 0 THEN <<>>
                     ELSE IF items[n + 1][1] = "object"
                       THEN Append(f[(n + 1) - 1], items[n + 1])
                     ELSE f[(n + 1) - 1]
      BY <1>1, <1>3, <2>1, FilterItem
    <3> QED BY <1>2, <2>1, <3>1
  <2> HIDE DEF s
  <2>4. items[n + 1] \in A BY <1>1, <2>1
  <2>5. /\ t \in Seq(A) /\ Len(t) = Len(s) + 1 /\ t[Len(s) + 1] = items[n + 1]
        /\ \A i \in 1..Len(s) : t[i] = s[i]
    BY <2>2, <2>4, AppendProperties
  <2> HIDE DEF t
  <2>6. ASSUME NEW i \in 1..(n + 1) PROVE t[i] = items[i]
    <3>1. CASE i = n + 1 BY <2>2, <2>5, <3>1
    <3>2. CASE i # n + 1
      <4>1. i \in 1..n BY <2>1, <3>2
      <4> QED BY <2>2, <2>5, <4>1
    <3> QED BY <3>1, <3>2
  <2> QED BY <2>2, <2>3, <2>5, <2>6
<1> HIDE DEF S, Same
<1>6. S = Nat BY <1>4, <1>5, NatSet DEF S
<1>7. Same(ObjectsIn(items), N) BY <1>1, <1>3, <1>6 DEF S
<1> QED BY <1>1, <1>7, SeqEqual DEF Same, N

-----------------------------------------------------------------------------
(* Scalars: what is written as a text is read as the value.                *)

\* Of a smaller number the larger divides nothing.
LEMMA ModBelow ==
  ASSUME NEW d \in Nat, NEW k \in Nat, 0 < d, d < k
  PROVE  d % k = d
OBVIOUS

\* A fraction in lowest terms is not reduced any further.
LEMMA LowestFraction ==
  ASSUME NEW n \in Int, NEW d \in Nat \ {0}, InLowestTerms(<<n, d>>), n # 0
  PROVE  Fraction(n, d) = <<n, d>>
<1> DEFINE size == IF n < 0 THEN -n ELSE n
           K == {k \in 1..size : size % k = 0 /\ d % k = 0}
<1>1. size \in Nat /\ size # 0 BY DEF size
<1>2. \A k \in 2..d : ~(size % k = 0 /\ d % k = 0) BY DEF InLowestTerms
<1> HIDE DEF size
<1>3. K = {1}
  <2>1. 1 \in K
    <3>1. size % 1 = 0 /\ d % 1 = 0 BY <1>1
    <3> QED BY <1>1, <3>1
  <2>2. ASSUME NEW k \in K, k # 1 PROVE FALSE
    <3>1. k \in Nat /\ 2 <= k /\ size % k = 0 /\ d % k = 0 BY <1>1, <2>2
    <3>2. CASE k <= d BY <1>2, <3>1, <3>2
    <3>3. CASE d < k BY <3>1, <3>3, ModBelow
    <3> QED BY <3>1, <3>2, <3>3
  <2> QED BY <2>1, <2>2
<1>4. Max(K) = 1 BY <1>3 DEF Max
<1>5. ~(d < 0) /\ 1 * d = d /\ 1 * n = n /\ n \div 1 = n /\ d \div 1 = d OBVIOUS
<1>6. Fraction(n, d) = <<(1 * n) \div Max(K), (1 * d) \div Max(K)>>
  BY <1>5 DEF Fraction, K, size
<1> QED BY <1>4, <1>5, <1>6

\* A value is told from another by its type.
LEMMA NotThrows ==
  ASSUME NEW x
  PROVE  /\ Whole(x) # Throws /\ Double(x) # Throws
         /\ Flag(x) # Throws /\ Text(x) # Throws
         /\ Whole(x)[1] = "int" /\ Double(x)[1] = "double"
         /\ Flag(x)[1] = "bool" /\ Text(x)[1] = "text"
         /\ Whole(x)[2] = x /\ Double(x)[2] = x /\ Flag(x)[2] = x /\ Text(x)[2] = x
BY DEF Whole, Double, Flag, Text, Throws

\* A number's text, with its sign if it has one, is read as the number.
LEMMA SignedReads ==
  ASSUME NEW n \in Int
  PROVE  Literal(Signed(n)) = Whole(n)
<1>1. CASE n < 0
  <2> DEFINE t == <<Sym("-"), Whole(-n)>>
  <2>1. Len(t) = 2 /\ t[1] = Sym("-") /\ t[2] = Whole(-n) OBVIOUS
  <2>2. Signed(n) = t BY <1>1 DEF Signed
  <2> HIDE DEF t
  <2>3. IsNumber(Whole(-n)) /\ Whole(-n)[1] = "int" /\ Whole(-n)[2] = -n
    BY NotThrows DEF IsNumber
  <2>4. NumberLiteral(t) = Stored(Whole(-n), -1) BY <2>1, <2>3 DEF NumberLiteral
  <2>5. Stored(Whole(-n), -1) = Whole((-1) * (-n)) BY <2>3 DEF Stored
  <2>6. (-1) * (-n) = n OBVIOUS
  <2>7. NumberLiteral(t) = Whole(n) BY <2>4, <2>5, <2>6
  <2> QED BY <2>2, <2>7, NotThrows DEF Literal
<1>2. CASE ~(n < 0)
  <2> DEFINE t == <<Whole(n)>>
  <2>1. Len(t) = 1 /\ t[1] = Whole(n) OBVIOUS
  <2>2. Signed(n) = t BY <1>2 DEF Signed
  <2> HIDE DEF t
  <2>3. IsNumber(Whole(n)) /\ Whole(n)[1] = "int" /\ Whole(n)[2] = n
    BY NotThrows DEF IsNumber
  <2>4. NumberLiteral(t) = Stored(Whole(n), 1) BY <2>1, <2>3 DEF NumberLiteral
  <2>5. Stored(Whole(n), 1) = Whole(1 * n) BY <2>3 DEF Stored
  <2>6. 1 * n = n OBVIOUS
  <2>7. NumberLiteral(t) = Whole(n) BY <2>4, <2>5, <2>6
  <2> QED BY <2>2, <2>7, NotThrows DEF Literal
<1> QED BY <1>1, <1>2

\* So is a fraction's, if it keeps its decimal point, and else as a whole
\* number of the same value.
LEMMA FloatReads ==
  ASSUME NEW r, InLowestTerms(r)
  PROVE  AsDouble(Literal(FloatText(r))) = r
<1>1. r = <<r[1], r[2]>> /\ r[1] \in Int /\ r[2] \in Nat \ {0}
  BY DEF InLowestTerms
<1>2. PICK n \in Int, d \in Nat \ {0} : r = <<n, d>> BY <1>1
<1>3. r[1] = n /\ r[2] = d BY <1>2
<1>4. CASE d = 1
  <2>1. FloatText(r) = Signed(n) BY <1>3, <1>4 DEF FloatText
  <2>2. AsDouble(Whole(n)) = <<n, 1>> BY NotThrows DEF AsDouble
  <2> QED BY <1>2, <1>4, <2>1, <2>2, SignedReads
<1>5. CASE d # 1
  <2>1. n # 0
    <3>1. ASSUME n = 0 PROVE FALSE
      <4>1. 0 % d = 0 /\ d % d = 0 /\ d \in 2..d BY <1>5
      <4> QED BY <1>3, <3>1, <4>1 DEF InLowestTerms
    <3> QED BY <3>1
  <2>2. Fraction(n, d) = <<n, d>> BY <1>2, <2>1, LowestFraction
  <2>3. \A q : <<"dec", q>>[1] = "dec" /\ <<"dec", q>>[2] = q OBVIOUS
  <2>4. AsDouble(Double(r)) = r BY NotThrows DEF AsDouble
  <2>5. CASE n < 0
    <3> DEFINE s == <<"dec", <<-n, d>>>>
               t == <<Sym("-"), s>>
    <3>1. Len(t) = 2 /\ t[1] = Sym("-") /\ t[2] = s OBVIOUS
    <3>2. FloatText(r) = t BY <1>3, <1>5, <2>5 DEF FloatText
    <3>3. s[1] = "dec" /\ s[2] = <<-n, d>> BY <2>3
    <3> HIDE DEF t, s
    <3>4. IsNumber(s) BY <3>3 DEF IsNumber
    <3>5. NumberLiteral(t) = Stored(s, -1) BY <3>1, <3>4 DEF NumberLiteral
    <3>6. Stored(s, -1) = Double(Times(<<-1, 1>>, <<-n, d>>)) BY <3>3 DEF Stored
    <3>7. Times(<<-1, 1>>, <<-n, d>>) = Fraction(n, d)
      <4>1. (-1) * (-n) = n /\ 1 * d = d OBVIOUS
      <4> QED BY <4>1 DEF Times
    <3>8. NumberLiteral(t) = Double(r) BY <1>2, <2>2, <3>5, <3>6, <3>7
    <3> QED BY <2>4, <3>2, <3>8, NotThrows DEF Literal
  <2>6. CASE ~(n < 0)
    <3> DEFINE s == <<"dec", r>>
               t == <<s>>
    <3>1. Len(t) = 1 /\ t[1] = s OBVIOUS
    <3>2. FloatText(r) = t BY <1>3, <1>5, <2>6 DEF FloatText
    <3>3. s[1] = "dec" /\ s[2] = r BY <2>3
    <3> HIDE DEF t, s
    <3>4. IsNumber(s) BY <3>3 DEF IsNumber
    <3>5. NumberLiteral(t) = Stored(s, 1) BY <3>1, <3>4 DEF NumberLiteral
    <3>6. Stored(s, 1) = Double(Times(<<1, 1>>, r)) BY <3>3 DEF Stored
    <3>7. Times(<<1, 1>>, r) = Fraction(n, d)
      <4>1. 1 * n = n /\ 1 * d = d OBVIOUS
      <4> QED BY <1>3, <4>1 DEF Times
    <3>8. NumberLiteral(t) = Double(r) BY <1>2, <2>2, <3>5, <3>6, <3>7
    <3> QED BY <2>4, <3>2, <3>8, NotThrows DEF Literal
  <2> QED BY <2>5, <2>6
<1> QED BY <1>4, <1>5

\* The names of the truth values are read as truth values.
LEMMA BoolReads ==
  ASSUME NEW b \in BOOLEAN
  PROVE  Literal(<<Word(IF b THEN "true" ELSE "false")>>) = Flag(b)
<1>1. ASSUME NEW w, w \in {"true", "false"}
      PROVE  Literal(<<Word(w)>>) = IF w = "true" THEN Flag(TRUE) ELSE Flag(FALSE)
  <2> DEFINE t == <<Word(w)>>
  <2>1. Len(t) = 1 /\ t[1] = Word(w) OBVIOUS
  <2> HIDE DEF t
  <2>2. ~IsNumber(Word(w)) BY DEF IsNumber, Word
  <2>3. NumberLiteral(t) = Throws BY <2>1, <2>2 DEF NumberLiteral
  <2>4. (Word(w) \in TrueWords) <=> w = "true" BY <1>1 DEF TrueWords, Word
  <2>5. (Word(w) \in FalseWords) <=> w = "false" BY <1>1 DEF FalseWords, Word
  <2>6. Literal(t) = IF w = "true" THEN Flag(TRUE) ELSE Flag(FALSE)
    BY <1>1, <2>1, <2>3, <2>4, <2>5 DEF Literal
  <2> QED BY <2>6 DEF t
<1>2. CASE b BY <1>1, <1>2
<1>3. CASE ~b BY <1>1, <1>3
<1> QED BY <1>2, <1>3

\* A string is kept as a text, if it does not read as something else.
LEMMA StringReads ==
  ASSUME NEW t
  PROVE  Literal(t)[1] = "text" => Literal(t)[2] = t
<1>1. CASE NumberLiteral(t) # Throws
  <2>1. NumberLiteral(t)[1] # "text"
    <3>1. \A symbol, sign : Stored(symbol, sign)[1] # "text"
      BY NotThrows DEF Stored
    <3> QED BY <1>1, <3>1 DEF NumberLiteral
  <2> QED BY <1>1, <2>1 DEF Literal
<1>2. CASE NumberLiteral(t) = Throws
  BY <1>2, NotThrows DEF Literal
<1> QED BY <1>1, <1>2

\* What jsonScalarToString writes, setFromParams reads as the value it was.
LEMMA ScalarReads ==
  ASSUME NEW v \in Json, v[1] \in Scalars
  PROVE  Means(v, Literal(ScalarText(v)))
<1>1. CASE v[1] = "int"
  <2>1. v[2] \in Int /\ ScalarText(v) = Signed(v[2])
    BY <1>1, FilesAssumption DEF ScalarText
  <2> QED BY <1>1, <2>1, SignedReads DEF Means
<1>2. CASE v[1] = "float"
  <2>1. InLowestTerms(v[2]) /\ ScalarText(v) = FloatText(v[2])
    BY <1>2, FilesAssumption DEF ScalarText
  <2> QED BY <1>2, <2>1, FloatReads DEF Means
<1>3. CASE v[1] = "bool"
  <2>1. v[2] \in BOOLEAN /\ ScalarText(v) = <<Word(IF v[2] THEN "true" ELSE "false")>>
    BY <1>3, FilesAssumption DEF ScalarText
  <2>2. Literal(ScalarText(v)) = Flag(v[2]) BY <2>1, BoolReads
  <2> QED BY <1>3, <2>2 DEF Means
<1>4. CASE v[1] = "string"
  <2>1. ScalarText(v) = v[2] BY <1>4 DEF ScalarText
  <2> QED BY <1>4, <2>1, StringReads DEF Means
<1> QED BY <1>1, <1>2, <1>3, <1>4 DEF Scalars

-----------------------------------------------------------------------------
(* Objects of values: what is kept of them.                                *)

\* What is in a document is JSON.
LEMMA DocumentsAre ==
  ASSUME NEW o \in Documents, NEW key \in DOMAIN o
  PROVE  o[key] \in Json
BY FilesAssumption DEF Documents

\* The scalars of an object that stand alone.
LEMMA ScalarMapKeeps ==
  ASSUME NEW o \in Documents, NEW key
  PROVE  AreKept(o, key, {"alone"}, ScalarMap(o, key))
<1> SUFFICES ASSUME key \in DOMAIN o, o[key][1] = "object", NEW k \in DOMAIN o[key][2],
                    o[key][2][k][1] \in Scalars
             PROVE  /\ k \in DOMAIN ScalarMap(o, key)
                    /\ Means(o[key][2][k], Literal(ScalarMap(o, key)[k]))
  BY DEF AreKept
<1>1. o[key] \in Json BY DocumentsAre
<1>2. o[key][2][k] \in Json BY <1>1, FilesAssumption
<1>3. /\ k \in DOMAIN ScalarMap(o, key)
      /\ ScalarMap(o, key)[k] = ScalarText(o[key][2][k])
  BY DEF ScalarMap
<1> QED BY <1>2, <1>3, ScalarReads

\* Those that stand in an object of their own, under field, or alone.
LEMMA UnderKeeps ==
  ASSUME NEW o \in Documents, NEW key, NEW field, NEW must \in BOOLEAN, field # "alone"
  PROVE  AreKept(o, key, IF must THEN {field} ELSE {"alone", field},
                 Under(o, key, field, must))
<1> SUFFICES ASSUME key \in DOMAIN o, o[key][1] = "object", NEW k \in DOMAIN o[key][2],
                    NEW form \in (IF must THEN {field} ELSE {"alone", field})
             PROVE  LET v == o[key][2][k]
                        read == Under(o, key, field, must)
                        Kept(w) == w[1] \in Scalars =>
                                     k \in DOMAIN read /\ Means(w, Literal(read[k]))
                    IN  /\ form = "alone" => Kept(v)
                        /\ form # "alone" /\ v[1] = "object" /\ form \in DOMAIN v[2] =>
                               Kept(v[2][form])
  BY DEF AreKept
<1> DEFINE v == o[key][2][k]
           read == Under(o, key, field, must)
           inner == IF v[1] = "object" /\ field \in DOMAIN v[2] THEN v[2][field] ELSE v
<1>1. o[key] \in Json BY DocumentsAre
<1>2. v \in Json BY <1>1, FilesAssumption
<1>3. v[1] = "object" /\ form \in DOMAIN v[2] => v[2][form] \in Json
  BY <1>2, FilesAssumption
<1>4. ASSUME inner[1] \in Scalars, must => v[1] = "object" /\ field \in DOMAIN v[2]
      PROVE  k \in DOMAIN read /\ read[k] = ScalarText(inner)
  BY <1>4 DEF Under
<1>5. ASSUME form = "alone", v[1] \in Scalars
      PROVE  k \in DOMAIN read /\ Means(v, Literal(read[k]))
  <2>1. ~must /\ v[1] # "object" BY <1>5 DEF Scalars
  <2>2. inner = v BY <2>1
  <2> QED BY <1>2, <1>4, <1>5, <2>1, <2>2, ScalarReads
<1>6. ASSUME v[1] = "object", form \in DOMAIN v[2], v[2][form][1] \in Scalars, form = field
      PROVE  k \in DOMAIN read /\ Means(v[2][form], Literal(read[k]))
  <2>1. inner = v[2][form] BY <1>6
  <2> QED BY <1>3, <1>4, <1>6, <2>1, ScalarReads
<1> QED BY <1>5, <1>6

-----------------------------------------------------------------------------
(* The loop of parseAllSatellites.                                         *)

\* The infos that can be listed.
Infos == {InfoOf(v[2], w[2]) : v \in Json, w \in Json}

\* Of every satellite that has tasks, the info has been listed before, and the
\* tasks are those of the last complete entry that names it.
FilesInv ==
  /\ satellites \in Json /\ document \in Documents /\ pos \in Nat \ {0}
  /\ schedule.infos \in Seq(Infos)
  /\ \A s \in DOMAIN schedule.tasks :
       /\ \E i \in DOMAIN schedule.infos : schedule.infos[i].satellite_id = s
       /\ EntryOf(s) \in Documents
       /\ schedule.tasks[s] = TasksOf(EntryOf(s), s)
  /\ nodes = <<>> \/ (nodes = <<Named(NodeOf[document])>> /\ NodeParses[document])

\* Among the first n of the entries, the complete ones that name s, and the
\* last of them.
Mine(items, n, s) ==
  {i \in 1..n : /\ ~Skipped(items[i])
                /\ items[i][2].satellite_id = String(s)
                /\ InfoParses(items[i][2]) /\ TasksParse(items[i][2])}

LastOf(items, n, s) == items[Max(Mine(items, n, s))][2]

\* EntryOf is this of the entries read.
LEMMA EntryOfLast == \A s : EntryOf(s) = LastOf(satellites[2], pos - 1, s)
BY DEF EntryOf, LastOf, Mine

\* A complete entry is the last of its satellite's so far; to another
\* satellite it makes no difference.
LEMMA NextEntry ==
  ASSUME NEW items, NEW n \in Nat, NEW s
  PROVE  /\ n + 1 \in Mine(items, n + 1, s) => LastOf(items, n + 1, s) = items[n + 1][2]
         /\ n + 1 \notin Mine(items, n + 1, s) => LastOf(items, n + 1, s) = LastOf(items, n, s)
         /\ n + 1 \in Mine(items, n + 1, s) <=>
              /\ ~Skipped(items[n + 1]) /\ items[n + 1][2].satellite_id = String(s)
              /\ InfoParses(items[n + 1][2]) /\ TasksParse(items[n + 1][2])
<1>1. ASSUME n + 1 \in Mine(items, n + 1, s)
      PROVE  LastOf(items, n + 1, s) = items[n + 1][2]
  <2> DEFINE M == Mine(items, n + 1, s)
  <2>1. n + 1 \in M /\ \A j \in M : n + 1 >= j /\ j \in Nat BY <1>1 DEF Mine
  <2> HIDE DEF M
  <2>2. \A x \in M : (\A y \in M : x >= y) => x = n + 1 BY <2>1
  <2>3. Max(M) = n + 1 BY <2>1, <2>2 DEF Max
  <2> QED BY <2>3 DEF M, LastOf
<1>2. ASSUME n + 1 \notin Mine(items, n + 1, s)
      PROVE  LastOf(items, n + 1, s) = LastOf(items, n, s)
  <2>1. Mine(items, n + 1, s) = Mine(items, n, s) BY <1>2 DEF Mine
  <2> QED BY <2>1 DEF LastOf
<1>3. n + 1 \in 1..(n + 1) OBVIOUS
<1> QED BY <1>1, <1>2, <1>3 DEF Mine

\* At first nothing is listed.
LEMMA InitFilesInv == FilesInit => FilesInv
<1> SUFFICES ASSUME FilesInit PROVE FilesInv OBVIOUS
<1>1. satellites \in Json /\ document \in Documents
  BY FilesAssumption DEF FilesInit
<1>2. schedule.infos = <<>> /\ DOMAIN schedule.tasks = {}
  BY DEF FilesInit, Empty
<1>3. pos \in Nat \ {0} /\ nodes = <<>> BY DEF FilesInit
<1>4. schedule.infos \in Seq(Infos) BY <1>2
<1>5. nodes = <<>> \/ (nodes = <<Named(NodeOf[document])>> /\ NodeParses[document])
  BY <1>3
<1>6. \A s \in DOMAIN schedule.tasks : FALSE BY <1>2
<1> QED BY <1>1, <1>3, <1>4, <1>5, <1>6, Zenon DEF FilesInv

\* What one more entry changes.
LEMMA EntryOfNext ==
  ASSUME FilesInv, pos' = pos + 1, UNCHANGED satellites, NEW s
  PROVE  LET entry == satellites[2][pos]
             mine == /\ ~Skipped(entry) /\ entry[2].satellite_id = String(s)
                     /\ InfoParses(entry[2]) /\ TasksParse(entry[2])
         IN  EntryOf(s)' = IF mine THEN entry[2] ELSE EntryOf(s)
<1> DEFINE items == satellites[2]
<1>1. PICK n \in Nat : pos = n + 1 /\ pos - 1 = n /\ (pos + 1) - 1 = n + 1
  <2>1. pos - 1 \in Nat /\ pos = (pos - 1) + 1 /\ (pos + 1) - 1 = (pos - 1) + 1
    BY DEF FilesInv
  <2> QED BY <2>1
<1>2. EntryOf(s) = LastOf(items, n, s) BY <1>1, EntryOfLast
<1>3. EntryOf(s)' = LastOf(items, n + 1, s)
  <2>1. EntryOf(s)' = LastOf(satellites'[2], pos' - 1, s)
    BY DEF EntryOf, LastOf, Mine
  <2> QED BY <1>1, <2>1
<1>4. items[n + 1] = satellites[2][pos] BY <1>1
<1> HIDE DEF items
<1> QED BY <1>2, <1>3, <1>4, NextEntry

\* An entry read leaves every satellite's info and tasks as they should be.
LEMMA ReadEntryInv == ASSUME FilesInv, ReadEntry PROVE FilesInv'
<1> DEFINE entry == satellites[2][pos]
           o == entry[2]
           id == o.satellite_id[2]
           whole == InfoParses(o) /\ TasksParse(o)
<1>1. /\ satellites[1] = "array" /\ pos <= Len(satellites[2])
      /\ pos' = pos + 1 /\ UNCHANGED <<satellites, document, nodes>>
      /\ \/ Skipped(entry) /\ UNCHANGED schedule
         \/ ~IsString(o, "satellite_id") /\ UNCHANGED schedule
         \/ /\ ~Skipped(entry) /\ IsString(o, "satellite_id")
            /\ ParseEntry(o, id)
  BY DEF ReadEntry
<1>2. pos \in Nat \ {0} /\ satellites \in Json /\ document \in Documents
  BY DEF FilesInv
<1>3. entry \in Json
  <2>1. satellites[2] \in Seq(Json) BY <1>1, <1>2, FilesAssumption
  <2>2. pos \in 1..Len(satellites[2]) BY <1>1, <1>2, <2>1
  <2> QED BY <2>1, <2>2
<1>4. \A s : EntryOf(s)' = IF /\ ~Skipped(entry) /\ o.satellite_id = String(s)
                              /\ InfoParses(o) /\ TasksParse(o)
                             THEN o ELSE EntryOf(s)
  BY <1>1, EntryOfNext
<1>5. /\ satellites' \in Json /\ document' \in Documents /\ pos' \in Nat \ {0}
      /\ (nodes = <<>> \/ (nodes = <<Named(NodeOf[document])>> /\ NodeParses[document]))'
  <2>1. (nodes = <<>> \/ (nodes = <<Named(NodeOf[document])>> /\ NodeParses[document]))
    BY DEF FilesInv
  <2> QED BY <1>1, <1>2, <2>1
<1>6. CASE UNCHANGED schedule /\ (Skipped(entry) \/ ~IsString(o, "satellite_id"))
  <2>1. \A s : EntryOf(s)' = EntryOf(s)
    <3>1. ASSUME NEW s PROVE ~(~Skipped(entry) /\ o.satellite_id = String(s))
      <4>1. ASSUME ~Skipped(entry), o.satellite_id = String(s) PROVE FALSE
        <5>1. ~IsString(o, "satellite_id") BY <1>6, <4>1
        <5>2. o.satellite_id[1] = "string" BY <4>1 DEF String
        <5> QED BY <5>1, <5>2 DEF IsString
      <4> QED BY <4>1
    <3> QED BY <1>4, <3>1
  <2> QED BY <1>5, <1>6, <2>1 DEF FilesInv
<1>7. CASE ~Skipped(entry) /\ IsString(o, "satellite_id") /\ ParseEntry(o, id)
  <2>1. entry[1] = "object" /\ o \in Documents
    <3>1. entry[1] = "object" BY <1>7 DEF Skipped
    <3> QED BY <1>3, <3>1 DEF Documents
  <2>2. o.satellite_id \in Json /\ o.satellite_id = String(id)
    <3>1. "satellite_id" \in DOMAIN o
      <4>1. ASSUME "satellite_id" \notin DOMAIN o PROVE Skipped(entry)
        BY <4>1 DEF Skipped, IsString, StringOr
      <4> QED BY <1>7, <4>1
    <3>2. o.satellite_id \in Json BY <2>1, <3>1, DocumentsAre
    <3>3. o.satellite_id[1] = "string" BY <1>7, <3>1 DEF IsString
    <3>4. o.satellite_id = <<o.satellite_id[1], o.satellite_id[2]>>
      BY <3>2, FilesAssumption
    <3> QED BY <3>2, <3>3, <3>4 DEF String
  <2>3. \A s : o.satellite_id = String(s) <=> s = id BY <2>2 DEF String
  <2>4. \A s : EntryOf(s)' = IF s = id /\ whole THEN o ELSE EntryOf(s)
    BY <1>4, <1>7, <2>3
  <2>5. /\ schedule'.infos = IF InfoParses(o) THEN Append(schedule.infos, InfoOf(o, id))
                             ELSE schedule.infos
        /\ schedule'.tasks = IF whole
                               THEN [s \in DOMAIN schedule.tasks \union {id} |->
                                       IF s = id THEN TasksOf(o, id) ELSE schedule.tasks[s]]
                               ELSE schedule.tasks
    BY <1>7 DEF ParseEntry
  <2>6. schedule.infos \in Seq(Infos) BY DEF FilesInv
  <2>7. InfoOf(o, id) \in Infos /\ InfoOf(o, id).satellite_id = id
    <3>1. \A v, w \in Json : InfoOf(v[2], w[2]) \in Infos BY DEF Infos
    <3>2. InfoOf(o, id) \in Infos BY <1>3, <2>2, <3>1
    <3> QED BY <3>2 DEF InfoOf
  <2>8. /\ schedule'.infos \in Seq(Infos)
        /\ \A i \in DOMAIN schedule.infos :
             i \in DOMAIN schedule'.infos /\ schedule'.infos[i] = schedule.infos[i]
        /\ InfoParses(o) => \E i \in DOMAIN schedule'.infos :
                              schedule'.infos[i].satellite_id = id
    <3>1. CASE InfoParses(o)
      <4> DEFINE t == Append(schedule.infos, InfoOf(o, id))
      <4>1. /\ t \in Seq(Infos) /\ Len(t) = Len(schedule.infos) + 1
            /\ t[Len(schedule.infos) + 1] = InfoOf(o, id)
            /\ \A i \in 1..Len(schedule.infos) : t[i] = schedule.infos[i]
        BY <2>6, <2>7, AppendProperties
      <4>2. schedule'.infos = t BY <2>5, <3>1
      <4> HIDE DEF t
      <4>3. Len(schedule.infos) \in Nat /\ DOMAIN schedule.infos = 1..Len(schedule.infos)
            /\ DOMAIN t = 1..Len(t)
        BY <2>6, <4>1
      <4> QED BY <2>7, <4>1, <4>2, <4>3
    <3>2. CASE ~InfoParses(o) BY <2>5, <2>6, <3>2
    <3> QED BY <3>1, <3>2
  <2>9. ASSUME NEW s \in DOMAIN schedule'.tasks
        PROVE  /\ \E i \in DOMAIN schedule'.infos : schedule'.infos[i].satellite_id = s
               /\ EntryOf(s)' \in Documents
               /\ schedule'.tasks[s] = TasksOf(EntryOf(s)', s)
    <3>1. CASE s = id /\ whole BY <2>1, <2>4, <2>5, <2>8, <3>1
    <3>2. CASE ~(s = id /\ whole)
      <4>1. s \in DOMAIN schedule.tasks /\ schedule'.tasks[s] = schedule.tasks[s]
        BY <2>5, <3>2
      <4>2. EntryOf(s)' = EntryOf(s) BY <2>4, <3>2
      <4>3. /\ \E i \in DOMAIN schedule.infos : schedule.infos[i].satellite_id = s
            /\ EntryOf(s) \in Documents /\ schedule.tasks[s] = TasksOf(EntryOf(s), s)
        BY <4>1 DEF FilesInv
      <4> QED BY <2>8, <4>1, <4>2, <4>3
    <3> QED BY <3>1, <3>2
  <2> QED BY <1>5, <2>8, <2>9 DEF FilesInv
<1> QED BY <1>1, <1>6, <1>7

\* So does every step.
LEMMA FilesStepInv == ASSUME FilesInv, [FilesNext]_filesVars PROVE FilesInv'
<1>1. CASE ReadBehavior
  <2>1. /\ nodes' = <<Named(NodeOf[document])>> /\ NodeParses[document]
        /\ UNCHANGED <<document, satellites, pos, schedule>>
    BY <1>1 DEF ReadBehavior
  <2>2. \A s : EntryOf(s)' = EntryOf(s) BY <2>1 DEF EntryOf
  <2> QED BY <2>1, <2>2 DEF FilesInv
<1>2. CASE UNCHANGED filesVars
  <2>1. \A s : EntryOf(s)' = EntryOf(s) BY <1>2 DEF filesVars, EntryOf
  <2> QED BY <1>2, <2>1 DEF FilesInv, filesVars
<1> QED BY <1>1, <1>2, ReadEntryInv DEF FilesNext

-----------------------------------------------------------------------------
(* What the satellites receive.                                            *)

\* Of whom an ACK is expected, the info is listed.
LEMMA SentAreExpected == FilesInv => ExpectedAreSent
<1> SUFFICES ASSUME FilesInv PROVE SentTo = Expected BY DEF ExpectedAreSent
<1>1. \A s \in Expected : \E i \in DOMAIN schedule.infos :
                            schedule.infos[i].satellite_id = s
  BY DEF FilesInv, Expected
<1> QED BY <1>1 DEF SentTo

\* The objects of a document's array are documents themselves.
LEMMA ObjectsOf ==
  ASSUME NEW o \in Documents, NEW key
  PROVE  /\ Objects(o, key) \in Seq(JsonObjects)
         /\ \A i \in DOMAIN Objects(o, key) :
              /\ Objects(o, key)[i][2] \in Documents
              /\ Depth(Objects(o, key)[i]) < Depth(o[key])
<1>1. CASE key \in DOMAIN o /\ o[key][1] = "array"
  <2>1. o[key] \in Json BY <1>1, DocumentsAre
  <2> DEFINE items == o[key][2]
  <2>2. items \in Seq(Json) /\ \A i \in DOMAIN items : Depth(items[i]) < Depth(o[key])
    BY <1>1, <2>1, FilesAssumption
  <2>3. Objects(o, key) = ObjectsIn(items) BY <1>1 DEF Objects
  <2> HIDE DEF items
  <2>4. /\ ObjectsIn(items) \in Seq(JsonObjects)
        /\ \A i \in DOMAIN ObjectsIn(items) :
             \E j \in DOMAIN items : ObjectsIn(items)[i] = items[j]
    BY <2>2, ObjectsInJson
  <2>5. \A i \in DOMAIN ObjectsIn(items) : ObjectsIn(items)[i] \in JsonObjects
    BY <2>4
  <2> QED BY <2>2, <2>3, <2>4, <2>5 DEF JsonObjects, Documents
<1>2. CASE ~(key \in DOMAIN o /\ o[key][1] = "array")
  <2>1. Objects(o, key) = <<>> BY <1>2 DEF Objects
  <2> QED BY <2>1
<1> QED BY <1>1, <1>2

\* A task as BatchJson writes it.
TaskJson(t) ==
  <<"object",
    [segment_id |-> String(t.segment_id), task_id |-> String(t.task_id),
     behavior_ref |-> String(t.behavior_ref),
     behavior_params |-> <<"object", [k \in DOMAIN t.behavior_params |->
                                        String(t.behavior_params[k])]>>]>>

\* A task that was read, written to JSON and read again is the same.
LEMMA TaskAgain ==
  ASSUME NEW o, NEW s
  PROVE  TaskOf(TaskJson(TaskOf(o, s))[2], s) = TaskOf(o, s)
<1> DEFINE t == TaskOf(o, s)
           p == t.behavior_params
           j == TaskJson(t)[2]
           q == [k \in DOMAIN p |-> String(p[k])]
<1>1. /\ t.satellite_id = s
      /\ t = [satellite_id |-> t.satellite_id, segment_id |-> t.segment_id,
              task_id |-> t.task_id, behavior_ref |-> t.behavior_ref,
              behavior_params |-> t.behavior_params]
  BY DEF TaskOf
<1>2. p = [k \in DOMAIN p |-> p[k]] BY DEF TaskOf, ScalarMap
<1> HIDE DEF t
<1>3. j = [segment_id |-> String(t.segment_id), task_id |-> String(t.task_id),
           behavior_ref |-> String(t.behavior_ref), behavior_params |-> <<"object", q>>]
  BY DEF TaskJson
<1> HIDE DEF p, q, j
<1>4. \A x : String(x)[1] = "string" /\ String(x)[2] = x BY DEF String
<1>5. /\ DOMAIN j = {"segment_id", "task_id", "behavior_ref", "behavior_params"}
      /\ j["segment_id"] = String(t.segment_id) /\ j["task_id"] = String(t.task_id)
      /\ j["behavior_ref"] = String(t.behavior_ref)
      /\ j["behavior_params"] = <<"object", q>>
  BY <1>3
<1>6. /\ StringOr(j, "segment_id", <<>>) = t.segment_id
      /\ StringOr(j, "task_id", <<>>) = t.task_id
      /\ StringOr(j, "behavior_ref", <<>>) = t.behavior_ref
  BY <1>4, <1>5 DEF StringOr
<1>7. ScalarMap(j, "behavior_params") = p
  <2>1. DOMAIN q = DOMAIN p /\ \A k \in DOMAIN p : q[k] = String(p[k]) BY DEF q
  <2>2. \A k \in DOMAIN p : q[k][1] \in Scalars /\ ScalarText(q[k]) = p[k]
    BY <1>4, <2>1 DEF Scalars, ScalarText
  <2>3. {n \in DOMAIN q : q[n][1] \in Scalars} = DOMAIN p BY <2>1, <2>2
  <2>4. ScalarMap(j, "behavior_params") =
          [k \in {n \in DOMAIN q : q[n][1] \in Scalars} |-> ScalarText(q[k])]
    BY <1>5 DEF ScalarMap
  <2> QED BY <1>2, <2>2, <2>3, <2>4
<1>8. TaskOf(j, s) = [satellite_id |-> s, segment_id |-> t.segment_id,
              task_id |-> t.task_id, behavior_ref |-> t.behavior_ref,
              behavior_params |-> p]
  BY <1>6, <1>7 DEF TaskOf
<1> QED BY <1>1, <1>8 DEF p, j, t

\* So a satellite's simulator gets what its last complete entry lists.
LEMMA ReceivedAre ==
  ASSUME FilesInv, NEW s \in DOMAIN schedule.tasks
  PROVE  ReceivedTasks(s) = TasksOf(EntryOf(s), s)
<1> DEFINE L == Objects(EntryOf(s), "scheduled_tasks")
           N == Len(L)
           tasks == schedule.tasks[s]
           items == [i \in DOMAIN tasks |-> TaskJson(tasks[i])]
           A == {items[i] : i \in DOMAIN tasks}
<1>1. EntryOf(s) \in Documents /\ tasks = TasksOf(EntryOf(s), s) BY DEF FilesInv
<1>2. L \in Seq(JsonObjects) /\ N \in Nat /\ DOMAIN L = 1..N BY <1>1, ObjectsOf
<1>3. DOMAIN tasks = 1..N /\ \A i \in 1..N : tasks[i] = TaskOf(L[i][2], s)
  BY <1>1, <1>2 DEF TasksOf
<1> HIDE DEF tasks, L, N
<1>4. items \in Seq(A) /\ Len(items) = N /\ \A i \in 1..N : items[i] = TaskJson(tasks[i])
  BY <1>2, <1>3
<1>5. \A i \in 1..N : items[i][1] = "object" BY <1>4 DEF TaskJson
<1>6. Objects(BatchJson(s), "scheduled_tasks") = ObjectsIn(items)
  <2> DEFINE j == BatchJson(s)
  <2>1. j = [satellite_id |-> String(s), scheduled_tasks |-> <<"array", items>>]
    BY DEF BatchJson, TaskJson, tasks
  <2>2. /\ "scheduled_tasks" \in DOMAIN j
        /\ j["scheduled_tasks"] = <<"array", items>>
    BY <2>1
  <2> HIDE DEF j, items
  <2> QED BY <2>2 DEF Objects, j
<1> HIDE DEF A
<1>7. ObjectsIn(items) = items BY <1>4, <1>5, ObjectsInAll
<1> HIDE DEF items
<1>8. ReceivedTasks(s) = [i \in 1..N |-> TaskOf(items[i][2], s)]
  <2>1. DOMAIN items = 1..N BY <1>4
  <2> QED BY <1>6, <1>7, <2>1 DEF ReceivedTasks, TasksOf
<1>9. \A i \in 1..N : TaskOf(items[i][2], s) = TaskOf(L[i][2], s)
  BY <1>3, <1>4, TaskAgain
<1> QED BY <1>2, <1>8, <1>9 DEF TasksOf, L

\* The tasks arrive, and their parameters as values.
LEMMA TasksDoArrive == FilesInv => TasksArrive
<1> SUFFICES ASSUME FilesInv, NEW s \in SentTo
             PROVE  LET listed == Objects(EntryOf(s), "scheduled_tasks")
                        tasks == ReceivedTasks(s)
                    IN  /\ Len(tasks) = Len(listed)
                        /\ \A i \in DOMAIN tasks :
                             LET o == listed[i][2] IN
                             /\ tasks[i].segment_id = StringOr(o, "segment_id", <<>>)
                             /\ tasks[i].behavior_ref = StringOr(o, "behavior_ref", <<>>)
                             /\ AreKept(o, "behavior_params", {"alone"},
                                        tasks[i].behavior_params)
  BY DEF TasksArrive
<1> DEFINE L == Objects(EntryOf(s), "scheduled_tasks")
<1>1. s \in DOMAIN schedule.tasks BY DEF SentTo, Expected
<1>2. EntryOf(s) \in Documents BY <1>1 DEF FilesInv
<1>3. /\ L \in Seq(JsonObjects) /\ DOMAIN L = 1..Len(L) /\ Len(L) \in Nat
      /\ \A i \in 1..Len(L) : L[i][2] \in Documents
  BY <1>2, ObjectsOf
<1>4. ReceivedTasks(s) = [i \in DOMAIN L |-> TaskOf(L[i][2], s)]
  BY <1>1, ReceivedAre DEF TasksOf
<1> HIDE DEF L
<1>5. Len(ReceivedTasks(s)) = Len(L) BY <1>3, <1>4
<1>6. ASSUME NEW i \in DOMAIN ReceivedTasks(s)
      PROVE  LET o == L[i][2]
                 t == ReceivedTasks(s)[i] IN
             /\ t.segment_id = StringOr(o, "segment_id", <<>>)
             /\ t.behavior_ref = StringOr(o, "behavior_ref", <<>>)
             /\ AreKept(o, "behavior_params", {"alone"}, t.behavior_params)
  <2>1. i \in 1..Len(L) /\ ReceivedTasks(s)[i] = TaskOf(L[i][2], s)
    BY <1>3, <1>4
  <2>2. AreKept(L[i][2], "behavior_params", {"alone"}, ScalarMap(L[i][2], "behavior_params"))
    BY <1>3, <2>1, ScalarMapKeeps
  <2> QED BY <2>1, <2>2 DEF TaskOf
<1> QED BY <1>5, <1>6 DEF L

-----------------------------------------------------------------------------
(* Behaviours: the recursive functions exist, depth by depth.              *)

\* How deep a document is, and which are less deep than k.
DocDepth(o) == Depth(<<"object", o>>)
Below(k) == {o \in Documents : DocDepth(o) < k}

\* The i-th child that is written in o.
Child(o, i) == Objects(o, "children")[i][2]

\* A document is deeper than its children.
LEMMA ChildIsBelow ==
  ASSUME NEW o \in Documents, NEW i \in DOMAIN Objects(o, "children")
  PROVE  /\ Child(o, i) \in Documents
         /\ DocDepth(Child(o, i)) \in Nat /\ DocDepth(o) \in Nat
         /\ DocDepth(Child(o, i)) < DocDepth(o)
<1> DEFINE c == Objects(o, "children")[i]
<1>1. PICK v \in Json : v[1] = "object" /\ o = v[2] BY DEF Documents
<1>2. v = <<"object", o>> BY <1>1, FilesAssumption
<1>3. "children" \in DOMAIN o
  <2>1. ASSUME "children" \notin DOMAIN o PROVE FALSE BY <2>1 DEF Objects
  <2> QED BY <2>1
<1>4. Depth(o["children"]) < Depth(v) /\ o["children"] \in Json
  BY <1>1, <1>3, FilesAssumption
<1>5. /\ Objects(o, "children") \in Seq(JsonObjects)
      /\ c[2] \in Documents /\ Depth(c) < Depth(o["children"])
  BY ObjectsOf
<1>6. c \in JsonObjects BY <1>5
<1>7. c \in Json /\ c[1] = "object" BY <1>6 DEF JsonObjects
<1>8. c = <<"object", c[2]>> BY <1>7, FilesAssumption
<1> HIDE DEF c
<1>9. /\ Depth(c) \in 0..MaxDepth /\ Depth(v) \in 0..MaxDepth
      /\ Depth(o["children"]) \in 0..MaxDepth /\ MaxDepth \in Nat
  BY <1>4, <1>7, FilesAssumption
<1>10. Depth(c) < Depth(v) /\ Depth(c) \in Nat /\ Depth(v) \in Nat
  BY <1>4, <1>5, <1>9
<1>11. DocDepth(c[2]) = Depth(c) /\ DocDepth(o) = Depth(v)
  BY <1>2, <1>8 DEF DocDepth
<1> QED BY <1>5, <1>10, <1>11 DEF Child, c

\* Every document has a depth, and so the documents are those below MaxDepth + 1.
LEMMA DepthIsNat == ASSUME NEW o \in Documents PROVE DocDepth(o) \in 0..MaxDepth
<1>1. PICK v \in Json : v[1] = "object" /\ o = v[2] BY DEF Documents
<1>2. v = <<"object", o>> BY <1>1, FilesAssumption
<1> QED BY <1>1, <1>2, FilesAssumption DEF DocDepth

LEMMA AllBelow == Below(MaxDepth + 1) = Documents /\ Below(0) = {}
<1>1. MaxDepth \in Nat BY FilesAssumption
<1> QED BY <1>1, DepthIsNat DEF Below

\* The children of one below n + 1 are below n.
LEMMA BelowChild ==
  ASSUME NEW n \in Nat, NEW o \in Below(n + 1), NEW i \in DOMAIN Objects(o, "children")
  PROVE  Child(o, i) \in Below(n)
<1>1. o \in Documents /\ DocDepth(o) < n + 1 BY DEF Below
<1> QED BY <1>1, ChildIsBelow DEF Below

LEMMA BelowMore ==
  ASSUME NEW n \in Nat, NEW o \in Below(n)
  PROVE  o \in Below(n + 1)
<1>1. MaxDepth \in Nat BY FilesAssumption
<1> QED BY <1>1, DepthIsNat DEF Below

\* What NodeOf makes of o, if it makes of the children what f does.
NodeFrom(f, o) ==
  [name |-> StringOr(o, "name", <<>>),
   type |-> TypeOf(StringOr(o, "type", <<Word("Action")>>)),
   command |-> StringOr(o, "command", <<>>),
   expression |-> StringOr(o, "expression", <<>>),
   params |-> ScalarMap(o, "params"),
   variable_inits |-> VariableInits(o),
   constants |-> Constants(o),
   observation |-> Observation(o),
   children |-> [i \in DOMAIN Objects(o, "children") |->
                   f[Objects(o, "children")[i][2]]]]

\* Only what it does to the children matters.
LEMMA NodeFromSame ==
  ASSUME NEW f, NEW g, NEW o,
         \A i \in DOMAIN Objects(o, "children") : f[Child(o, i)] = g[Child(o, i)]
  PROVE  NodeFrom(f, o) = NodeFrom(g, o)
BY DEF NodeFrom, Child

\* Such a function there is for the documents of every depth.
LEMMA NodeOfExists ==
  ASSUME NEW k \in Nat
  PROVE  \E f : f = [o \in Below(k) |-> NodeFrom(f, o)]
<1> DEFINE S == {n \in Nat : \E f : f = [o \in Below(n) |-> NodeFrom(f, o)]}
<1>1. 0 \in S
  <2>1. Below(0) = {} BY AllBelow
  <2> DEFINE f == [o \in {} |-> 0]
  <2>2. f = [o \in Below(0) |-> NodeFrom(f, o)] BY <2>1
  <2> QED BY <2>2
<1>2. ASSUME NEW n \in S PROVE n + 1 \in S
  <2>1. PICK f : f = [o \in Below(n) |-> NodeFrom(f, o)] OBVIOUS
  <2> DEFINE g == [o \in Below(n + 1) |->
                     IF o \in Below(n) THEN f[o] ELSE NodeFrom(f, o)]
  <2>2. \A o \in Below(n) : o \in Below(n + 1)
    <3>1. MaxDepth \in Nat BY FilesAssumption
    <3> QED BY <3>1, DepthIsNat DEF Below
  <2>3. \A o \in Below(n) : f[o] = NodeFrom(f, o) BY <2>1
  <2>4. \A o \in Below(n) : g[o] = f[o] BY <2>2
  <2>5. \A o \in Below(n + 1) : g[o] = NodeFrom(f, o) BY <2>3
  <2>6. ASSUME NEW o \in Below(n + 1) PROVE NodeFrom(f, o) = NodeFrom(g, o)
    <3>1. ASSUME NEW i \in DOMAIN Objects(o, "children")
          PROVE  Child(o, i) \in Below(n)
      <4>1. o \in Documents /\ DocDepth(o) < n + 1 BY DEF Below
      <4> QED BY <4>1, ChildIsBelow DEF Below
    <3>2. \A i \in DOMAIN Objects(o, "children") : f[Child(o, i)] = g[Child(o, i)]
      BY <2>4, <3>1
    <3> QED BY <3>2, NodeFromSame
  <2>7. g = [o \in Below(n + 1) |-> g[o]] OBVIOUS
  <2> HIDE DEF g
  <2>8. g = [o \in Below(n + 1) |-> NodeFrom(g, o)] BY <2>5, <2>6, <2>7
  <2> QED BY <2>8
<1> HIDE DEF S
<1>3. S = Nat BY <1>1, <1>2, NatSet DEF S
<1> QED BY <1>3 DEF S

\* So NodeOf satisfies its equation.
LEMMA NodeOfIs == \A o \in Documents : NodeOf[o] = NodeFrom(NodeOf, o)
<1>1. \E f : f = [o \in Documents |-> NodeFrom(f, o)]
  <2>1. MaxDepth + 1 \in Nat BY FilesAssumption
  <2> QED BY <2>1, NodeOfExists, AllBelow
<1>2. NodeOf = [o \in Documents |-> NodeFrom(NodeOf, o)]
  BY <1>1 DEF NodeOf, NodeFrom
<1> QED BY <1>2

\* The same for NodeParses.
ParseFrom(f, o) ==
  /\ \A key \in {"name", "type", "description", "command", "expression"} : IsString(o, key)
  /\ \A i \in DOMAIN Objects(o, "children") : f[Objects(o, "children")[i][2]]

\* Only what it says of the children matters.
LEMMA ParseFromSame ==
  ASSUME NEW f, NEW g, NEW o,
         \A i \in DOMAIN Objects(o, "children") : f[Child(o, i)] = g[Child(o, i)]
  PROVE  ParseFrom(f, o) = ParseFrom(g, o)
<1>1. \A i \in DOMAIN Objects(o, "children") :
        f[Objects(o, "children")[i][2]] <=> g[Objects(o, "children")[i][2]]
  BY DEF Child
<1> QED BY <1>1 DEF ParseFrom

\* There is one for the documents of every depth.
LEMMA NodeParsesExists ==
  ASSUME NEW k \in Nat
  PROVE  \E f : f = [o \in Below(k) |-> ParseFrom(f, o)]
<1> DEFINE S == {n \in Nat : \E f : f = [o \in Below(n) |-> ParseFrom(f, o)]}
<1>1. 0 \in S
  <2>1. Below(0) = {} BY AllBelow
  <2> DEFINE f == [o \in {} |-> TRUE]
  <2>2. f = [o \in Below(0) |-> ParseFrom(f, o)] BY <2>1
  <2> QED BY <2>2
<1>2. ASSUME NEW n \in S PROVE n + 1 \in S
  <2>1. PICK f : f = [o \in Below(n) |-> ParseFrom(f, o)] OBVIOUS
  <2> DEFINE g == [o \in Below(n + 1) |-> ParseFrom(f, o)]
  <2>2. \A o \in Below(n) : f[o] = ParseFrom(f, o) BY <2>1
  <2>3. \A o \in Below(n) : g[o] = f[o] BY <2>2, BelowMore
  <2>4. \A o \in Below(n + 1) : g[o] = ParseFrom(f, o) OBVIOUS
  <2>5. g = [o \in Below(n + 1) |-> g[o]] OBVIOUS
  <2> HIDE DEF g
  <2>6. ASSUME NEW o \in Below(n + 1) PROVE ParseFrom(f, o) = ParseFrom(g, o)
    <3>1. \A i \in DOMAIN Objects(o, "children") : f[Child(o, i)] = g[Child(o, i)]
      BY <2>3, BelowChild
    <3> QED BY <3>1, ParseFromSame
  <2>8. g = [o \in Below(n + 1) |-> ParseFrom(g, o)] BY <2>4, <2>5, <2>6
  <2> QED BY <2>8
<1> HIDE DEF S
<1>3. S = Nat BY <1>1, <1>2, NatSet DEF S
<1> QED BY <1>3 DEF S

\* So NodeParses satisfies its equation.
LEMMA NodeParsesIs ==
  \A o \in Documents : NodeParses[o] = ParseFrom(NodeParses, o)
<1>1. \E f : f = [o \in Documents |-> ParseFrom(f, o)]
  <2>1. MaxDepth + 1 \in Nat BY FilesAssumption
  <2> QED BY <2>1, NodeParsesExists, AllBelow
<1>2. NodeParses = [o \in Documents |-> ParseFrom(NodeParses, o)]
  BY <1>1 DEF NodeParses, ParseFrom
<1> QED BY <1>2

\* The same for NodesThatKeep.
KeepFrom(f, o) ==
  {n \in BehaviorNodes :
     /\ AreKept(o, "params", {"alone"}, n.params)
     /\ AreKept(o, "constants", {"alone", "value"}, n.constants)
     /\ AreKept(o, "variables", {"init"}, n.variable_inits)
     /\ DOMAIN n.children = DOMAIN Objects(o, "children")
     /\ \A i \in DOMAIN Objects(o, "children") :
          n.children[i] \in f[Objects(o, "children")[i][2]]}

\* Only what it says of the children matters.
LEMMA KeepFromSame ==
  ASSUME NEW f, NEW g, NEW o,
         \A i \in DOMAIN Objects(o, "children") : f[Child(o, i)] = g[Child(o, i)]
  PROVE  KeepFrom(f, o) = KeepFrom(g, o)
<1>1. \A i \in DOMAIN Objects(o, "children") :
        f[Objects(o, "children")[i][2]] = g[Objects(o, "children")[i][2]]
  BY DEF Child
<1> QED BY <1>1 DEF KeepFrom

\* There is one for the documents of every depth.
LEMMA NodesThatKeepExists ==
  ASSUME NEW k \in Nat
  PROVE  \E f : f = [o \in Below(k) |-> KeepFrom(f, o)]
<1> DEFINE S == {n \in Nat : \E f : f = [o \in Below(n) |-> KeepFrom(f, o)]}
<1>1. 0 \in S
  <2>1. Below(0) = {} BY AllBelow
  <2> DEFINE f == [o \in {} |-> TRUE]
  <2>2. f = [o \in Below(0) |-> KeepFrom(f, o)] BY <2>1
  <2> QED BY <2>2
<1>2. ASSUME NEW n \in S PROVE n + 1 \in S
  <2>1. PICK f : f = [o \in Below(n) |-> KeepFrom(f, o)] OBVIOUS
  <2> DEFINE g == [o \in Below(n + 1) |-> KeepFrom(f, o)]
  <2>2. \A o \in Below(n) : f[o] = KeepFrom(f, o) BY <2>1
  <2>3. \A o \in Below(n) : g[o] = f[o] BY <2>2, BelowMore
  <2>4. \A o \in Below(n + 1) : g[o] = KeepFrom(f, o) OBVIOUS
  <2>5. g = [o \in Below(n + 1) |-> g[o]] OBVIOUS
  <2> HIDE DEF g
  <2>6. ASSUME NEW o \in Below(n + 1) PROVE KeepFrom(f, o) = KeepFrom(g, o)
    <3>1. \A i \in DOMAIN Objects(o, "children") : f[Child(o, i)] = g[Child(o, i)]
      BY <2>3, BelowChild
    <3> QED BY <3>1, KeepFromSame
  <2>8. g = [o \in Below(n + 1) |-> KeepFrom(g, o)] BY <2>4, <2>5, <2>6
  <2> QED BY <2>8
<1> HIDE DEF S
<1>3. S = Nat BY <1>1, <1>2, NatSet DEF S
<1> QED BY <1>3 DEF S

\* So NodesThatKeep satisfies its equation.
LEMMA NodesThatKeepIs ==
  \A o \in Documents : NodesThatKeep[o] = KeepFrom(NodesThatKeep, o)
<1>1. \E f : f = [o \in Documents |-> KeepFrom(f, o)]
  <2>1. MaxDepth + 1 \in Nat BY FilesAssumption
  <2> QED BY <2>1, NodesThatKeepExists, AllBelow
<1>2. NodesThatKeep = [o \in Documents |-> KeepFrom(NodesThatKeep, o)]
  BY <1>1 DEF NodesThatKeep, KeepFrom
<1> QED BY <1>2

-----------------------------------------------------------------------------
(* What a behaviour's nodes keep.                                          *)

\* What parses is kept, at every depth.
LEMMA NodesDoKeep ==
  \A o \in Documents : NodeParses[o] => NodeOf[o] \in NodesThatKeep[o]
<1> DEFINE S == {n \in Nat : \A o \in Below(n) :
                               NodeParses[o] => NodeOf[o] \in NodesThatKeep[o]}
<1>1. 0 \in S BY AllBelow
<1>2. ASSUME NEW n \in S PROVE n + 1 \in S
  <2> SUFFICES ASSUME NEW o \in Below(n + 1), NodeParses[o]
               PROVE  NodeOf[o] \in NodesThatKeep[o]
    OBVIOUS
  <2> DEFINE node == NodeOf[o]
             I == DOMAIN Objects(o, "children")
  <2>1. o \in Documents /\ n \in Nat BY DEF Below
  <2>2. node = NodeFrom(NodeOf, o) BY <2>1, NodeOfIs
  <2>3. node \in BehaviorNodes BY <2>1 DEF BehaviorNodes
  <2> HIDE DEF node
  <2>4. /\ node.params = ScalarMap(o, "params") /\ node.constants = Constants(o)
        /\ node.variable_inits = VariableInits(o)
        /\ node.children = [i \in I |-> NodeOf[Objects(o, "children")[i][2]]]
    BY <2>2 DEF NodeFrom
  <2>5. AreKept(o, "params", {"alone"}, node.params)
    BY <2>1, <2>4, ScalarMapKeeps
  <2>6. AreKept(o, "constants", {"alone", "value"}, node.constants)
    BY <2>1, <2>4, UnderKeeps DEF Constants
  <2>7. AreKept(o, "variables", {"init"}, node.variable_inits)
    BY <2>1, <2>4, UnderKeeps DEF VariableInits
  <2>8. ASSUME NEW i \in I
        PROVE  node.children[i] \in NodesThatKeep[Objects(o, "children")[i][2]]
    <3>1. Child(o, i) \in Below(n) BY <2>1, BelowChild
    <3>2. NodeParses[Child(o, i)]
      <4>1. ParseFrom(NodeParses, o) BY <2>1, NodeParsesIs
      <4> QED BY <4>1 DEF ParseFrom, Child
    <3>3. NodeOf[Child(o, i)] \in NodesThatKeep[Child(o, i)] BY <3>1, <3>2
    <3>4. node.children[i] = NodeOf[Child(o, i)] BY <2>4 DEF Child
    <3> QED BY <3>3, <3>4 DEF Child
  <2>9. DOMAIN node.children = I BY <2>4
  <2>10. node \in KeepFrom(NodesThatKeep, o)
    BY <2>3, <2>5, <2>6, <2>7, <2>8, <2>9 DEF KeepFrom
  <2> QED BY <2>1, <2>10, NodesThatKeepIs DEF node
<1> HIDE DEF S
<1>3. S = Nat BY <1>1, <1>2, NatSet DEF S
<1>4. MaxDepth + 1 \in Nat BY FilesAssumption
<1>5. \A o \in Below(MaxDepth + 1) : NodeParses[o] => NodeOf[o] \in NodesThatKeep[o]
  BY <1>3, <1>4 DEF S
<1> QED BY <1>5, AllBelow

\* So is the behaviour that was read.
LEMMA BehaviorsDoKeep == FilesInv => BehaviorKeepsValues
<1> SUFFICES ASSUME FilesInv, NEW i \in DOMAIN nodes
             PROVE  \E node \in NodesThatKeep[document] : nodes[i] = Named(node)
  BY DEF BehaviorKeepsValues
<1>1. nodes = <<Named(NodeOf[document])>> /\ NodeParses[document] /\ document \in Documents
  BY DEF FilesInv
<1>2. nodes[i] = Named(NodeOf[document]) BY <1>1
<1> QED BY <1>1, <1>2, NodesDoKeep

-----------------------------------------------------------------------------
(* The theorems.                                                           *)

\* The invariant of the loop holds throughout.
LEMMA FilesAlways == FilesSpec => []FilesInv
BY InitFilesInv, FilesStepInv, PTL DEF FilesSpec

\* Coordinator::run waits for the ACK of no satellite that it cannot send a
\* batch to, wherever an exception has stopped parseAllSatellites.
THEOREM ExpectedSent == FilesSpec => []ExpectedAreSent
BY FilesAlways, SentAreExpected, PTL

\* What serializeBatchTaskAssign writes and the simulator parses is the last
\* complete entry of the satellite: its tasks in order, and their parameters
\* with the values that the schedule gives them.
THEOREM ListedArrive == FilesSpec => []TasksArrive
BY FilesAlways, TasksDoArrive, PTL

\* parseNodeFromJson loses no initial value, constant or parameter, at any
\* depth and in any of the forms it accepts.
THEOREM BehaviorsKeep == FilesSpec => []BehaviorKeepsValues
BY FilesAlways, BehaviorsDoKeep, PTL
=============================================================================
