----------------------------- MODULE RingLemmas -----------------------------
(***************************************************************************)
(* What the proofs about the rings share, for every width: distances       *)
(* between wrapping positions and the slots they fall into, and sequences, *)
(* with what Only selects from them.                                       *)
(***************************************************************************)
EXTENDS Counters, Selection, SequenceTheorems, WellFoundedInduction, TLAPS

-----------------------------------------------------------------------------
(* Distances.                                                              *)

\* A difference of two positions is again a number below the width.
LEMMA SubType ==
  ASSUME NEW a \in Counter, NEW b \in Counter
  PROVE  Sub(a, b) \in Counter
BY ModulusAssumption DEF Counter, Sub

\* Distance is zero exactly when the positions coincide.
LEMMA SubZero ==
  ASSUME NEW a \in Counter, NEW b \in Counter
  PROVE  Sub(a, b) = 0 <=> a = b
BY ModulusAssumption DEF Counter, Sub

\* Advancing the front position by one adds one to the distance, short of a
\* full turn.
LEMMA SubAddFront ==
  ASSUME NEW a \in Counter, NEW b \in Counter, Sub(a, b) + 1 < Modulus
  PROVE  /\ Add(a, 1) \in Counter
         /\ Sub(Add(a, 1), b) = Sub(a, b) + 1
BY ModulusAssumption DEF Counter, Sub, Add

\* Advancing the rear position by one takes one from the distance, unless
\* the rear has caught up.
LEMMA SubAddRear ==
  ASSUME NEW a \in Counter, NEW b \in Counter, a # b
  PROVE  /\ Add(b, 1) \in Counter
         /\ Sub(a, Add(b, 1)) = Sub(a, b) - 1
BY ModulusAssumption DEF Counter, Sub, Add

\* Stepping back from a position stays in range.
LEMMA SubOneType ==
  ASSUME NEW a \in Counter, 1 < Modulus
  PROVE  Sub(a, 1) \in Counter
BY ModulusAssumption DEF Counter, Sub

\* Going on from a position by n adds n to the distance, short of a full turn.
LEMMA SubAdd ==
  ASSUME NEW a \in Counter, NEW b \in Counter, NEW n \in Nat,
         Sub(a, b) + n < Modulus
  PROVE  Add(a, n) \in Counter /\ Sub(Add(a, n), b) = Sub(a, b) + n
BY ModulusAssumption DEF Counter, Sub, Add

\* Seen from a position that lies between, the distance is the rest of it.
LEMMA SubChain ==
  ASSUME NEW a \in Counter, NEW b \in Counter, NEW h \in Counter,
         Sub(h, b) <= Sub(a, b)
  PROVE  Sub(a, h) = Sub(a, b) - Sub(h, b)
BY ModulusAssumption DEF Counter, Sub

\* Two positions at the same distance are the same.
LEMMA SubInjective ==
  ASSUME NEW a \in Counter, NEW b \in Counter, NEW c \in Counter,
         Sub(a, b) = Sub(c, b)
  PROVE  a = c
BY ModulusAssumption DEF Counter, Sub

\* One forward and one back.
LEMMA AddSubOne ==
  ASSUME NEW a \in Counter, 1 < Modulus
  PROVE  Sub(Add(a, 1), 1) = a /\ Add(Sub(a, 1), 1) = a
BY ModulusAssumption DEF Counter, Sub, Add

\* One step back takes one from the distance, short of the rear.
LEMMA SubBack ==
  ASSUME NEW a \in Counter, NEW b \in Counter, a # b, 1 < Modulus
  PROVE  Sub(Sub(a, 1), b) = Sub(a, b) - 1
BY ModulusAssumption DEF Counter, Sub

\* Two steps of one are a step of two.
LEMMA AddTwo ==
  ASSUME NEW a \in Counter, 2 <= Modulus
  PROVE  Add(Add(a, 1), 1) = Add(a, 2)
BY ModulusAssumption DEF Counter, Add

\* The position n + 1 after one is the position n after the next.
LEMMA AddNext ==
  ASSUME NEW b \in Counter, NEW n \in Nat, n + 1 < Modulus
  PROVE  Add(Add(b, 1), n) = Add(b, n + 1)
BY ModulusAssumption DEF Counter, Add

\* So is a step of m and one of n, short of a full turn.
LEMMA AddAdd ==
  ASSUME NEW b \in Counter, NEW m \in Nat, NEW n \in Nat, m + n < Modulus
  PROVE  Add(b, m) \in Counter /\ Add(Add(b, m), n) = Add(b, m + n)
BY ModulusAssumption DEF Counter, Add

-----------------------------------------------------------------------------
(* Slots.                                                                  *)

\* A natural number is a quotient and a remainder.
LEMMA Quotient ==
  ASSUME NEW e \in Nat \ {0}, NEW x \in Nat
  PROVE  /\ x \div e \in Int
         /\ x % e \in 0 .. e - 1
         /\ x = e * (x \div e) + (x % e)
OBVIOUS

\* A multiple of e closer to zero than e is zero.
LEMMA SmallMultiple ==
  ASSUME NEW e \in Nat \ {0}, NEW q \in Int, e * q < e, -e < e * q
  PROVE  q = 0
<1>1. CASE q >= 1
  <2>1. e * q >= e
      BY <1>1
  <2> QED
      BY <2>1
<1>2. CASE q <= -1
  <2>1. e * q <= -e
      BY <1>2
  <2> QED
      BY <2>1
<1> QED
    BY <1>1, <1>2

\* Going on from a position by the distance to another arrives there.
LEMMA AddDistance ==
  ASSUME NEW a \in Counter, NEW b \in Counter
  PROVE  Add(b, Sub(a, b)) = a
BY ModulusAssumption DEF Counter, Add, Sub

\* Positions less than a ring length apart have different slots, also when the
\* word wraps between them.
LEMMA RemaindersDistinct ==
  ASSUME NEW N \in Nat \ {0}, N < Modulus, Modulus % N = 0,
         NEW h \in Counter, NEW i \in 0 .. N - 1, NEW j \in 0 .. N - 1,
         Add(h, i) % N = Add(h, j) % N
  PROVE  i = j
<1> DEFINE a == Add(h, i)
           b == Add(h, j)
           m == i - j
<1>1. N \in Nat \ {0} /\ Modulus \in Nat /\ N < Modulus
    BY ModulusAssumption
<1>2. a \in Nat /\ b \in Nat
    BY <1>1 DEF Add, Counter
<1>3. PICK k \in Int : Modulus = N * k
  <2>1. Modulus \div N \in Int /\ Modulus = N * (Modulus \div N)
      BY <1>1, Quotient
  <2> QED
      BY <2>1
<1>4. PICK d \in Int : a - b = N * d
  <2>1. PICK u \in Int, v \in Int, s \in Int : a = N * u + s /\ b = N * v + s
    <3>1. a = N * (a \div N) + (a % N) /\ b = N * (b \div N) + (b % N)
      <4> HIDE DEF a, b
      <4> QED
          BY <1>2, Quotient
    <3>2. a % N = b % N /\ a % N \in Int /\ a \div N \in Int /\ b \div N \in Int
      <4>1. a % N = b % N
          OBVIOUS
      <4> HIDE DEF a, b
      <4> QED
          BY <1>2, <4>1, Quotient
    <3> QED
        BY <3>1, <3>2
  <2> HIDE DEF a, b
  <2>2. a - b = N * (u - v)
      BY <1>1, <2>1
  <2> QED
      BY <2>2
<1>5. a - b \in {m, m - Modulus, m + Modulus}
    BY <1>1 DEF Add, Counter
<1>6. PICK q \in Int : m = N * q
  <2> HIDE DEF a, b
  <2>1. CASE a - b = m
      BY <1>4, <2>1
  <2>2. CASE a - b = m - Modulus
    <3>1. m = N * (d + k)
        BY <1>1, <1>3, <1>4, <2>2
    <3> QED
        BY <3>1
  <2>3. CASE a - b = m + Modulus
    <3>1. m = N * (d - k)
        BY <1>1, <1>3, <1>4, <2>3
    <3> QED
        BY <3>1
  <2> QED
      BY <1>5, <2>1, <2>2, <2>3
<1>7. q = 0
    BY <1>1, <1>6, SmallMultiple
<1> QED
    BY <1>1, <1>6, <1>7

-----------------------------------------------------------------------------
(* Part of a ring as a sequence.                                           *)

\* A function on 1 .. n is a sequence of length n.
LEMMA FunctionIsSeq ==
  ASSUME NEW S, NEW n \in Nat, NEW f \in [1 .. n -> S]
  PROVE  f \in Seq(S) /\ Len(f) = n
<1>1. f \in Seq(S)
    BY SeqDef
<1>2. DOMAIN f = 1 .. Len(f) /\ Len(f) \in Nat
    BY <1>1, LenProperties
<1>3. 1 .. Len(f) = 1 .. n
    BY <1>2
<1> QED
    BY <1>1, <1>2, <1>3

\* A beginning of a sequence.
LEMMA SubSeqOne ==
  ASSUME NEW S, NEW s, NEW n \in Nat, \A i \in 1 .. n : s[i] \in S
  PROVE  /\ SubSeq(s, 1, n) \in Seq(S) /\ Len(SubSeq(s, 1, n)) = n
         /\ \A i \in 1 .. n : SubSeq(s, 1, n)[i] = s[i]
<1> DEFINE p == SubSeq(s, 1, n)
<1>1. /\ p \in Seq(S) /\ Len(p) = IF 1 <= n THEN n - 1 + 1 ELSE 0
      /\ \A i \in 1 .. n - 1 + 1 : p[i] = s[1 + i - 1]
  BY SubSeqProperties
<1> HIDE DEF p
<1>2. \A i \in 1 .. n : p[i] = s[i]
  BY <1>1
<1> QED BY <1>1, <1>2 DEF p

-----------------------------------------------------------------------------
(* Induction.  The library's theorems take an operator, which no prover    *)
(* here can supply; these take a set.                                      *)

\* Induction over the natural numbers, for a set of them.
LEMMA NumbersByInduction ==
  ASSUME NEW T \in SUBSET Nat, 0 \in T, \A n \in T : n + 1 \in T
  PROVE  \A n \in Nat : n \in T
<1> DEFINE Less == {p \in Nat \X Nat : p[1] < p[2]}
           Rem  == Nat \ T
<1>1. IsWellFoundedOn(Less, Nat)
  BY NatLessThanWellFounded DEF OpToRel
<1>2. SUFFICES ASSUME Rem # {} PROVE FALSE
  OBVIOUS
<1>3. PICK n \in Rem : \A m \in Rem : <<m, n>> \notin Less
  <2>1. Rem \subseteq Nat
    OBVIOUS
  <2> HIDE DEF Less, Rem
  <2> QED BY <1>1, <1>2, <2>1, WFMin
<1>4. n \in Nat /\ n # 0
  OBVIOUS
<1>5. n - 1 \in Nat /\ <<n - 1, n>> \in Less
  BY <1>4
<1>6. n - 1 \in T
  BY <1>3, <1>5
<1> QED BY <1>4, <1>5, <1>6

\* Induction over sequences, for a set of them.
LEMMA SequencesByInduction ==
  ASSUME NEW V, NEW T \in SUBSET Seq(V), << >> \in T,
         \A s \in T : \A x \in V : Append(s, x) \in T
  PROVE  \A s \in Seq(V) : s \in T
<1> DEFINE L == {n \in Nat : \A s \in Seq(V) : Len(s) = n => s \in T}
<1>1. 0 \in L
  <2>1. ASSUME NEW s \in Seq(V), Len(s) = 0 PROVE s = << >>
    BY <2>1, EmptySeq
  <2> QED BY <2>1
<1>2. ASSUME NEW n \in L PROVE n + 1 \in L
  <2>1. ASSUME NEW s \in Seq(V), Len(s) = n + 1 PROVE s \in T
    <3>1. s # << >>
      BY <2>1, EmptySeq
    <3>2. PICK r \in Seq(V), x \in V : s = Append(r, x)
      BY <3>1, SequenceEmptyOrAppend
    <3>3. Len(r) = n
      <4>1. Len(s) = Len(r) + 1 /\ Len(r) \in Nat
        BY <3>2, AppendProperties, LenProperties
      <4> QED BY <4>1, <2>1
    <3>4. r \in T
      BY <3>3
    <3> QED BY <3>2, <3>4
  <2> QED BY <2>1
<1>3. \A n \in Nat : n \in L
  <2> HIDE DEF L
  <2>1. L \subseteq Nat
    BY DEF L
  <2> QED BY <1>1, <1>2, <2>1, NumbersByInduction
<1>4. ASSUME NEW s \in Seq(V) PROVE s \in T
  <2>1. Len(s) \in L
    BY <1>3, LenProperties
  <2> QED BY <2>1
<1> QED BY <1>4

-----------------------------------------------------------------------------
(* Selection.                                                              *)

\* The definition of the recursive function in Only, on 0 .. n.
Chosen(f, s, S, n) ==
  f = [i \in 0 .. n |->
         IF i = 0 THEN << >>
         ELSE IF s[i] \in S THEN Append(f[i - 1], s[i]) ELSE f[i - 1]]

LEMMA ChosenExists ==
  ASSUME NEW s, NEW S, NEW n \in Nat
  PROVE  \E f : Chosen(f, s, S, n)
<1> DEFINE T == {k \in Nat : \E f : Chosen(f, s, S, k)}
<1>1. 0 \in T
  <2>1. Chosen([i \in 0 .. 0 |-> << >>], s, S, 0)
    BY DEF Chosen
  <2> QED BY <2>1
<1>2. ASSUME NEW k \in T PROVE k + 1 \in T
  <2>1. PICK f : Chosen(f, s, S, k)
    OBVIOUS
  <2> DEFINE new == IF s[k + 1] \in S THEN Append(f[k], s[k + 1]) ELSE f[k]
             g   == [i \in 0 .. k + 1 |-> IF i = k + 1 THEN new ELSE f[i]]
  <2>2. ASSUME NEW i \in 0 .. k + 1
        PROVE  g[i] = IF i = 0 THEN << >>
                      ELSE IF s[i] \in S THEN Append(g[i - 1], s[i])
                      ELSE g[i - 1]
    <3>1. CASE i = k + 1
      <4>1. i # 0 /\ i - 1 = k /\ g[i - 1] = f[k] /\ g[i] = new
        BY <3>1
      <4> HIDE DEF g
      <4> QED BY <4>1, <3>1
    <3>2. CASE i # k + 1
      <4>1. i \in 0 .. k
        BY <3>2
      <4>2. g[i] = f[i] /\ (i # 0 => g[i - 1] = f[i - 1])
        BY <3>2, <4>1
      <4>3. f[i] = IF i = 0 THEN << >>
                   ELSE IF s[i] \in S THEN Append(f[i - 1], s[i]) ELSE f[i - 1]
        BY <2>1, <4>1 DEF Chosen
      <4> HIDE DEF g
      <4> QED BY <4>2, <4>3
    <3> QED BY <3>1, <3>2
  <2>3. Chosen(g, s, S, k + 1)
    <3>1. g = [i \in 0 .. k + 1 |-> g[i]]
      OBVIOUS
    <3> HIDE DEF g
    <3> QED BY <2>2, <3>1 DEF Chosen
  <2> HIDE DEF g
  <2> QED BY <2>3
<1>3. T \subseteq Nat
  OBVIOUS
<1> HIDE DEF T
<1>4. n \in T
  BY <1>1, <1>2, <1>3, NumbersByInduction
<1> QED BY <1>4 DEF T

\* Two such functions agree as far as their sequences do.
LEMMA ChosenUnique ==
  ASSUME NEW s, NEW t, NEW S, NEW m \in Nat, NEW n \in 0 .. m,
         NEW f, Chosen(f, s, S, n), NEW g, Chosen(g, t, S, m),
         \A i \in 1 .. n : s[i] = t[i]
  PROVE  f[n] = g[n]
<1> DEFINE T == {k \in Nat : k <= n => f[k] = g[k]}
<1>1. 0 \in T
  BY DEF Chosen
<1>2. ASSUME NEW k \in T PROVE k + 1 \in T
  <2>1. SUFFICES ASSUME k + 1 <= n PROVE f[k + 1] = g[k + 1]
    OBVIOUS
  <2>2. k + 1 \in 0 .. n /\ k + 1 \in 0 .. m /\ k + 1 # 0 /\ (k + 1) - 1 = k
    BY <2>1
  <2>3. f[k + 1] = IF s[k + 1] \in S THEN Append(f[k], s[k + 1]) ELSE f[k]
    BY <2>2 DEF Chosen
  <2>4. g[k + 1] = IF t[k + 1] \in S THEN Append(g[k], t[k + 1]) ELSE g[k]
    BY <2>2 DEF Chosen
  <2>5. s[k + 1] = t[k + 1] /\ f[k] = g[k]
    BY <2>1
  <2> QED BY <2>3, <2>4, <2>5
<1>3. T \subseteq Nat
  OBVIOUS
<1> HIDE DEF T
<1>4. n \in T
  BY <1>1, <1>2, <1>3, NumbersByInduction
<1> QED BY <1>4 DEF T

LEMMA OnlyChosen ==
  ASSUME NEW s, NEW S, Len(s) \in Nat
  PROVE  \E f : Chosen(f, s, S, Len(s)) /\ Only(s, S) = f[Len(s)]
<1> DEFINE f == CHOOSE f : Chosen(f, s, S, Len(s))
<1>1. Only(s, S) = f[Len(s)]
  BY DEF Only, Chosen
<1>2. Chosen(f, s, S, Len(s))
  BY ChosenExists
<1> QED BY <1>1, <1>2

LEMMA OnlyEmpty ==
  ASSUME NEW S
  PROVE  Only(<< >>, S) = << >>
<1>1. Len(<< >>) = 0
  BY EmptySeq
<1>2. PICK f : Chosen(f, << >>, S, 0) /\ Only(<< >>, S) = f[0]
  BY <1>1, OnlyChosen
<1> QED BY <1>2 DEF Chosen

LEMMA OnlyAppend ==
  ASSUME NEW V, NEW S, NEW s \in Seq(V), NEW x \in V
  PROVE  Only(Append(s, x), S)
           = IF x \in S THEN Append(Only(s, S), x) ELSE Only(s, S)
<1> DEFINE t == Append(s, x)
           n == Len(s)
<1>1. /\ n \in Nat /\ t \in Seq(V) /\ Len(t) = n + 1 /\ t[n + 1] = x
      /\ \A i \in 1 .. n : s[i] = t[i]
  BY LenProperties, AppendProperties
<1> HIDE DEF t, n
<1>2. PICK f : Chosen(f, s, S, n) /\ Only(s, S) = f[n]
  BY <1>1, OnlyChosen DEF n
<1>3. PICK g : Chosen(g, t, S, n + 1) /\ Only(t, S) = g[n + 1]
  BY <1>1, OnlyChosen
<1>4. f[n] = g[n]
  <2>1. n + 1 \in Nat /\ n \in 0 .. n + 1
    BY <1>1
  <2> QED BY <1>1, <1>2, <1>3, <2>1, ChosenUnique
<1>5. g[n + 1] = IF t[n + 1] \in S THEN Append(g[n], t[n + 1]) ELSE g[n]
  <2>1. n + 1 \in 0 .. n + 1 /\ n + 1 # 0 /\ (n + 1) - 1 = n
    BY <1>1
  <2> QED BY <1>3, <2>1 DEF Chosen
<1> QED BY <1>1, <1>2, <1>3, <1>4, <1>5 DEF t

\* What is selected is from the set, and no more than there was.
LEMMA OnlyType ==
  ASSUME NEW V, NEW S, NEW s \in Seq(V)
  PROVE  Only(s, S) \in Seq(S \cap V) /\ Len(Only(s, S)) <= Len(s)
<1> DEFINE T == {r \in Seq(V) : /\ Only(r, S) \in Seq(S \cap V)
                                /\ Len(Only(r, S)) <= Len(r)}
<1>1. << >> \in T
  <2>1. << >> \in Seq(V) /\ << >> \in Seq(S \cap V) /\ Len(<< >>) <= Len(<< >>)
    BY EmptySeq
  <2>2. Only(<< >>, S) = << >>
    BY OnlyEmpty
  <2>3. Only(<< >>, S) \in Seq(S \cap V) /\ Len(Only(<< >>, S)) <= Len(<< >>)
    BY <2>1, <2>2, Zenon
  <2> QED BY <2>1, <2>3, Zenon
<1>2. ASSUME NEW r \in T, NEW x \in V PROVE Append(r, x) \in T
  <2>1. /\ Append(r, x) \in Seq(V)
        /\ Len(Append(r, x)) = Len(r) + 1 /\ Len(r) \in Nat
    BY AppendProperties, LenProperties
  <2>2. CASE x \in S
    <3>1. Only(Append(r, x), S) = Append(Only(r, S), x)
      BY <2>2, OnlyAppend
    <3>2. /\ Append(Only(r, S), x) \in Seq(S \cap V)
          /\ Len(Append(Only(r, S), x)) = Len(Only(r, S)) + 1
          /\ Len(Only(r, S)) \in Nat
      BY <2>2, AppendProperties, LenProperties
    <3> QED BY <2>1, <3>1, <3>2
  <2>3. CASE x \notin S
    <3>1. Only(Append(r, x), S) = Only(r, S) /\ Len(Only(r, S)) \in Nat
      BY <2>3, OnlyAppend, LenProperties
    <3> QED BY <2>1, <3>1
  <2> QED BY <2>2, <2>3
<1>3. s \in T
  <2>1. T \in SUBSET Seq(V)
    OBVIOUS
  <2> HIDE DEF T
  <2> QED BY <1>1, <1>2, <2>1, SequencesByInduction
<1> QED BY <1>3

\* Adding at the end of a concatenation.
LEMMA ConcatAppend ==
  ASSUME NEW V, NEW u \in Seq(V), NEW v \in Seq(V), NEW x \in V
  PROVE  u \o Append(v, x) = Append(u \o v, x)
<1>1. <<x>> \in Seq(V) /\ u \o v \in Seq(V)
  BY ConcatProperties
<1>2. Append(v, x) = v \o <<x>>
  BY AppendIsConcat
<1>3. Append(u \o v, x) = (u \o v) \o <<x>>
  BY <1>1, AppendIsConcat
<1>4. \A w \in Seq(V) : (u \o v) \o w = u \o (v \o w)
  BY ConcatAssociative
<1> QED BY <1>1, <1>2, <1>3, <1>4

\* A concatenation falls apart into what it was made of.
LEMMA ConcatSplit ==
  ASSUME NEW V, NEW u \in Seq(V), NEW v \in Seq(V)
  PROVE  /\ Len(u) \in 0 .. Len(u \o v)
         /\ SubSeq(u \o v, 1, Len(u)) = u
         /\ SubSeq(u \o v, Len(u) + 1, Len(u \o v)) = v
<1> DEFINE w == u \o v
           m == Len(u)
           n == Len(v)
           a == SubSeq(w, 1, m)
           b == SubSeq(w, m + 1, m + n)
<1>1. m \in Nat /\ n \in Nat
  BY LenProperties
<1>2. /\ w \in Seq(V) /\ Len(w) = m + n
      /\ \A i \in 1 .. m + n : w[i] = IF i <= m THEN u[i] ELSE v[i - m]
  BY ConcatProperties
<1> HIDE DEF w
<1>3. \A i \in 1 .. m + n : w[i] \in V
  BY <1>2, ElementOfSeq
<1>4. a \in Seq(V) /\ Len(a) = m /\ \A i \in 1 .. m : a[i] = w[i]
  <2>1. \A i \in 1 .. m : w[i] \in V
    BY <1>1, <1>3
  <2> HIDE DEF m
  <2>2. /\ a \in Seq(V) /\ Len(a) = IF 1 <= m THEN m - 1 + 1 ELSE 0
        /\ \A i \in 1 .. m - 1 + 1 : a[i] = w[1 + i - 1]
    BY <1>1, <2>1, SubSeqProperties
  <2> HIDE DEF a
  <2> QED BY <1>1, <2>2
<1>5. b \in Seq(V) /\ Len(b) = n /\ \A i \in 1 .. n : b[i] = w[m + i]
  <2>1. \A i \in m + 1 .. m + n : w[i] \in V
    BY <1>1, <1>3
  <2> HIDE DEF m, n
  <2>2. /\ b \in Seq(V)
        /\ Len(b) = IF m + 1 <= m + n THEN (m + n) - (m + 1) + 1 ELSE 0
        /\ \A i \in 1 .. (m + n) - (m + 1) + 1 : b[i] = w[(m + 1) + i - 1]
    BY <1>1, <2>1, SubSeqProperties
  <2> HIDE DEF b
  <2>3. ASSUME NEW i \in 1 .. n PROVE b[i] = w[m + i]
    <3>1. i \in 1 .. (m + n) - (m + 1) + 1 /\ (m + 1) + i - 1 = m + i
      BY <1>1
    <3> QED BY <2>2, <3>1
  <2> QED BY <1>1, <2>2, <2>3
<1> HIDE DEF m, n, a, b
<1>6. a = u
  <2>1. \A i \in 1 .. m : a[i] = u[i]
    BY <1>1, <1>2, <1>4
  <2> QED BY <1>4, <2>1, SeqEqual DEF m
<1>7. b = v
  <2>1. ASSUME NEW i \in 1 .. n PROVE b[i] = v[i]
    <3>1. m + i \in 1 .. m + n /\ ~(m + i <= m) /\ (m + i) - m = i
      BY <1>1
    <3> QED BY <1>2, <1>5, <3>1
  <2> QED BY <1>5, <2>1, SeqEqual DEF n
<1>8. m \in 0 .. m + n
  BY <1>1
<1> QED BY <1>2, <1>6, <1>7, <1>8 DEF a, b, m, n, w

\* Selecting from one after the other.
LEMMA OnlyConcat ==
  ASSUME NEW V, NEW S, NEW s \in Seq(V), NEW t \in Seq(V)
  PROVE  Only(s \o t, S) = Only(s, S) \o Only(t, S)
<1> DEFINE T == {r \in Seq(V) : Only(s \o r, S) = Only(s, S) \o Only(r, S)}
<1>0. ASSUME NEW r \in Seq(V)
      PROVE  Only(r, S) \in Seq(V)
  <2>1. Only(r, S) \in Seq(S \cap V)
    BY OnlyType
  <2> QED BY <2>1, SeqMonotonic
<1>1. << >> \in T
  <2>1. << >> \in Seq(V)
    BY EmptySeq
  <2>2. s \o << >> = s /\ Only(s, S) \o << >> = Only(s, S)
    BY <1>0, ConcatEmptySeq
  <2> QED BY <2>1, <2>2, OnlyEmpty
<1>2. ASSUME NEW r \in T, NEW x \in V PROVE Append(r, x) \in T
  <2>1. Append(r, x) \in Seq(V) /\ s \o r \in Seq(V)
    BY AppendProperties, ConcatProperties
  <2>3. s \o Append(r, x) = Append(s \o r, x)
    BY ConcatAppend
  <2>4. Only(Append(s \o r, x), S)
          = IF x \in S THEN Append(Only(s \o r, S), x) ELSE Only(s \o r, S)
    <3>1. ASSUME NEW w \in Seq(V)
          PROVE  Only(Append(w, x), S)
                   = IF x \in S THEN Append(Only(w, S), x) ELSE Only(w, S)
      BY OnlyAppend
    <3> QED BY <2>1, <3>1
  <2>5. Only(Append(r, x), S)
          = IF x \in S THEN Append(Only(r, S), x) ELSE Only(r, S)
    BY OnlyAppend
  <2>6. Only(s, S) \o Append(Only(r, S), x)
          = Append(Only(s, S) \o Only(r, S), x)
    BY <1>0, ConcatAppend
  <2>7. Only(s \o r, S) = Only(s, S) \o Only(r, S)
    OBVIOUS
  <2>8. Only(s \o Append(r, x), S) = Only(s, S) \o Only(Append(r, x), S)
    BY <2>3, <2>4, <2>5, <2>6, <2>7
  <2> QED BY <2>1, <2>8
<1>3. t \in T
  <2>1. T \in SUBSET Seq(V)
    OBVIOUS
  <2> HIDE DEF T
  <2> QED BY <1>1, <1>2, <2>1, SequencesByInduction
<1> QED BY <1>3

\* Two sets that differ in nothing that occurs select the same.
LEMMA OnlySame ==
  ASSUME NEW V, NEW S, NEW R, NEW s \in Seq(V),
         \A x \in V : x \in S <=> x \in R
  PROVE  Only(s, S) = Only(s, R)
<1> DEFINE T == {r \in Seq(V) : Only(r, S) = Only(r, R)}
<1>1. << >> \in T
  BY EmptySeq, OnlyEmpty
<1>2. ASSUME NEW r \in T, NEW x \in V PROVE Append(r, x) \in T
  <2>1. Append(r, x) \in Seq(V)
    BY AppendProperties
  <2>2. Only(Append(r, x), S)
          = IF x \in S THEN Append(Only(r, S), x) ELSE Only(r, S)
    BY OnlyAppend
  <2>3. Only(Append(r, x), R)
          = IF x \in R THEN Append(Only(r, R), x) ELSE Only(r, R)
    BY OnlyAppend
  <2>4. Only(r, S) = Only(r, R) /\ (x \in S <=> x \in R)
    OBVIOUS
  <2>5. Only(Append(r, x), S) = Only(Append(r, x), R)
    BY <2>2, <2>3, <2>4, Zenon
  <2> QED BY <2>1, <2>5
<1>3. s \in T
  <2>1. T \in SUBSET Seq(V)
    OBVIOUS
  <2> HIDE DEF T
  <2> QED BY <1>1, <1>2, <2>1, SequencesByInduction
<1> QED BY <1>3

\* Selecting from a sequence of one.
LEMMA OnlyOne ==
  ASSUME NEW S, NEW x
  PROVE  Only(<<x>>, S) = IF x \in S THEN <<x>> ELSE << >>
<1>1. << >> \in Seq({x}) /\ x \in {x}
  BY EmptySeq
<1>2. Append(<< >>, x) = <<x>>
  BY <1>1
<1>3. Only(Append(<< >>, x), S)
        = IF x \in S THEN Append(Only(<< >>, S), x) ELSE Only(<< >>, S)
  BY <1>1, OnlyAppend
<1> QED BY <1>2, <1>3, OnlyEmpty

\* Of elements of the set alone everything is selected.
LEMMA OnlyAll ==
  ASSUME NEW V, NEW S, NEW s \in Seq(V), \A i \in 1 .. Len(s) : s[i] \in S
  PROVE  Only(s, S) = s
<1> DEFINE T == {r \in Seq(V) : (\A i \in 1 .. Len(r) : r[i] \in S)
                                  => Only(r, S) = r}
<1>1. << >> \in T
  BY EmptySeq, OnlyEmpty
<1>2. ASSUME NEW r \in T, NEW x \in V PROVE Append(r, x) \in T
  <2> DEFINE t == Append(r, x)
  <2>1. /\ t \in Seq(V) /\ Len(t) = Len(r) + 1 /\ Len(r) \in Nat
        /\ \A i \in 1 .. Len(r) : t[i] = r[i]
        /\ t[Len(r) + 1] = x
    BY AppendProperties, LenProperties
  <2>2. Only(t, S) = IF x \in S THEN Append(Only(r, S), x) ELSE Only(r, S)
    BY OnlyAppend
  <2>3. ASSUME \A i \in 1 .. Len(t) : t[i] \in S PROVE Only(t, S) = t
    <3> HIDE DEF t
    <3>1. Len(r) + 1 \in 1 .. Len(t) /\ x \in S
      BY <2>1, <2>3
    <3>2. \A i \in 1 .. Len(r) : r[i] \in S
      BY <2>1, <2>3
    <3>3. Only(r, S) = r
      BY <3>2
    <3> QED BY <2>2, <3>1, <3>3 DEF t
  <2> QED BY <2>1, <2>3
<1>3. s \in T
  <2>1. T \in SUBSET Seq(V)
    OBVIOUS
  <2> HIDE DEF T
  <2> QED BY <1>1, <1>2, <2>1, SequencesByInduction
<1> QED BY <1>3
=============================================================================
