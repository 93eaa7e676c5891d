--------------------------- MODULE BufRingProofs ----------------------------
(***************************************************************************)
(* For every width, ring size, set of buffers no larger than the ring and  *)
(* bound on completions: each buffer stays in one place, so the ring never *)
(* overflows although nothing counts its free slots, and the kernel picks  *)
(* buffers in the order they were added, each once.                        *)
(*                                                                         *)
(* The argument goes round once.  That no buffer is in two places bounds   *)
(* the ring by the number of buffers; so the slot buf_ring_add writes is   *)
(* none that still holds a buffer; so the ring, read as a queue, only has  *)
(* the new buffer appended; so no buffer gets into two places.             *)
(*                                                                         *)
(* The second part is about what a multishot recvmsg leaves in a buffer:   *)
(* for fields and control messages of any length the recvmsg_* helpers     *)
(* find what the kernel wrote.  The last part is about the slots of the    *)
(* SQE array, which nobody clears: what the prep_* helpers leave in them.  *)
(***************************************************************************)
EXTENDS BufRing, RecvMsg, SqePrep, RingLemmas, SequenceTheorems, FiniteSetTheorems

\* A sequence of buffers without repetition.
Once(s) == /\ s \in Seq(Bids)
           /\ \A i, j \in 1 .. Len(s) : s[i] = s[j] => i = j

\* Four holders that share out the buffers: the application, the ring, the
\* operations, the completions.
Partition(m, q, f, u) ==
  /\ Once(q) /\ Once(u)
  /\ m \cup ToSet(q) \cup f \cup ToSet(u) = Bids
  /\ m \cap ToSet(q) = {} /\ m \cap f = {} /\ m \cap ToSet(u) = {}
  /\ ToSet(q) \cap f = {} /\ ToSet(q) \cap ToSet(u) = {} /\ f \cap ToSet(u) = {}

From(s, k) == SubSeq(s, k + 1, Len(s))
Unseen     == From(cqes, seen)

\* What each stage of the set-up has achieved; outside of a working ring there
\* is no buffer in it.
Stage ==
  /\ pc = "none" => ~mapped /\ ~registered
  /\ pc = "register" => ~registered /\ (mapped <=> user_mem)
  /\ pc = "map" => registered /\ ~mapped /\ ~user_mem
  /\ pc \in {"ready", "cq_advance"} => registered /\ mapped
  /\ pc = "unmap" => ~registered /\ mapped
  /\ pc \notin {"ready", "cq_advance"} => tail = khead
  /\ pc # "ready" => added = 0

\* What is in the ring, published or not, fits.
Fits == Available + added \in 0 .. Entries

IInv == TypeOK /\ Stage /\ Fits /\ Partition(mine, InRing, inflight, Unseen)

-----------------------------------------------------------------------------
(* Sequences without repetition and their sets.                            *)

\* The elements by index.
LEMMA ToSetOf ==
  ASSUME NEW s \in Seq(Bids)
  PROVE  /\ ToSet(s) = {s[i] : i \in 1 .. Len(s)}
         /\ ToSet(s) \subseteq Bids
<1>1. DOMAIN s = 1 .. Len(s)
  BY LenProperties
<1> QED BY <1>1, ElementOfSeq DEF ToSet

\* Adding what is not there.
LEMMA OnceAppend ==
  ASSUME NEW s, Once(s), NEW b \in Bids, b \notin ToSet(s)
  PROVE  /\ Once(Append(s, b))
         /\ ToSet(Append(s, b)) = ToSet(s) \cup {b}
         /\ Len(Append(s, b)) = Len(s) + 1
<1> DEFINE t == Append(s, b)
<1>1. /\ s \in Seq(Bids) /\ t \in Seq(Bids) /\ Len(s) \in Nat /\ Len(t) = Len(s) + 1
      /\ \A i \in 1 .. Len(s) : t[i] = s[i]
      /\ t[Len(s) + 1] = b
  BY AppendProperties, LenProperties DEF Once
<1>2. /\ ToSet(s) = {s[i] : i \in 1 .. Len(s)}
      /\ ToSet(t) = {t[i] : i \in 1 .. Len(t)}
  BY <1>1, ToSetOf
<1> HIDE DEF t
<1>3. ASSUME NEW i \in 1 .. Len(t), NEW j \in 1 .. Len(t), t[i] = t[j]
      PROVE  i = j
  BY <1>1, <1>2, <1>3 DEF Once
<1>4. ToSet(t) = ToSet(s) \cup {b}
  <2>1. 1 .. Len(t) = (1 .. Len(s)) \cup {Len(s) + 1}
    BY <1>1
  <2> QED BY <1>1, <1>2, <2>1
<1> QED BY <1>1, <1>3, <1>4 DEF t, Once

\* Taking the first away.
LEMMA OnceRest ==
  ASSUME NEW s, Once(s), Len(s) > 0
  PROVE  /\ s[1] \in ToSet(s) /\ s[1] \in Bids
         /\ Once(SubSeq(s, 2, Len(s)))
         /\ ToSet(SubSeq(s, 2, Len(s))) = ToSet(s) \ {s[1]}
<1> DEFINE t == SubSeq(s, 2, Len(s))
<1>1. s \in Seq(Bids) /\ Len(s) \in Nat
  BY LenProperties DEF Once
<1>2. \A i \in 1 .. Len(s) : s[i] \in Bids
  BY <1>1, ElementOfSeq
<1>3. /\ t \in Seq(Bids)
      /\ Len(t) = Len(s) - 1
      /\ \A i \in 1 .. Len(s) - 1 : t[i] = s[i + 1]
  <2>1. /\ t \in Seq(Bids)
        /\ Len(t) = IF 2 <= Len(s) THEN Len(s) - 2 + 1 ELSE 0
        /\ \A i \in 1 .. Len(s) - 2 + 1 : t[i] = s[2 + i - 1]
    BY <1>1, <1>2, SubSeqProperties
  <2> HIDE DEF t
  <2>2. Len(t) = Len(s) - 1
    <3>1. Len(t) = IF 2 <= Len(s) THEN Len(s) - 2 + 1 ELSE 0
      BY <2>1
    <3> DEFINE n == Len(s)
    <3>2. n \in Nat /\ n > 0
      BY <1>1
    <3> HIDE DEF n
    <3>3. Len(t) = IF 2 <= n THEN n - 2 + 1 ELSE 0
      BY <3>1 DEF n
    <3>4. Len(t) = n - 1
      BY <3>2, <3>3
    <3> QED BY <3>4 DEF n
  <2>3. ASSUME NEW i \in 1 .. Len(s) - 1 PROVE t[i] = s[i + 1]
    <3>1. i \in 1 .. Len(s) - 2 + 1 /\ 2 + i - 1 = i + 1
      BY <1>1
    <3> QED BY <2>1, <3>1
  <2> QED BY <2>1, <2>2, <2>3
<1>4. /\ ToSet(s) = {s[i] : i \in 1 .. Len(s)}
      /\ ToSet(t) = {t[i] : i \in 1 .. Len(t)}
  BY <1>1, <1>3, ToSetOf
<1> HIDE DEF t
<1>5. ASSUME NEW i \in 1 .. Len(t), NEW j \in 1 .. Len(t), t[i] = t[j]
      PROVE  i = j
  <2>1. s[i + 1] = s[j + 1] /\ i + 1 \in 1 .. Len(s) /\ j + 1 \in 1 .. Len(s)
    BY <1>1, <1>3, <1>5
  <2> QED BY <2>1 DEF Once
<1>6. ToSet(t) = ToSet(s) \ {s[1]}
  <2>1. ASSUME NEW b \in ToSet(t) PROVE b \in ToSet(s) \ {s[1]}
    <3>1. PICK i \in 1 .. Len(t) : b = t[i]
      BY <1>4
    <3>2. b = s[i + 1] /\ i + 1 \in 1 .. Len(s) /\ i + 1 # 1 /\ 1 \in 1 .. Len(s)
      BY <1>1, <1>3, <3>1
    <3> QED BY <1>4, <3>2 DEF Once
  <2>2. ASSUME NEW b \in ToSet(s) \ {s[1]} PROVE b \in ToSet(t)
    <3>1. PICK i \in 1 .. Len(s) : b = s[i]
      BY <1>4
    <3>2. i - 1 \in 1 .. Len(t) /\ t[i - 1] = b
      BY <1>1, <1>3, <2>2, <3>1
    <3> QED BY <1>4, <3>2
  <2> QED BY <2>1, <2>2
<1>7. s[1] \in ToSet(s) /\ s[1] \in Bids
  BY <1>1, <1>2, <1>4
<1> QED BY <1>3, <1>5, <1>6, <1>7 DEF t, Once

\* As many elements as places.
LEMMA OnceCount ==
  ASSUME NEW s, Once(s)
  PROVE  /\ IsFiniteSet(ToSet(s)) /\ Len(s) \in Nat
         /\ Cardinality(ToSet(s)) = Len(s)
<1>1. s \in Seq(Bids) /\ Len(s) \in Nat /\ s \in [1 .. Len(s) -> Bids]
  BY LenProperties DEF Once
<1>2. ToSet(s) = {s[i] : i \in 1 .. Len(s)}
  BY <1>1, ToSetOf
<1>3. s \in [1 .. Len(s) -> ToSet(s)]
  BY <1>1, <1>2
<1>4. s \in Bijection(1 .. Len(s), ToSet(s))
  BY <1>2, <1>3 DEF Once, Bijection, Injection, Surjection, IsInjective
<1>5. ExistsBijection(1 .. Len(s), ToSet(s))
  BY <1>4 DEF ExistsBijection
<1> QED BY <1>1, <1>5, FS_CountingElements, FS_NatBijection

-----------------------------------------------------------------------------
(* Buffers changing hands.                                                 *)

Rest(s) == SubSeq(s, 2, Len(s))

\* Disjoint sets add up.
LEMMA DisjointCount ==
  ASSUME NEW S, NEW T, IsFiniteSet(S), IsFiniteSet(T), S \cap T = {}
  PROVE  IsFiniteSet(S \cup T) /\ Cardinality(S \cup T) = Cardinality(S) + Cardinality(T)
<1>1. /\ IsFiniteSet(S \cup T)
      /\ Cardinality(S \cup T)
           = Cardinality(S) + Cardinality(T) - Cardinality(S \cap T)
  BY FS_Union
<1>2. Cardinality(S \cap T) = 0
  BY FS_EmptySet
<1>3. Cardinality(S) \in Nat /\ Cardinality(T) \in Nat
  BY FS_CardinalityType
<1> QED BY <1>1, <1>2, <1>3

\* All of them, counted.
LEMMA PartitionCount ==
  ASSUME NEW m, NEW q, NEW f, NEW u, Partition(m, q, f, u)
  PROVE  /\ Cardinality(m) + Len(q) + Cardinality(f) + Len(u) = Cardinality(Bids)
         /\ Len(q) \in 0 .. Entries
<1>1. IsFiniteSet(Bids) /\ Cardinality(Bids) \in Nat
  BY BufAssumption, FS_CardinalityType
<1>2. /\ IsFiniteSet(ToSet(q)) /\ Len(q) \in Nat /\ Cardinality(ToSet(q)) = Len(q)
      /\ IsFiniteSet(ToSet(u)) /\ Len(u) \in Nat /\ Cardinality(ToSet(u)) = Len(u)
  BY OnceCount DEF Partition
<1>3. m \in SUBSET Bids /\ f \in SUBSET Bids
  BY DEF Partition
<1>4. /\ IsFiniteSet(m) /\ IsFiniteSet(f)
      /\ Cardinality(m) \in Nat /\ Cardinality(f) \in Nat
  BY <1>1, <1>3, FS_Subset, FS_CardinalityType
<1>5. /\ IsFiniteSet(m \cup ToSet(q))
      /\ Cardinality(m \cup ToSet(q)) = Cardinality(m) + Len(q)
  BY <1>2, <1>4, DisjointCount DEF Partition
<1>6. /\ IsFiniteSet(f \cup ToSet(u))
      /\ Cardinality(f \cup ToSet(u)) = Cardinality(f) + Len(u)
  BY <1>2, <1>4, DisjointCount DEF Partition
<1>7. /\ (m \cup ToSet(q)) \cap (f \cup ToSet(u)) = {}
      /\ (m \cup ToSet(q)) \cup (f \cup ToSet(u)) = Bids
  BY DEF Partition
<1>8. Cardinality(Bids) = Cardinality(m \cup ToSet(q)) + Cardinality(f \cup ToSet(u))
  BY <1>5, <1>6, <1>7, DisjointCount
<1> QED BY <1>1, <1>2, <1>4, <1>5, <1>6, <1>8, BufAssumption

\* While a buffer is not in the ring, the ring has room for it.
LEMMA PartitionRoom ==
  ASSUME NEW m, NEW q, NEW f, NEW u, Partition(m, q, f, u),
         NEW b \in Bids, b \notin ToSet(q)
  PROVE  Len(q) \in 0 .. Entries - 1
<1>1. Once(q)
  BY DEF Partition
<1>2. Once(Append(q, b)) /\ Len(Append(q, b)) = Len(q) + 1
  BY <1>1, OnceAppend
<1>3. ToSet(Append(q, b)) \in SUBSET Bids
  BY <1>2, ToSetOf DEF Once
<1>4. IsFiniteSet(Bids) /\ Cardinality(Bids) \in Nat
  BY BufAssumption, FS_CardinalityType
<1>5. Cardinality(ToSet(Append(q, b))) <= Cardinality(Bids)
  BY <1>3, <1>4, FS_Subset
<1>6. Cardinality(ToSet(Append(q, b))) = Len(q) + 1
  BY <1>2, OnceCount
<1>7. Len(q) \in Nat
  BY <1>1, OnceCount
<1> QED BY <1>4, <1>5, <1>6, <1>7, BufAssumption

\* From the application to the ring.
LEMMA ProvideMoves ==
  ASSUME NEW m, NEW q, NEW f, NEW u, Partition(m, q, f, u), NEW b \in m
  PROVE  b \in Bids /\ b \notin ToSet(q) /\ Partition(m \ {b}, Append(q, b), f, u)
<1>1. b \in Bids /\ b \notin ToSet(q)
  BY DEF Partition
<1>2. Once(Append(q, b)) /\ ToSet(Append(q, b)) = ToSet(q) \cup {b}
  BY <1>1, OnceAppend DEF Partition
<1> QED BY <1>1, <1>2 DEF Partition

\* From a completion to the ring, or to the application.
LEMMA HandledMoves ==
  ASSUME NEW m, NEW q, NEW f, NEW u, Partition(m, q, f, u), Len(u) > 0
  PROVE  /\ u[1] \in Bids /\ u[1] \notin ToSet(q)
         /\ Partition(m, Append(q, u[1]), f, Rest(u))
         /\ Partition(m \cup {u[1]}, q, f, Rest(u))
<1>1. /\ u[1] \in ToSet(u) /\ u[1] \in Bids
      /\ Once(Rest(u)) /\ ToSet(Rest(u)) = ToSet(u) \ {u[1]}
  BY OnceRest DEF Partition, Rest
<1>2. u[1] \notin ToSet(q) /\ u[1] \notin m /\ u[1] \notin f
  BY <1>1 DEF Partition
<1>3. Once(Append(q, u[1])) /\ ToSet(Append(q, u[1])) = ToSet(q) \cup {u[1]}
  BY <1>1, <1>2, OnceAppend DEF Partition
<1> QED BY <1>1, <1>2, <1>3 DEF Partition

\* From the ring to an operation.
LEMMA PickMoves ==
  ASSUME NEW m, NEW q, NEW f, NEW u, Partition(m, q, f, u), Len(q) > 0
  PROVE  q[1] \in Bids /\ Partition(m, Rest(q), f \cup {q[1]}, u)
<1>1. /\ q[1] \in ToSet(q) /\ q[1] \in Bids
      /\ Once(Rest(q)) /\ ToSet(Rest(q)) = ToSet(q) \ {q[1]}
  BY OnceRest DEF Partition, Rest
<1> QED BY <1>1 DEF Partition

\* From an operation to its completion.
LEMMA CompleteMoves ==
  ASSUME NEW m, NEW q, NEW f, NEW u, Partition(m, q, f, u), NEW b \in f
  PROVE  Partition(m, q, f \ {b}, Append(u, b))
<1>1. b \in Bids /\ b \notin ToSet(u)
  BY DEF Partition
<1>2. Once(Append(u, b)) /\ ToSet(Append(u, b)) = ToSet(u) \cup {b}
  BY <1>1, OnceAppend DEF Partition
<1> QED BY <1>1, <1>2 DEF Partition

\* All of the ring back to the application.
LEMMA UnregisterMoves ==
  ASSUME NEW m, NEW q, NEW f, NEW u, Partition(m, q, f, u)
  PROVE  Partition(m \cup ToSet(q), << >>, f, u)
<1>1. << >> \in Seq(Bids) /\ Len(<< >>) = 0
  BY EmptySeq
<1>2. ToSet(<< >>) = {}
  <2>1. 1 .. Len(<< >>) = {}
    BY <1>1
  <2>2. ToSet(<< >>) = {<< >>[i] : i \in 1 .. Len(<< >>)}
    BY <1>1, ToSetOf
  <2> QED BY <2>1, <2>2
<1>3. Once(<< >>)
  BY <1>1 DEF Once
<1> QED BY <1>2, <1>3 DEF Partition

-----------------------------------------------------------------------------
(* The ring as a queue.                                                    *)

\* n slots from a position on.
Window(b, h, n) == [i \in 1 .. n |-> b[Slot(Add(h, i - 1))]]

Slots == [0 .. mask -> Bids \cup {NoBid}]

LEMMA SlotType ==
  ASSUME NEW c \in Counter
  PROVE  Slot(c) \in 0 .. mask
<1>1. Entries \in Nat \ {0} /\ c \in Nat
  BY BufAssumption, ModulusAssumption DEF Counter
<1> QED BY <1>1, Quotient DEF Slot, mask

LEMMA AddType ==
  ASSUME NEW h \in Counter, NEW i \in 0 .. Entries
  PROVE  Add(h, i) \in Counter
BY BufAssumption, ModulusAssumption DEF Counter, Add

\* A window is a sequence.
LEMMA WindowSeq ==
  ASSUME NEW b \in Slots, NEW h \in Counter, NEW n \in 0 .. Entries
  PROVE  /\ Window(b, h, n) \in Seq(Bids \cup {NoBid})
         /\ Len(Window(b, h, n)) = n
         /\ \A i \in 1 .. n : Window(b, h, n)[i] = b[Slot(Add(h, i - 1))]
<1>1. Entries \in Nat /\ n \in Nat
  BY BufAssumption
<1>2. ASSUME NEW i \in 1 .. n PROVE b[Slot(Add(h, i - 1))] \in Bids \cup {NoBid}
  <2>1. i - 1 \in 0 .. Entries
    BY <1>1
  <2>2. Slot(Add(h, i - 1)) \in 0 .. mask
    BY <2>1, AddType, SlotType
  <2> QED BY <2>2 DEF Slots
<1>3. Window(b, h, n) \in [1 .. n -> Bids \cup {NoBid}]
  BY <1>2 DEF Window
<1>4. \A i \in 1 .. n : Window(b, h, n)[i] = b[Slot(Add(h, i - 1))]
  BY DEF Window
<1> QED BY <1>1, <1>3, <1>4, FunctionIsSeq

\* Filling the slot after the window appends to it, if that is not yet a slot
\* of the window.
LEMMA WindowAppend ==
  ASSUME NEW b \in Slots, NEW h \in Counter, NEW n \in 0 .. Entries - 1, NEW v \in Bids
  PROVE  LET c == [b EXCEPT ![Slot(Add(h, n))] = v]
         IN  /\ c \in Slots
             /\ Window(c, h, n + 1) = Append(Window(b, h, n), v)
<1> DEFINE V == Bids \cup {NoBid}
           c == [b EXCEPT ![Slot(Add(h, n))] = v]
           w == Window(b, h, n)
           x == Window(c, h, n + 1)
<1>1. Entries \in Nat \ {0} /\ n \in Nat /\ n \in 0 .. Entries /\ n + 1 \in 0 .. Entries
  BY BufAssumption
<1>2. Slot(Add(h, n)) \in 0 .. mask
  BY <1>1, AddType, SlotType
<1>3. c \in Slots /\ c[Slot(Add(h, n))] = v
  BY <1>2 DEF Slots
<1>4. ASSUME NEW i \in 1 .. n
      PROVE  c[Slot(Add(h, i - 1))] = b[Slot(Add(h, i - 1))]
  <2>1. i - 1 \in 0 .. Entries - 1 /\ i - 1 \in 0 .. Entries /\ i - 1 # n
    BY <1>1
  <2>2. Slot(Add(h, i - 1)) # Slot(Add(h, n))
    BY <1>1, <2>1, RemaindersDistinct, BufAssumption DEF Slot
  <2>3. Slot(Add(h, i - 1)) \in 0 .. mask
    BY <2>1, AddType, SlotType
  <2> QED BY <2>2, <2>3 DEF Slots
<1>5. /\ w \in Seq(V) /\ Len(w) = n
      /\ \A i \in 1 .. n : w[i] = b[Slot(Add(h, i - 1))]
  BY <1>1, WindowSeq
<1>6. /\ x \in Seq(V) /\ Len(x) = n + 1
      /\ \A i \in 1 .. n + 1 : x[i] = c[Slot(Add(h, i - 1))]
  <2> HIDE DEF c
  <2> QED BY <1>1, <1>3, WindowSeq
<1>7. /\ Append(w, v) \in Seq(V) /\ Len(Append(w, v)) = n + 1
      /\ \A i \in 1 .. n : Append(w, v)[i] = w[i]
      /\ Append(w, v)[n + 1] = v
  <2>1. v \in V
    OBVIOUS
  <2> HIDE DEF w, V
  <2> QED BY <1>5, <2>1, AppendProperties
<1>8. ASSUME NEW i \in 1 .. n + 1 PROVE x[i] = Append(w, v)[i]
  <2> HIDE DEF x, w, c
  <2>1. CASE i = n + 1
    <3>1. x[n + 1] = c[Slot(Add(h, n))]
      BY <1>1, <1>6
    <3> QED BY <1>3, <1>7, <2>1, <3>1
  <2>2. CASE i \in 1 .. n
    BY <1>4, <1>5, <1>6, <1>7, <2>2
  <2>3. i = n + 1 \/ i \in 1 .. n
    BY <1>1
  <2> QED BY <2>1, <2>2, <2>3
<1>9. x = Append(w, v)
  <2> HIDE DEF x, w, c, V
  <2> QED BY <1>6, <1>7, <1>8, SeqEqual
<1> QED BY <1>3, <1>9

\* Going on by one position takes the first of the window away.
LEMMA WindowRest ==
  ASSUME NEW b \in Slots, NEW h \in Counter, NEW n \in 1 .. Entries
  PROVE  /\ Window(b, h, n)[1] = b[Slot(h)]
         /\ Window(b, Add(h, 1), n - 1) = Rest(Window(b, h, n))
<1> DEFINE V == Bids \cup {NoBid}
           w == Window(b, h, n)
           x == Window(b, Add(h, 1), n - 1)
<1>1. /\ Entries \in Nat \ {0} /\ Entries < Modulus /\ Modulus \in Nat
      /\ n \in Nat /\ n \in 0 .. Entries /\ n - 1 \in 0 .. Entries
  BY BufAssumption, ModulusAssumption
<1>2. Add(h, 1) \in Counter
  BY <1>1, AddType
<1>3. Add(h, 0) = h
  BY ModulusAssumption DEF Add, Counter
<1>4. /\ w \in Seq(V) /\ Len(w) = n
      /\ \A i \in 1 .. n : w[i] = b[Slot(Add(h, i - 1))]
  BY <1>1, WindowSeq
<1>5. /\ x \in Seq(V) /\ Len(x) = n - 1
      /\ \A i \in 1 .. n - 1 : x[i] = b[Slot(Add(Add(h, 1), i - 1))]
  BY <1>1, <1>2, WindowSeq
<1>6. ASSUME NEW i \in 1 .. n - 1 PROVE x[i] = w[i + 1]
  <2>1. i - 1 \in Nat /\ (i - 1) + 1 < Modulus /\ (i - 1) + 1 = i
    BY <1>1
  <2>2. Add(Add(h, 1), i - 1) = Add(h, i)
    BY <2>1, AddNext
  <2>3. i + 1 \in 1 .. n /\ (i + 1) - 1 = i
    BY <1>1
  <2> HIDE DEF w, x
  <2> QED BY <1>4, <1>5, <2>2, <2>3
<1>7. w[1] = b[Slot(h)]
  <2>1. 1 \in 1 .. n /\ 1 - 1 = 0
    BY <1>1
  <2> HIDE DEF w
  <2> QED BY <1>3, <1>4, <2>1
<1> DEFINE t == SubSeq(w, 2, n)
<1>8. t \in Seq(V) /\ Len(t) = n - 1 /\ \A i \in 1 .. n - 1 : t[i] = w[i + 1]
  <2> HIDE DEF w, V
  <2>1. \A i \in 2 .. n : w[i] \in V
    BY <1>1, <1>4, ElementOfSeq
  <2>2. /\ t \in Seq(V)
        /\ Len(t) = IF 2 <= n THEN n - 2 + 1 ELSE 0
        /\ \A i \in 1 .. n - 2 + 1 : t[i] = w[2 + i - 1]
    BY <1>1, <2>1, SubSeqProperties
  <2> HIDE DEF t
  <2>3. Len(t) = n - 1
    BY <1>1, <2>2
  <2>4. ASSUME NEW i \in 1 .. n - 1 PROVE t[i] = w[i + 1]
    <3>1. i \in 1 .. n - 2 + 1 /\ 2 + i - 1 = i + 1
      BY <1>1
    <3> QED BY <2>2, <3>1
  <2> QED BY <2>2, <2>3, <2>4
<1>9. x = t
  <2> HIDE DEF x, t, w, V
  <2> QED BY <1>5, <1>6, <1>8, SeqEqual
<1>10. Rest(w) = t
  <2> HIDE DEF w
  <2> QED BY <1>4 DEF Rest
<1> QED BY <1>7, <1>9, <1>10

-----------------------------------------------------------------------------
(* The completions not yet handled.                                        *)

LEMMA FromSeq ==
  ASSUME NEW s \in Seq(Bids), NEW k \in 0 .. Len(s)
  PROVE  /\ From(s, k) \in Seq(Bids)
         /\ Len(From(s, k)) = Len(s) - k
         /\ \A i \in 1 .. Len(s) - k : From(s, k)[i] = s[k + i]
<1> DEFINE n == Len(s)
           t == SubSeq(s, k + 1, n)
<1>1. n \in Nat /\ k \in Nat
  BY LenProperties
<1>2. \A i \in k + 1 .. n : s[i] \in Bids
  <2>1. k + 1 .. n \subseteq 1 .. n
    BY <1>1
  <2> QED BY <2>1, ElementOfSeq
<1> HIDE DEF n
<1>3. /\ t \in Seq(Bids)
      /\ Len(t) = IF k + 1 <= n THEN n - (k + 1) + 1 ELSE 0
      /\ \A i \in 1 .. n - (k + 1) + 1 : t[i] = s[k + 1 + i - 1]
  BY <1>1, <1>2, SubSeqProperties
<1> HIDE DEF t
<1>4. Len(t) = n - k
  <2>1. k <= n
    BY DEF n
  <2> QED BY <1>1, <1>3, <2>1
<1>5. ASSUME NEW i \in 1 .. n - k PROVE t[i] = s[k + i]
  <2>1. i \in 1 .. n - (k + 1) + 1 /\ k + 1 + i - 1 = k + i
    BY <1>1
  <2> QED BY <1>3, <2>1
<1> QED BY <1>3, <1>4, <1>5 DEF t, n, From

\* Handling one.
LEMMA FromNext ==
  ASSUME NEW s \in Seq(Bids), NEW k \in 0 .. Len(s), k < Len(s)
  PROVE  /\ Len(From(s, k)) > 0
         /\ From(s, k)[1] = s[k + 1]
         /\ From(s, k + 1) = Rest(From(s, k))
<1> DEFINE n == Len(s)
           u == From(s, k)
           v == From(s, k + 1)
           t == SubSeq(u, 2, n - k)
<1>1. n \in Nat /\ k \in Nat /\ k < n /\ k + 1 \in 0 .. n /\ n - k \in Nat
  BY LenProperties
<1>2. /\ u \in Seq(Bids) /\ Len(u) = n - k
      /\ \A i \in 1 .. n - k : u[i] = s[k + i]
  BY FromSeq
<1>3. /\ v \in Seq(Bids) /\ Len(v) = n - (k + 1)
      /\ \A i \in 1 .. n - (k + 1) : v[i] = s[k + 1 + i]
  BY <1>1, FromSeq
<1> HIDE DEF n, u, v
<1>4. \A i \in 2 .. n - k : u[i] \in Bids
  <2>1. 2 .. n - k \subseteq 1 .. n - k
    BY <1>1
  <2> QED BY <1>2, <2>1, ElementOfSeq
<1>5. /\ t \in Seq(Bids)
      /\ Len(t) = IF 2 <= n - k THEN n - k - 2 + 1 ELSE 0
      /\ \A i \in 1 .. n - k - 2 + 1 : t[i] = u[2 + i - 1]
  BY <1>1, <1>4, SubSeqProperties
<1> HIDE DEF t
<1>6. Len(t) = n - (k + 1)
  BY <1>1, <1>5
<1>7. ASSUME NEW i \in 1 .. n - (k + 1) PROVE t[i] = v[i]
  <2>1. i \in 1 .. n - k - 2 + 1 /\ 2 + i - 1 = i + 1 /\ i + 1 \in 1 .. n - k
        /\ k + (i + 1) = k + 1 + i
    BY <1>1
  <2>2. t[i] = s[k + (i + 1)]
    BY <1>2, <1>5, <2>1
  <2> QED BY <1>3, <2>1, <2>2
<1>8. v = t
  BY <1>3, <1>5, <1>6, <1>7, SeqEqual
<1>9. Rest(u) = t
  BY <1>2 DEF Rest, t
<1>10. Len(u) > 0 /\ u[1] = s[k + 1]
  BY <1>1, <1>2
<1> QED BY <1>8, <1>9, <1>10 DEF u, v

\* One more.
LEMMA FromAppend ==
  ASSUME NEW s \in Seq(Bids), NEW k \in 0 .. Len(s), NEW b \in Bids
  PROVE  From(Append(s, b), k) = Append(From(s, k), b)
<1> DEFINE n == Len(s)
           r == Append(s, b)
           u == From(s, k)
           v == From(r, k)
           t == Append(u, b)
<1>1. n \in Nat /\ k \in Nat /\ k <= n /\ n - k \in Nat
  BY LenProperties
<1>2. /\ r \in Seq(Bids) /\ Len(r) = n + 1
      /\ \A i \in 1 .. n : r[i] = s[i]
      /\ r[n + 1] = b
  BY AppendProperties
<1>3. /\ u \in Seq(Bids) /\ Len(u) = n - k
      /\ \A i \in 1 .. n - k : u[i] = s[k + i]
  BY FromSeq
<1> HIDE DEF n, r, u
<1>4. /\ v \in Seq(Bids) /\ Len(v) = n + 1 - k
      /\ \A i \in 1 .. n + 1 - k : v[i] = r[k + i]
  <2>1. k \in 0 .. Len(r)
    BY <1>1, <1>2
  <2>2. /\ v \in Seq(Bids) /\ Len(v) = Len(r) - k
        /\ \A i \in 1 .. Len(r) - k : v[i] = r[k + i]
    BY <1>2, <2>1, FromSeq
  <2>3. Len(r) = n + 1
    BY <1>2
  <2> HIDE DEF v
  <2>4. Len(v) = n + 1 - k
    BY <1>1, <2>2, <2>3
  <2>5. ASSUME NEW i \in 1 .. n + 1 - k PROVE v[i] = r[k + i]
    BY <1>1, <2>2, <2>3
  <2> QED BY <2>2, <2>4, <2>5
<1>5. /\ t \in Seq(Bids) /\ Len(t) = n - k + 1
      /\ \A i \in 1 .. n - k : t[i] = u[i]
      /\ t[n - k + 1] = b
  BY <1>3, AppendProperties
<1> HIDE DEF v, t
<1>6. ASSUME NEW i \in 1 .. n - k + 1 PROVE v[i] = t[i]
  <2>1. CASE i = n - k + 1
    <3>1. i \in 1 .. n + 1 - k /\ k + i = n + 1
      BY <1>1, <2>1
    <3> QED BY <1>2, <1>4, <1>5, <2>1, <3>1
  <2>2. CASE i \in 1 .. n - k
    <3>1. i \in 1 .. n + 1 - k /\ k + i \in 1 .. n
      BY <1>1, <2>2
    <3> QED BY <1>2, <1>3, <1>4, <1>5, <2>2, <3>1
  <2>3. i = n - k + 1 \/ i \in 1 .. n - k
    BY <1>1
  <2> QED BY <2>1, <2>2, <2>3
<1>7. Len(v) = Len(t) /\ \A i \in 1 .. Len(v) : v[i] = t[i]
  BY <1>1, <1>4, <1>5, <1>6
<1>8. v = t
  BY <1>4, <1>5, <1>7, SeqEqual
<1> QED BY <1>8 DEF v, t, u, r

\* Consuming those that were handled.
LEMMA FromStart ==
  ASSUME NEW s \in Seq(Bids)
  PROVE  From(s, 0) = s
BY SubSeqFull DEF From

-----------------------------------------------------------------------------
(* What the steps do to the ring.                                          *)

\* A ring whose head has caught up and to which nothing was added is empty.
LEMMA EmptyWindow ==
  ASSUME NEW b \in Slots, NEW h \in Counter
  PROVE  Sub(h, h) = 0 /\ Window(b, h, 0) = << >>
<1>1. Sub(h, h) = 0
  BY SubZero
<1>2. /\ Window(b, h, 0) \in Seq(Bids \cup {NoBid})
      /\ Len(Window(b, h, 0)) = 0
  <2>1. 0 \in 0 .. Entries
    BY BufAssumption
  <2> QED BY <2>1, WindowSeq
<1> QED BY <1>1, <1>2, EmptySeq

\* The ring as a window.
LEMMA RingFacts ==
  ASSUME TypeOK, Fits
  PROVE  /\ Entries \in Nat \ {0} /\ Entries < Modulus /\ Modulus \in Nat
         /\ bufs \in Slots /\ tail \in Counter /\ khead \in Counter
         /\ added \in Nat /\ Available \in Nat /\ Available = Sub(tail, khead)
         /\ Available + added \in 0 .. Entries
         /\ InRing = Window(bufs, khead, Available + added)
         /\ Len(InRing) = Available + added
         /\ tail = Add(khead, Available)
<1>1. Entries \in Nat \ {0} /\ Entries < Modulus /\ Modulus \in Nat
  BY BufAssumption, ModulusAssumption
<1>2. /\ bufs \in Slots /\ tail \in Counter /\ khead \in Counter
      /\ added \in 0 .. Entries /\ Available \in 0 .. Entries
  BY DEF TypeOK, Slots
<1>3. Available + added \in 0 .. Entries
  BY DEF Fits
<1>4. Available = Sub(tail, khead)
  BY DEF Available
<1>5. InRing = Window(bufs, khead, Available + added)
  BY DEF InRing, Window, Available
<1>6. Len(InRing) = Available + added
  BY <1>2, <1>3, <1>5, WindowSeq
<1>7. tail = Add(khead, Available)
  BY <1>2, <1>4, AddDistance
<1> QED BY <1>1, <1>2, <1>3, <1>4, <1>5, <1>6, <1>7

\* buf_ring_add appends a buffer that is not in the ring.
LEMMA AddEffect ==
  ASSUME IInv, NEW b \in Bids, b \notin ToSet(InRing), BufRingAdd(b), khead' = khead
  PROVE  /\ InRing' = Append(InRing, b)
         /\ Len(InRing) < Entries
         /\ bufs' \in Slots /\ tail' = tail /\ Available' = Available
         /\ added' \in 0 .. Entries /\ Available' + added' \in 0 .. Entries
<1> DEFINE n == Available + added
<1>1. TypeOK /\ Fits /\ Partition(mine, InRing, inflight, Unseen)
  BY DEF IInv
<1>2. /\ Entries \in Nat \ {0} /\ Entries < Modulus /\ Modulus \in Nat
      /\ bufs \in Slots /\ tail \in Counter /\ khead \in Counter
      /\ added \in Nat /\ Available \in Nat
      /\ InRing = Window(bufs, khead, n) /\ Len(InRing) = n
      /\ tail = Add(khead, Available)
  BY <1>1, RingFacts
<1>3. n \in 0 .. Entries - 1
  BY <1>1, <1>2, PartitionRoom
<1>4. Add(tail, added) = Add(khead, n)
  <2>1. Available + added < Modulus
    BY <1>2, <1>3
  <2> QED BY <1>2, <2>1, AddAdd
<1>5. bufs' = [bufs EXCEPT ![Slot(Add(khead, n))] = b]
  BY <1>4 DEF BufRingAdd, StoreBuf
<1>6. tail' = tail /\ added' = added + 1
  BY DEF BufRingAdd, TailKept
<1>7. Available' = Available
  BY <1>6 DEF Available
<1>8. bufs' \in Slots /\ Window(bufs', khead, n + 1) = Append(Window(bufs, khead, n), b)
  <2> HIDE DEF n
  <2> QED BY <1>2, <1>3, <1>5, WindowAppend
<1>9. InRing' = Window(bufs', khead, n + 1)
  <2>1. InRing' = [i \in 1 .. Sub(tail', khead') + added' |->
                     bufs'[Slot(Add(khead', i - 1))]]
    BY DEF InRing
  <2>2. Sub(tail', khead') + added' = n + 1
    BY <1>2, <1>6 DEF Available
  <2> HIDE DEF n
  <2> QED BY <2>1, <2>2 DEF Window
<1> QED BY <1>2, <1>3, <1>6, <1>7, <1>8, <1>9

\* buf_ring_advance leaves the queue alone: it only publishes.
LEMMA PublishEffect ==
  ASSUME IInv, tail' = Add(tail, added), added' = 0, UNCHANGED <<bufs, khead>>
  PROVE  /\ InRing' = InRing
         /\ tail' \in Counter /\ Available' \in 0 .. Entries
         /\ Available' + added' \in 0 .. Entries
<1>1. /\ Entries \in Nat \ {0} /\ Entries < Modulus /\ Modulus \in Nat
      /\ bufs \in Slots /\ tail \in Counter /\ khead \in Counter
      /\ added \in Nat /\ Available \in Nat /\ Available = Sub(tail, khead)
      /\ Available + added \in 0 .. Entries
  BY RingFacts DEF IInv
<1>2. Sub(tail, khead) + added < Modulus
  BY <1>1
<1>3. tail' \in Counter /\ Sub(tail', khead) = Sub(tail, khead) + added
  BY <1>1, <1>2, SubAdd
<1>4. Available' = Available + added
  BY <1>1, <1>3 DEF Available
<1>5. Sub(tail', khead') + added' = Sub(tail, khead) + added
  BY <1>1, <1>3
<1>6. InRing' = InRing
  BY <1>5 DEF InRing
<1> QED BY <1>1, <1>3, <1>4, <1>6

\* The kernel takes the first.
LEMMA PickEffect ==
  ASSUME IInv, KernelPick
  PROVE  /\ Len(InRing) > 0
         /\ InRing' = Rest(InRing)
         /\ picked' = <<InRing[1]>> /\ inflight' = inflight \cup {InRing[1]}
         /\ khead' \in Counter /\ Available' \in 0 .. Entries
         /\ Available' + added' \in 0 .. Entries
<1> DEFINE n == Available + added
<1>1. /\ Entries \in Nat \ {0} /\ Entries < Modulus /\ Modulus \in Nat
      /\ bufs \in Slots /\ tail \in Counter /\ khead \in Counter
      /\ added \in Nat /\ Available \in Nat /\ Available = Sub(tail, khead)
      /\ n \in 0 .. Entries
      /\ InRing = Window(bufs, khead, n) /\ Len(InRing) = n
  BY RingFacts DEF IInv
<1>2. khead' = Add(khead, 1) /\ khead # tail /\ UNCHANGED <<bufs, tail, added>>
  BY DEF KernelPick
<1>3. Available > 0
  BY <1>1, <1>2, SubZero
<1>4. khead' \in Counter /\ Sub(tail, khead') = Available - 1
  BY <1>1, <1>2, SubAddRear
<1>5. Available' = Available - 1
  BY <1>2, <1>4 DEF Available
<1>6. n \in 1 .. Entries
  BY <1>1, <1>3
<1>7. /\ InRing[1] = bufs[Slot(khead)]
      /\ Window(bufs, Add(khead, 1), n - 1) = Rest(InRing)
  <2> HIDE DEF n
  <2> QED BY <1>1, <1>6, WindowRest
<1>8. InRing' = Window(bufs, Add(khead, 1), n - 1)
  <2>1. InRing' = [i \in 1 .. Sub(tail', khead') + added' |->
                     bufs'[Slot(Add(khead', i - 1))]]
    BY DEF InRing
  <2>2. Sub(tail', khead') + added' = n - 1
    BY <1>1, <1>2, <1>4
  <2> HIDE DEF n
  <2> QED BY <1>2, <2>1, <2>2 DEF Window
<1>9. picked' = <<InRing[1]>> /\ inflight' = inflight \cup {InRing[1]}
  BY <1>7 DEF KernelPick
<1>10. Available' \in 0 .. Entries /\ Available' + added' \in 0 .. Entries
  <2>1. Available' + added' = Available - 1 + added /\ Available' = Available - 1
    BY <1>2, <1>5
  <2>2. Available + added <= Entries
    BY <1>1
  <2> QED BY <1>1, <1>3, <2>1, <2>2
<1>11. Len(InRing) > 0
  <2> HIDE DEF n
  <2> QED BY <1>1, <1>6
<1>12. InRing' = Rest(InRing)
  BY <1>7, <1>8
<1> QED BY <1>4, <1>9, <1>10, <1>11, <1>12

\* A ring that is set up, or taken down, is empty.
LEMMA EmptyEffect ==
  ASSUME bufs' \in Slots, khead' \in Counter, tail' = khead', added' = 0
  PROVE  /\ InRing' = << >> /\ Available' = 0
         /\ Available' \in 0 .. Entries /\ Available' + added' \in 0 .. Entries
<1>1. Sub(tail', khead') = 0 /\ Window(bufs', khead', 0) = << >>
  BY EmptyWindow
<1>2. InRing' = [i \in 1 .. Sub(tail', khead') + added' |->
                   bufs'[Slot(Add(khead', i - 1))]]
  BY DEF InRing
<1>3. Sub(tail', khead') + added' = 0
  BY <1>1
<1>4. InRing' = << >>
  BY <1>1, <1>2, <1>3 DEF Window
<1> QED BY <1>1, <1>4, BufAssumption DEF Available

\* The completions, when none is taken or added.
LEMMA SameUnseen ==
  ASSUME UNCHANGED <<cqes, seen>>
  PROVE  Unseen' = Unseen
BY DEF Unseen

-----------------------------------------------------------------------------
(* The inductive invariant.                                                *)

LEMMA InitIInv ==
  ASSUME Init
  PROVE  IInv
<1>1. /\ bufs \in Slots /\ khead \in Counter /\ tail = khead /\ added = 0
  BY BufAssumption, ModulusAssumption DEF Init, Slots, Counter
<1>2. Available = 0 /\ InRing = << >>
  <2>1. Sub(tail, khead) = 0 /\ Window(bufs, khead, 0) = << >>
    BY <1>1, EmptyWindow
  <2>2. Sub(tail, khead) + added = 0
    BY <1>1, <2>1
  <2> QED BY <2>1, <2>2 DEF Available, InRing, Window
<1>3. << >> \in Seq(Bids) /\ Len(<< >>) = 0
  BY EmptySeq
<1>4. TypeOK
  <2>1. 0 \in 0 .. Entries /\ 0 <= MaxCqes /\ 0 \in 0 .. 0
    BY BufAssumption
  <2>2. cqes \in Seq(Bids) /\ Len(cqes) = 0 /\ seen = 0
    BY <1>3 DEF Init
  <2>3. Len(cqes) <= MaxCqes /\ seen \in 0 .. Len(cqes)
    BY <2>1, <2>2
  <2>4. added \in 0 .. Entries /\ Available \in 0 .. Entries
    BY <1>1, <1>2, <2>1
  <2>5. tail \in Counter /\ khead \in Counter /\ bufs \in [0 .. mask -> Bids \cup {NoBid}]
    BY <1>1 DEF Slots
  <2> QED BY <2>2, <2>3, <2>4, <2>5 DEF Init, TypeOK
<1>5. Stage /\ Fits
  BY <1>1, <1>2, BufAssumption DEF Init, Stage, Fits
<1>6. Unseen = << >>
  BY <1>3, FromStart DEF Init, Unseen
<1>7. Once(<< >>) /\ ToSet(<< >>) = {}
  <2>1. 1 .. Len(<< >>) = {}
    BY <1>3
  <2>2. ToSet(<< >>) = {<< >>[i] : i \in 1 .. Len(<< >>)}
    BY <1>3, ToSetOf
  <2>3. Once(<< >>)
    BY <1>3 DEF Once
  <2> QED BY <2>1, <2>2, <2>3
<1>8. Partition(Bids, << >>, {}, << >>)
  BY <1>7 DEF Partition
<1> QED BY <1>2, <1>4, <1>5, <1>6, <1>8 DEF Init, IInv

\* What the program does to its own variables, action by action.
LEMMA StageStep ==
  ASSUME TypeOK, Stage, Next
  PROVE  Stage'
<1> USE DEF Stage, TypeOK, setup, data
<1>1. CASE MapUser
  BY <1>1 DEF MapUser, Empty
<1>2. CASE BeginKernel
  BY <1>2 DEF BeginKernel
<1>3. CASE Register
  BY <1>3 DEF Register, Empty
<1>4. CASE RegisterFail
  BY <1>4 DEF RegisterFail
<1>5. CASE MapKernel
  BY <1>5 DEF MapKernel
<1>6. CASE MapKernelFail
  BY <1>6 DEF MapKernelFail
<1>7. CASE Unregister
  BY <1>7 DEF Unregister
<1>8. CASE UnmapRing
  BY <1>8 DEF UnmapRing
<1>9. ASSUME NEW b \in Bids, Provide(b) PROVE Stage'
  BY <1>9 DEF Provide
<1>10. ASSUME NEW b \in Bids, KernelComplete(b) PROVE Stage'
  BY <1>10 DEF KernelComplete
<1>11. CASE Recycle
  BY <1>11 DEF Recycle
<1>12. CASE Keep
  BY <1>12 DEF Keep
<1>13. CASE BufRingAdvance
  BY <1>13 DEF BufRingAdvance
<1>14. CASE CqAdvance
  BY <1>14 DEF CqAdvance
<1>15. CASE BufRingCqAdvance
  BY <1>15 DEF BufRingCqAdvance
<1>16. CASE KernelPick
  BY <1>16 DEF KernelPick
<1> QED
  BY <1>1, <1>2, <1>3, <1>4, <1>5, <1>6, <1>7, <1>8, <1>9, <1>10, <1>11, <1>12, <1>13,
     <1>14, <1>15, <1>16 DEF Next

\* The rest of the invariant: what is where.
Placed == TypeOK /\ Fits /\ Partition(mine, InRing, inflight, Unseen)

\* A step that changes neither the ring nor who has which buffer.
LEMMA SamePlaced ==
  ASSUME Placed, UNCHANGED data,
         pc' \in {"none", "register", "map", "ready", "cq_advance", "unmap"},
         user_mem' \in BOOLEAN, mapped' \in BOOLEAN, registered' \in BOOLEAN
  PROVE  Placed'
<1>1. InRing' = InRing /\ Available' = Available /\ Unseen' = Unseen
  BY DEF data, InRing, Available, Unseen
<1> QED BY <1>1 DEF Placed, TypeOK, Fits, data

\* The set-up of a ring: empty before, empty after.
LEMMA EmptyPlaced ==
  ASSUME IInv, pc \in {"none", "register"}, Empty,
         pc' \in {"none", "register", "map", "ready", "cq_advance", "unmap"},
         user_mem' \in BOOLEAN, mapped' \in BOOLEAN, registered' \in BOOLEAN
  PROVE  Placed'
<1>1. TypeOK /\ Fits /\ Partition(mine, InRing, inflight, Unseen)
  BY DEF IInv
<1>2. bufs \in Slots /\ khead \in Counter /\ tail = khead /\ added = 0
  BY <1>1, RingFacts DEF IInv, Stage
<1>3. InRing = << >>
  <2>1. Sub(tail, khead) = 0 /\ Window(bufs, khead, 0) = << >>
    BY <1>2, EmptyWindow
  <2>2. Sub(tail, khead) + added = 0
    BY <1>2, <2>1
  <2> QED BY <2>1, <2>2 DEF InRing, Window
<1>4. bufs' \in Slots /\ khead' \in Counter /\ tail' = khead' /\ added' = 0
  BY BufAssumption, ModulusAssumption DEF Empty, Slots, Counter
<1>5. /\ InRing' = << >> /\ Available' \in 0 .. Entries
      /\ Available' + added' \in 0 .. Entries
  BY <1>4, EmptyEffect
<1>6. UNCHANGED <<mine, inflight, cqes, seen, picked>> /\ Unseen' = Unseen
  BY SameUnseen DEF Empty
<1>7. added' \in 0 .. Entries
  BY <1>4, BufAssumption
<1>8. TypeOK'
  BY <1>1, <1>4, <1>5, <1>6, <1>7 DEF TypeOK, Slots
<1> QED BY <1>1, <1>3, <1>5, <1>6, <1>8 DEF Placed, Fits

\* The application hands over a buffer.
LEMMA ProvidePlaced ==
  ASSUME IInv, NEW b \in Bids, Provide(b)
  PROVE  Placed' /\ Len(InRing) < Entries /\ InRing' = Append(InRing, b)
<1>1. TypeOK /\ Partition(mine, InRing, inflight, Unseen)
  BY DEF IInv
<1>2. /\ b \notin ToSet(InRing)
      /\ Partition(mine \ {b}, Append(InRing, b), inflight, Unseen)
  BY <1>1, ProvideMoves DEF Provide
<1>3. BufRingAdd(b) /\ khead' = khead
  BY DEF Provide
<1>4. /\ InRing' = Append(InRing, b) /\ Len(InRing) < Entries
      /\ bufs' \in Slots /\ tail' = tail /\ Available' = Available
      /\ added' \in 0 .. Entries /\ Available' + added' \in 0 .. Entries
  BY <1>2, <1>3, AddEffect
<1>5. /\ mine' = mine \ {b}
      /\ UNCHANGED <<setup, khead, inflight, cqes, seen, picked>>
      /\ Unseen' = Unseen
  BY SameUnseen DEF Provide
<1>6. TypeOK'
  BY <1>1, <1>4, <1>5 DEF TypeOK, Slots, setup
<1> QED BY <1>2, <1>4, <1>5, <1>6 DEF Placed, Fits

\* The application puts the buffer of a completion back.
LEMMA RecyclePlaced ==
  ASSUME IInv, Recycle
  PROVE  /\ Placed' /\ Len(InRing) < Entries
         /\ \E b \in Bids : InRing' = Append(InRing, b)
<1>1. TypeOK /\ Partition(mine, InRing, inflight, Unseen)
  BY DEF IInv
<1>2. /\ cqes \in Seq(Bids) /\ seen \in 0 .. Len(cqes) /\ seen < Len(cqes)
      /\ Len(cqes) \in Nat
  BY <1>1, LenProperties DEF TypeOK, Recycle
<1> DEFINE b == cqes[seen + 1]
<1>3. Len(Unseen) > 0 /\ Unseen[1] = b /\ From(cqes, seen + 1) = Rest(Unseen)
  BY <1>2, FromNext DEF Unseen
<1>4. /\ b \in Bids /\ b \notin ToSet(InRing)
      /\ Partition(mine, Append(InRing, b), inflight, Rest(Unseen))
  <2> HIDE DEF b
  <2> QED BY <1>1, <1>3, HandledMoves
<1>5. BufRingAdd(b) /\ khead' = khead
  BY DEF Recycle
<1>6. /\ InRing' = Append(InRing, b) /\ Len(InRing) < Entries
      /\ bufs' \in Slots /\ tail' = tail /\ Available' = Available
      /\ added' \in 0 .. Entries /\ Available' + added' \in 0 .. Entries
  <2> HIDE DEF b
  <2> QED BY <1>4, <1>5, AddEffect
<1>7. /\ seen' = seen + 1
      /\ UNCHANGED <<setup, khead, mine, inflight, cqes, picked>>
  BY DEF Recycle
<1>8. Unseen' = Rest(Unseen)
  BY <1>3, <1>7 DEF Unseen
<1>9. seen' \in 0 .. Len(cqes')
  BY <1>2, <1>7
<1>10. TypeOK'
  BY <1>1, <1>6, <1>7, <1>9 DEF TypeOK, Slots, setup
<1> HIDE DEF b
<1> QED BY <1>4, <1>6, <1>7, <1>8, <1>10 DEF Placed, Fits

\* ... or keeps it.
LEMMA KeepPlaced ==
  ASSUME IInv, Keep
  PROVE  Placed' /\ InRing' = InRing
<1>1. TypeOK /\ Fits /\ Partition(mine, InRing, inflight, Unseen)
  BY DEF IInv
<1>2. /\ cqes \in Seq(Bids) /\ seen \in 0 .. Len(cqes) /\ seen < Len(cqes)
      /\ Len(cqes) \in Nat
  BY <1>1, LenProperties DEF TypeOK, Keep
<1>3. Len(Unseen) > 0 /\ Unseen[1] = cqes[seen + 1] /\ From(cqes, seen + 1) = Rest(Unseen)
  BY <1>2, FromNext DEF Unseen
<1>4. Partition(mine \cup {Unseen[1]}, InRing, inflight, Rest(Unseen)) /\ Unseen[1] \in Bids
  BY <1>1, <1>3, HandledMoves
<1>5. /\ seen' = seen + 1 /\ mine' = mine \cup {Unseen[1]}
      /\ UNCHANGED <<setup, bufs, tail, khead, added, inflight, cqes, picked>>
  BY <1>3 DEF Keep
<1>6. Unseen' = Rest(Unseen) /\ InRing' = InRing /\ Available' = Available
  BY <1>3, <1>5 DEF Unseen, InRing, Available
<1>7. seen' \in 0 .. Len(cqes')
  BY <1>2, <1>5
<1>8. TypeOK'
  BY <1>1, <1>4, <1>5, <1>6, <1>7 DEF TypeOK, setup
<1> QED BY <1>1, <1>4, <1>5, <1>6, <1>8 DEF Placed, Fits

\* buf_ring_advance, alone or as the first half of buf_ring_cq_advance.
LEMMA AdvancePlaced ==
  ASSUME IInv, BufRingAdvance \/ BufRingCqAdvance
  PROVE  Placed' /\ InRing' = InRing
<1>1. TypeOK /\ Fits /\ Partition(mine, InRing, inflight, Unseen)
  BY DEF IInv
<1>2. /\ tail' = Add(tail, added) /\ added' = 0
      /\ UNCHANGED <<user_mem, mapped, registered, bufs, khead, mine, inflight, cqes,
                     seen, picked>>
      /\ pc' \in {"ready", "cq_advance"}
  BY DEF BufRingAdvance, BufRingCqAdvance, setup
<1>3. /\ InRing' = InRing /\ tail' \in Counter /\ Available' \in 0 .. Entries
      /\ Available' + added' \in 0 .. Entries
  BY <1>2, PublishEffect
<1>4. Unseen' = Unseen /\ added' \in 0 .. Entries
  BY <1>2, SameUnseen, BufAssumption
<1>5. TypeOK'
  BY <1>1, <1>2, <1>3, <1>4 DEF TypeOK
<1> QED BY <1>1, <1>2, <1>3, <1>4, <1>5 DEF Placed, Fits

\* cq_advance drops what was handled.
LEMMA CqAdvancePlaced ==
  ASSUME IInv, CqAdvance
  PROVE  Placed' /\ InRing' = InRing
<1>1. TypeOK /\ Fits /\ Partition(mine, InRing, inflight, Unseen)
  BY DEF IInv
<1>2. /\ cqes' = Unseen /\ seen' = 0
      /\ UNCHANGED <<user_mem, mapped, registered, bufs, tail, khead, added, mine,
                     inflight, picked>>
      /\ pc' \in {"none", "ready"}
  BY <1>1 DEF CqAdvance, Unseen, From, TypeOK
<1>3. InRing' = InRing /\ Available' = Available
  BY <1>2 DEF InRing, Available
<1>4. /\ cqes \in Seq(Bids) /\ Len(cqes) \in Nat /\ seen \in 0 .. Len(cqes)
      /\ Len(cqes) <= MaxCqes
  BY <1>1, LenProperties DEF TypeOK
<1>5. Unseen \in Seq(Bids) /\ Len(Unseen) = Len(cqes) - seen
  BY <1>4, FromSeq DEF Unseen
<1>6. cqes' \in Seq(Bids) /\ Len(cqes') <= MaxCqes /\ seen' \in 0 .. Len(cqes')
  BY <1>2, <1>4, <1>5, BufAssumption
<1>7. Unseen' = Unseen
  <2>1. From(Unseen, 0) = Unseen
    BY <1>5, FromStart
  <2> QED BY <1>2, <2>1 DEF Unseen
<1>8. TypeOK'
  BY <1>1, <1>2, <1>3, <1>6 DEF TypeOK
<1> QED BY <1>1, <1>2, <1>3, <1>7, <1>8 DEF Placed, Fits

\* The kernel takes a buffer for an operation.
LEMMA PickPlaced ==
  ASSUME IInv, KernelPick
  PROVE  /\ Placed' /\ Len(InRing) > 0
         /\ InRing' = Rest(InRing) /\ picked' = <<InRing[1]>>
<1>1. TypeOK /\ Fits /\ Partition(mine, InRing, inflight, Unseen)
  BY DEF IInv
<1>2. /\ Len(InRing) > 0 /\ InRing' = Rest(InRing)
      /\ picked' = <<InRing[1]>> /\ inflight' = inflight \cup {InRing[1]}
      /\ khead' \in Counter /\ Available' \in 0 .. Entries
      /\ Available' + added' \in 0 .. Entries
  BY PickEffect
<1>3. InRing[1] \in Bids /\ Partition(mine, Rest(InRing), inflight \cup {InRing[1]}, Unseen)
  BY <1>1, <1>2, PickMoves
<1>4. UNCHANGED <<setup, bufs, tail, added, mine, cqes, seen>> /\ Unseen' = Unseen
  BY SameUnseen DEF KernelPick
<1>5. TypeOK'
  BY <1>1, <1>2, <1>3, <1>4 DEF TypeOK, setup
<1> QED BY <1>2, <1>3, <1>4, <1>5 DEF Placed, Fits

\* The operation is done with it.
LEMMA CompletePlaced ==
  ASSUME IInv, NEW b \in Bids, KernelComplete(b)
  PROVE  Placed' /\ InRing' = InRing
<1>1. TypeOK /\ Fits /\ Partition(mine, InRing, inflight, Unseen)
  BY DEF IInv
<1>2. /\ b \in inflight /\ Len(cqes) < MaxCqes
      /\ inflight' = inflight \ {b} /\ cqes' = Append(cqes, b)
      /\ UNCHANGED <<setup, bufs, tail, khead, added, mine, seen, picked>>
  BY DEF KernelComplete
<1>3. InRing' = InRing /\ Available' = Available
  BY <1>2 DEF InRing, Available
<1>4. /\ cqes \in Seq(Bids) /\ Len(cqes) \in Nat /\ seen \in 0 .. Len(cqes)
  BY <1>1, LenProperties DEF TypeOK
<1>5. cqes' \in Seq(Bids) /\ Len(cqes') = Len(cqes) + 1
  BY <1>2, <1>4, AppendProperties
<1>6. Len(cqes') <= MaxCqes /\ seen' \in 0 .. Len(cqes')
  BY <1>2, <1>4, <1>5, BufAssumption
<1>7. Unseen' = Append(Unseen, b)
  BY <1>2, <1>4, FromAppend DEF Unseen
<1>8. Partition(mine, InRing, inflight \ {b}, Append(Unseen, b))
  BY <1>1, <1>2, CompleteMoves
<1>9. TypeOK'
  BY <1>1, <1>2, <1>3, <1>5, <1>6 DEF TypeOK, setup
<1> QED BY <1>1, <1>2, <1>3, <1>7, <1>8, <1>9 DEF Placed, Fits

\* The ring is unregistered: what is left in it is the application's again.
LEMMA UnregisterPlaced ==
  ASSUME IInv, Unregister
  PROVE  Placed'
<1>1. TypeOK /\ Fits /\ Partition(mine, InRing, inflight, Unseen)
  BY DEF IInv
<1>2. /\ added = 0 /\ mine' = mine \cup ToSet(InRing) /\ tail' = khead
      /\ pc' = "unmap" /\ registered' = FALSE
      /\ UNCHANGED <<user_mem, mapped, bufs, khead, added, inflight, cqes, seen, picked>>
      /\ Unseen' = Unseen
  BY SameUnseen DEF Unregister
<1>3. bufs' \in Slots /\ khead' \in Counter /\ tail' = khead' /\ added' = 0
  BY <1>1, <1>2 DEF TypeOK, Slots
<1>4. /\ InRing' = << >> /\ Available' \in 0 .. Entries
      /\ Available' + added' \in 0 .. Entries
  BY <1>3, EmptyEffect
<1>5. Partition(mine \cup ToSet(InRing), << >>, inflight, Unseen)
  BY <1>1, UnregisterMoves
<1>6. mine' \subseteq Bids
  BY <1>1, <1>2 DEF Partition
<1>7. TypeOK'
  BY <1>1, <1>2, <1>3, <1>4, <1>6 DEF TypeOK, Slots
<1> QED BY <1>2, <1>4, <1>5, <1>7 DEF Placed, Fits

LEMMA PlacedStep ==
  ASSUME IInv, Next
  PROVE  Placed'
<1>1. Placed
  BY DEF IInv, Placed
<1> USE DEF TypeOK, Stage, IInv
<1>2. CASE MapUser
  <2>1. Empty /\ pc = "none" /\ pc' = "register" /\ user_mem' \in BOOLEAN
        /\ mapped' \in BOOLEAN /\ registered' \in BOOLEAN
    BY <1>2 DEF MapUser
  <2> QED BY <2>1, EmptyPlaced
<1>3. CASE Register
  <2>1. Empty /\ pc = "register" /\ pc' \in {"ready", "map"} /\ user_mem' \in BOOLEAN
        /\ mapped' \in BOOLEAN /\ registered' \in BOOLEAN
    BY <1>3 DEF Register
  <2> QED BY <2>1, EmptyPlaced
<1>4. CASE BeginKernel \/ RegisterFail \/ MapKernel \/ MapKernelFail \/ UnmapRing
  <2>1. UNCHANGED data /\ pc' \in {"none", "register", "ready"} /\ user_mem' \in BOOLEAN
        /\ mapped' \in BOOLEAN /\ registered' \in BOOLEAN
    BY <1>4 DEF BeginKernel, RegisterFail, MapKernel, MapKernelFail, UnmapRing
  <2> QED BY <1>1, <2>1, SamePlaced
<1> QED
  BY <1>2, <1>3, <1>4, ProvidePlaced, RecyclePlaced, KeepPlaced, AdvancePlaced,
     CqAdvancePlaced, PickPlaced, CompletePlaced, UnregisterPlaced DEF Next

LEMMA StepIInv ==
  ASSUME IInv, [Next]_vars
  PROVE  IInv'
<1>1. CASE Next
  <2>1. Stage'
    BY <1>1, StageStep DEF IInv
  <2>2. Placed'
    BY <1>1, PlacedStep
  <2> QED BY <2>1, <2>2 DEF IInv, Placed
<1>2. CASE UNCHANGED vars
  <2>1. Placed'
    BY <1>2, SamePlaced DEF IInv, Placed, TypeOK, vars, setup
  <2>2. Stage'
    BY <1>2 DEF vars, setup, data, IInv, Stage
  <2> QED BY <2>1, <2>2 DEF IInv, Placed
<1> QED BY <1>1, <1>2

-----------------------------------------------------------------------------
(* The bounded FIFO.                                                       *)

\* While one ring is set up, a step adds one buffer at the end, takes one at
\* the front, or leaves the queue alone.
LEMMA FifoStep ==
  ASSUME IInv, Next, registered, registered'
  PROVE  Fifo!Next \/ UNCHANGED Fifo!vars
<1>1. CASE UNCHANGED <<bufs, tail, khead, added, picked>>
  BY <1>1 DEF Fifo!vars, InRing
<1>2. CASE MapUser \/ BeginKernel \/ Register \/ RegisterFail \/ MapKernelFail
           \/ Unregister \/ UnmapRing
  BY <1>2 DEF MapUser, BeginKernel, Register, RegisterFail, MapKernelFail, Unregister,
     UnmapRing, IInv, Stage
<1>3. CASE MapKernel \/ CqAdvance \/ Keep
  BY <1>1, <1>3 DEF MapKernel, CqAdvance, Keep, data
<1>4. ASSUME NEW b \in Bids, KernelComplete(b) PROVE UNCHANGED Fifo!vars
  BY <1>4, CompletePlaced DEF KernelComplete, Fifo!vars
<1>5. CASE BufRingAdvance \/ BufRingCqAdvance
  BY <1>5, AdvancePlaced DEF BufRingAdvance, BufRingCqAdvance, Fifo!vars
<1>6. ASSUME NEW b \in Bids, Provide(b) PROVE Fifo!Next
  BY <1>6, ProvidePlaced DEF Provide, Fifo!Next, Fifo!Enqueue
<1>7. CASE Recycle
  BY <1>7, RecyclePlaced DEF Recycle, Fifo!Next, Fifo!Enqueue
<1>8. CASE KernelPick
  <2>1. /\ Len(InRing) > 0 /\ InRing' = SubSeq(InRing, 2, Len(InRing))
        /\ picked' = <<InRing[1]>>
    BY <1>8, PickPlaced DEF Rest
  <2>2. InRing \in Seq(Bids) /\ Len(InRing) \in Nat
    BY LenProperties DEF IInv, Partition, Once
  <2>3. SubSeq(InRing, 1, 1) = <<InRing[1]>>
    <3>1. InRing[1] \in Bids
      BY <2>1, <2>2, ElementOfSeq
    <3>2. \A i \in 1 .. 1 : InRing[i] \in Bids
      BY <3>1
    <3>3. /\ SubSeq(InRing, 1, 1) \in Seq(Bids)
          /\ Len(SubSeq(InRing, 1, 1)) = 1
          /\ SubSeq(InRing, 1, 1)[1] = InRing[1]
      BY <3>2, SubSeqProperties
    <3>4. /\ <<InRing[1]>> \in Seq(Bids) /\ Len(<<InRing[1]>>) = 1
          /\ <<InRing[1]>>[1] = InRing[1]
      BY <3>1
    <3> DEFINE d == SubSeq(InRing, 1, 1)
               e == <<InRing[1]>>
    <3>5. /\ d \in Seq(Bids) /\ e \in Seq(Bids) /\ Len(d) = 1 /\ Len(e) = 1
          /\ d[1] = e[1]
      BY <3>3, <3>4
    <3> HIDE DEF d, e
    <3>6. \A i \in 1 .. Len(d) : d[i] = e[i]
      BY <3>5
    <3>7. d = e
      BY <3>5, <3>6, SeqEqual
    <3> QED BY <3>7 DEF d, e
  <2>4. 1 \in 0 .. Len(InRing) /\ 1 + 1 = 2
    BY <2>1, <2>2
  <2> QED BY <2>1, <2>3, <2>4 DEF Fifo!Next, Fifo!Dequeue
<1> QED
  BY <1>2, <1>3, <1>4, <1>5, <1>6, <1>7, <1>8 DEF Next

-----------------------------------------------------------------------------
(* The theorems.                                                           *)

\* The inductive invariant, with the bound nobody checks: what was added and
\* what the kernel has not picked is never more than the ring holds.
THEOREM Consistent == Spec => []IInv
<1>1. Init => IInv
  BY InitIInv
<1>2. IInv /\ [Next]_vars => IInv'
  BY StepIInv
<1> QED BY <1>1, <1>2, PTL DEF Spec

\* Positions, slots and sets of buffers keep their types, and neither the
\* published nor the added part ever exceeds the ring.
THEOREM TypeCorrect == Spec => []TypeOK
<1>1. IInv => TypeOK
  BY DEF IInv
<1> QED BY <1>1, Consistent, PTL

\* Every buffer is in exactly one place, also while a tail update and the
\* consumption of its completions are two steps.
THEOREM Conserved == Spec => []BuffersConserved
<1>1. IInv => BuffersConserved
  <2> SUFFICES ASSUME IInv PROVE BuffersConserved
    OBVIOUS
  <2>1. Partition(mine, InRing, inflight, Unseen)
    BY DEF IInv
  <2>2. mine \cup ToSet(InRing) \cup inflight \cup ToSet(Unseen) = Bids
    BY <2>1 DEF Partition
  <2>3. Cardinality(mine) + Len(InRing) + Cardinality(inflight) + Len(Unseen)
          = Cardinality(Bids)
    BY <2>1, PartitionCount
  <2> QED BY <2>2, <2>3 DEF BuffersConserved, Unseen, From
<1> QED BY <1>1, Consistent, PTL

\* The kernel never knows a ring that is not mapped by its owner, and no way
\* out of setup_buf_ring leaves half of one.
THEOREM SetUpIsBalanced == Spec => []SetupBalanced
<1>1. IInv => SetupBalanced
  BY DEF IInv, Stage, TypeOK, SetupBalanced
<1> QED BY <1>1, Consistent, PTL

\* The kernel picks the buffers in the order they were added, each once.
THEOREM RingIsFifo == Spec => FifoSpec
<1>1. IInv /\ [Next]_vars
        => [registered /\ registered' => Fifo!Next \/ UNCHANGED Fifo!vars]_vars
  BY FifoStep
<1>2. Spec => [][registered /\ registered' => Fifo!Next \/ UNCHANGED Fifo!vars]_vars
  BY <1>1, Consistent, PTL DEF Spec
<1> QED BY <1>2 DEF FifoSpec

-----------------------------------------------------------------------------
(* What arrives in a buffer: the walk over the control messages of a       *)
(* multishot recvmsg.                                                      *)

Messages == [at : Nat, len : Nat]

RecvTypes ==
  /\ namelen \in Nat /\ controllen \in Nat /\ used \in Nat
  /\ buf_len \in Int /\ cmsg \in Int
  /\ written \in Seq(Messages) /\ visited \in Seq(Nat)
  /\ phase \in {"receive", "completed", "rejected", "valid", "walk", "walked"}

\* What the kernel leaves in the control field: messages one behind the other,
\* each with a header, from the padding of the one before on; the last one,
\* but no other, may lack some of its padding, and then the field is full.
Chained ==
  /\ used <= controllen
  /\ Len(written) = 0 => used = 0
  /\ \A i \in 1 .. Len(written) :
       /\ written[i].len >= CmsgBytes
       /\ written[i].at + written[i].len <= used
       /\ i = 1 => written[i].at = 0
       /\ i < Len(written) =>
            written[i + 1].at = written[i].at + Padded(written[i].len)
       /\ i = Len(written) =>
            /\ used <= written[i].at + Padded(written[i].len)
            /\ used = written[i].at + Padded(written[i].len) \/ used = controllen
  /\ \A i, j \in 1 .. Len(written) : i < j => written[i].at < written[j].at

\* How far the walk has come: over a message it stops at, there is none left
\* or just the last one, without its padding.
Walked ==
  /\ phase \in {"receive", "completed", "rejected", "valid"} => Len(visited) = 0
  /\ Len(visited) <= Len(written)
  /\ \A i \in 1 .. Len(visited) :
       visited[i] = written[i].at /\ Whole(written[i])
  /\ phase = "walk" =>
       Len(visited) > 0 /\ cmsg = written[Len(visited)].at
  /\ phase = "walked" /\ Len(visited) < Len(written) =>
       /\ Len(visited) + 1 = Len(written)
       /\ ~Whole(written[Len(written)])
  /\ phase \in {"valid", "walk", "walked"} =>
       buf_len >= controllen + namelen + OutBytes

ReceiveInv == RecvTypes /\ Chained /\ Walked

-----------------------------------------------------------------------------
\* Padding is never negative.
LEMMA PaddedRounds ==
  ASSUME NEW n \in Nat
  PROVE  Padded(n) \in Nat /\ n <= Padded(n)
BY DEF Padded, LongBytes

\* The length found where a message lies is that message's.
LEMMA LenAtMessage ==
  ASSUME RecvTypes, Chained, NEW i \in 1 .. Len(written)
  PROVE  LenAt(written[i].at) = written[i].len
<1> DEFINE here == {c \in Range(written) : c.at = written[i].at}
<1>1. DOMAIN written = 1 .. Len(written) /\ Len(written) \in Nat
  BY LenProperties DEF RecvTypes
<1>2. \A j \in 1 .. Len(written) : written[j] \in Messages
  BY ElementOfSeq DEF RecvTypes
<1>3. \A j \in 1 .. Len(written) : written[j].at \in Nat
  BY <1>2 DEF Messages
<1>4. ASSUME NEW j \in 1 .. Len(written), written[j].at = written[i].at
      PROVE  j = i
  <2>1. ~(i < j) /\ ~(j < i)
    BY <1>3, <1>4 DEF Chained
  <2> QED BY <1>1, <2>1
<1>5. here = {written[i]}
  BY <1>1, <1>4 DEF Range
<1>6. LenAt(written[i].at) = (CHOOSE c \in here : TRUE).len
  BY <1>5 DEF LenAt
<1> QED BY <1>5, <1>6

\* An empty control field.
LEMMA InitReceive == ReceiveInit => ReceiveInv
<1> SUFFICES ASSUME ReceiveInit PROVE ReceiveInv
  OBVIOUS
<1>1. << >> \in Seq(Messages) /\ << >> \in Seq(Nat) /\ Len(<< >>) = 0
  BY EmptySeq
<1>2. namelen \in Nat /\ controllen \in Nat
  BY RecvAssumption DEF ReceiveInit
<1>3. buf_len \in Int
  BY <1>2, RecvAssumption DEF ReceiveInit, Payload, Control, OutBytes
<1>4. RecvTypes
  BY <1>1, <1>2, <1>3 DEF ReceiveInit, RecvTypes
<1>5. Chained
  BY <1>1, <1>2 DEF ReceiveInit, Chained
<1>6. Walked
  BY <1>1 DEF ReceiveInit, Walked
<1> QED BY <1>4, <1>5, <1>6 DEF ReceiveInv

-----------------------------------------------------------------------------
\* The kernel adds a message behind the padding of the last.
LEMMA PutMove ==
  ASSUME ReceiveInv, NEW n \in DataLengths, PutCmsg(n)
  PROVE  ReceiveInv'
<1> DEFINE rest == controllen - used
           Within(k) == IF k < rest THEN k ELSE rest
           m == [at |-> used, len |-> Within(CmsgBytes + n)]
           w == Len(written)
<1>1. /\ n \in Nat /\ w \in Nat /\ used \in Nat /\ controllen \in Nat
      /\ rest \in Nat /\ rest >= CmsgBytes
  BY RecvAssumption, LenProperties
     DEF ReceiveInv, RecvTypes, PutCmsg, CmsgBytes
<1>2. written' = Append(written, m) /\ used' = used + Within(Padded(CmsgBytes + n))
  BY DEF PutCmsg
<1>3. CmsgBytes + n \in Nat /\ Padded(CmsgBytes + n) \in Nat
      /\ CmsgBytes + n <= Padded(CmsgBytes + n)
  BY <1>1, PaddedRounds DEF CmsgBytes
<1>4. /\ m.at = used /\ m.len \in Nat /\ m.len >= CmsgBytes
      /\ used + m.len <= used' /\ used' <= controllen /\ used' \in Nat
      /\ used < used'
  BY <1>1, <1>2, <1>3 DEF CmsgBytes
<1>5. used' <= used + Padded(m.len)
      /\ (used' = used + Padded(m.len) \/ used' = controllen)
  <2>1. CASE CmsgBytes + n < rest
    <3>1. m.len = CmsgBytes + n
      BY <2>1
    <3> QED BY <1>1, <1>2, <1>3, <3>1
  <2>2. CASE ~(CmsgBytes + n < rest)
    <3>1. m.len = rest
      BY <2>2
    <3>2. used' = controllen
      BY <1>1, <1>2, <1>3, <2>2
    <3>3. Padded(rest) \in Nat /\ rest <= Padded(rest)
      BY <1>1, PaddedRounds
    <3> QED BY <1>1, <3>1, <3>2, <3>3
  <2> QED BY <2>1, <2>2
<1>6. m \in Messages
  BY <1>1, <1>4 DEF Messages
<1>7. /\ written' \in Seq(Messages) /\ Len(written') = w + 1
      /\ \A i \in 1 .. w : written'[i] = written[i]
      /\ written'[w + 1] = m
  BY <1>2, <1>6, AppendProperties DEF ReceiveInv, RecvTypes
<1> HIDE DEF m, w
<1>8. \A i \in 1 .. w : written[i] \in Messages
  BY ElementOfSeq DEF ReceiveInv, RecvTypes, w
<1>9. \A i \in 1 .. w : written[i].at \in Nat /\ written[i].len \in Nat
  BY <1>8 DEF Messages
<1>10. RecvTypes'
  BY <1>4, <1>7 DEF ReceiveInv, RecvTypes, PutCmsg
<1>11. UNCHANGED <<controllen, visited, phase>> /\ phase = "receive"
  BY DEF PutCmsg
<1>12. ASSUME NEW i \in 1 .. w + 1
       PROVE  /\ written'[i].len >= CmsgBytes
              /\ written'[i].at + written'[i].len <= used'
              /\ i = 1 => written'[i].at = 0
              /\ i < w + 1 =>
                   written'[i + 1].at = written'[i].at + Padded(written'[i].len)
              /\ i = w + 1 =>
                   /\ used' <= written'[i].at + Padded(written'[i].len)
                   /\ \/ used' = written'[i].at + Padded(written'[i].len)
                      \/ used' = controllen'
  <2>1. CASE i = w + 1
    <3>1. i = 1 => used = 0
      BY <1>1, <2>1 DEF ReceiveInv, Chained, w
    <3> QED BY <1>1, <1>4, <1>5, <1>7, <1>11, <2>1, <3>1
  <2>2. CASE i # w + 1
    <3>1. i \in 1 .. w /\ written'[i] = written[i]
      BY <1>1, <1>7, <2>2
    <3>2. /\ written[i].len >= CmsgBytes
          /\ written[i].at + written[i].len <= used
          /\ i = 1 => written[i].at = 0
          /\ i < w => written[i + 1].at = written[i].at + Padded(written[i].len)
          /\ i = w => \/ used = written[i].at + Padded(written[i].len)
                      \/ used = controllen
      BY <3>1 DEF ReceiveInv, Chained, w
    <3>3. written[i].at \in Nat /\ written[i].len \in Nat
      BY <1>9, <3>1
    <3>4. written'[i + 1].at = written[i].at + Padded(written[i].len)
      <4>1. CASE i < w
        <5>1. i + 1 \in 1 .. w
          BY <1>1, <3>1, <4>1
        <5> QED BY <1>7, <3>2, <4>1, <5>1
      <4>2. CASE i = w
        <5>1. used # controllen
          BY <1>1 DEF CmsgBytes
        <5> QED BY <1>4, <1>7, <3>2, <4>2, <5>1
      <4> QED BY <1>1, <3>1, <4>1, <4>2
    <3>5. written[i].at + written[i].len <= used'
      BY <1>1, <1>4, <3>2, <3>3
    <3> QED BY <2>2, <3>1, <3>2, <3>4, <3>5
  <2> QED BY <2>1, <2>2
<1>13. ASSUME NEW i \in 1 .. w + 1, NEW j \in 1 .. w + 1, i < j
       PROVE  written'[i].at < written'[j].at
  <2>1. i \in 1 .. w /\ written'[i] = written[i]
    BY <1>1, <1>7, <1>13
  <2>2. CASE j = w + 1
    <3>1. written[i].at + written[i].len <= used /\ written[i].len >= CmsgBytes
      BY <2>1 DEF ReceiveInv, Chained, w
    <3>2. written[i].at \in Nat /\ written[i].len \in Nat
      BY <1>9, <2>1
    <3> QED BY <1>1, <1>4, <1>7, <2>1, <2>2, <3>1, <3>2 DEF CmsgBytes
  <2>3. CASE j # w + 1
    <3>1. j \in 1 .. w /\ written'[j] = written[j]
      BY <1>1, <1>7, <2>3
    <3> QED BY <1>13, <2>1, <3>1 DEF ReceiveInv, Chained, w
  <2> QED BY <2>2, <2>3
<1>14. Chained'
  <2>1. used' <= controllen'
    BY <1>4, <1>11
  <2>2. Len(written') # 0
    BY <1>1, <1>7
  <2> QED BY <1>7, <1>12, <1>13, <2>1, <2>2 DEF Chained
<1>15. Walked'
  <2>1. Len(visited) = 0
    BY <1>11 DEF ReceiveInv, Walked
  <2> QED BY <1>1, <1>7, <1>11, <2>1 DEF Walked
<1> QED BY <1>10, <1>14, <1>15 DEF ReceiveInv

\* The buffer of a completion, as it is.
LEMMA CompleteMove ==
  ASSUME ReceiveInv, Complete
  PROVE  ReceiveInv'
BY DEF ReceiveInv, RecvTypes, Chained, Walked, Complete, Whole

\* A buffer too short for its header and both fields is refused.
LEMMA ValidateMove ==
  ASSUME ReceiveInv, Validate
  PROVE  ReceiveInv'
<1>1. /\ phase = "completed" /\ phase' \in {"rejected", "valid"}
      /\ phase' = "valid" => ~TooShort
      /\ UNCHANGED <<namelen, controllen, written, used, buf_len, cmsg, visited>>
  BY DEF Validate
<1>2. phase' = "valid" => buf_len >= controllen + namelen + OutBytes
  BY <1>1 DEF TooShort, ReceiveInv, RecvTypes, OutBytes
<1>3. RecvTypes' /\ Chained'
  BY <1>1 DEF ReceiveInv, RecvTypes, Chained
<1>4. Walked'
  BY <1>1, <1>2 DEF ReceiveInv, Walked, Whole
<1> QED BY <1>3, <1>4 DEF ReceiveInv

\* A control field with room taken for a header begins with one.
LEMMA FirstMove ==
  ASSUME ReceiveInv, FirstHdr
  PROVE  ReceiveInv'
<1> DEFINE w == Len(written)
<1>1. /\ phase = "valid" /\ Len(visited) = 0 /\ w \in Nat
      /\ UNCHANGED <<namelen, controllen, written, used, buf_len>>
  BY LenProperties DEF FirstHdr, ReceiveInv, RecvTypes, Walked
<1>2. w > 0 => /\ used >= CmsgBytes /\ written[1].at = 0
               /\ written[1] \in Messages
  <2>1. SUFFICES ASSUME w > 0 PROVE /\ used >= CmsgBytes /\ written[1].at = 0
                                    /\ written[1] \in Messages
    OBVIOUS
  <2>2. 1 \in 1 .. w
    BY <1>1, <2>1
  <2>3. /\ written[1].at = 0 /\ written[1].len >= CmsgBytes
        /\ written[1].at + written[1].len <= used
    BY <2>2 DEF ReceiveInv, Chained
  <2>4. written[1] \in Messages
    BY <2>2, ElementOfSeq DEF ReceiveInv, RecvTypes
  <2> QED BY <2>3, <2>4 DEF Messages, CmsgBytes, ReceiveInv, RecvTypes
<1>3. Chained'
  BY <1>1 DEF ReceiveInv, Chained
<1>4. CASE used < CmsgBytes
  <2>1. phase' = "walked" /\ UNCHANGED <<cmsg, visited>>
    BY <1>4 DEF FirstHdr
  <2>2. w = 0
    BY <1>1, <1>2, <1>4 DEF CmsgBytes, ReceiveInv, RecvTypes
  <2>3. RecvTypes'
    BY <1>1, <2>1 DEF ReceiveInv, RecvTypes
  <2>4. Walked'
    BY <1>1, <2>1, <2>2 DEF ReceiveInv, Walked
  <2> QED BY <1>3, <2>3, <2>4 DEF ReceiveInv
<1>5. CASE ~(used < CmsgBytes)
  <2>1. cmsg' = 0 /\ visited' = <<0>> /\ phase' = "walk"
    BY <1>5 DEF FirstHdr
  <2>2. w > 0
    BY <1>1, <1>5 DEF CmsgBytes, ReceiveInv, Chained
  <2>3. visited' \in Seq(Nat) /\ Len(visited') = 1 /\ visited'[1] = 0
    BY <2>1
  <2>4. RecvTypes'
    BY <1>1, <2>1, <2>3 DEF ReceiveInv, RecvTypes
  <2>5. written[1].at = 0 /\ Whole(written[1])'
    BY <1>1, <1>2, <2>2 DEF Whole
  <2>6. Walked'
    <3>1. \A i \in 1 .. 1 : i = 1
      OBVIOUS
    <3>2. \A i \in 1 .. Len(visited') :
            visited'[i] = written'[i].at /\ Whole(written[i])'
      BY <1>1, <2>3, <2>5, <3>1
    <3>3. buf_len' >= controllen' + namelen' + OutBytes
      BY <1>1 DEF ReceiveInv, Walked
    <3>4. Len(visited') <= Len(written')
      BY <1>1, <2>2, <2>3
    <3> QED BY <1>1, <2>1, <2>3, <2>5, <3>2, <3>3, <3>4 DEF Walked
  <2> QED BY <1>3, <2>4, <2>6 DEF ReceiveInv
<1> QED BY <1>4, <1>5

\* From one message the walk finds the next if it is there with its padding,
\* and otherwise ends.
LEMMA NextMove ==
  ASSUME ReceiveInv, NextHdr
  PROVE  ReceiveInv'
<1> DEFINE w == Len(written)
           v == Len(visited)
           next == written[v].at + Padded(written[v].len)
<1>1. /\ phase = "walk" /\ v \in 1 .. w /\ v \in Nat /\ w \in Nat
      /\ cmsg = written[v].at
      /\ UNCHANGED <<namelen, controllen, written, used, buf_len>>
  BY LenProperties DEF NextHdr, ReceiveInv, RecvTypes, Walked
<1>2. \A i \in 1 .. w : LenAt(written[i].at) = written[i].len
  BY LenAtMessage DEF ReceiveInv
<1>3. \A i \in 1 .. w : written[i].at \in Nat /\ written[i].len \in Nat
  <2>1. \A i \in 1 .. w : written[i] \in Messages
    BY ElementOfSeq DEF ReceiveInv, RecvTypes
  <2> QED BY <2>1 DEF Messages
<1>4. /\ LenAt(cmsg) = written[v].len /\ written[v].len >= CmsgBytes
      /\ v < w => written[v + 1].at = next
      /\ v = w => used <= next
      /\ next \in Nat
  <2>1. Padded(written[v].len) \in Nat
    BY <1>1, <1>3, PaddedRounds
  <2> QED BY <1>1, <1>2, <1>3, <2>1 DEF ReceiveInv, Chained
<1>5. Chained'
  BY <1>1 DEF ReceiveInv, Chained
<1>6. \A i \in 1 .. v : visited[i] = written[i].at /\ Whole(written[i])
  BY DEF ReceiveInv, Walked
<1>7. used \in Nat /\ visited \in Seq(Nat)
  BY DEF ReceiveInv, RecvTypes
<1>8. buf_len' >= controllen' + namelen' + OutBytes
  BY <1>1 DEF ReceiveInv, Walked
<1> HIDE DEF w, v
<1>9. v < w => /\ v + 1 \in 1 .. w /\ written[v + 1].at = next
               /\ LenAt(next) = written[v + 1].len
  BY <1>1, <1>2, <1>4
<1>10. CASE Inside(next)
  <2>1. cmsg' = next /\ visited' = Append(visited, next) /\ phase' = phase
    BY <1>1, <1>4, <1>10 DEF NextHdr, Step
  <2>2. v < w
    BY <1>1, <1>4, <1>7, <1>10 DEF Inside, CmsgBytes
  <2>3. /\ visited' \in Seq(Nat) /\ Len(visited') = v + 1
        /\ \A i \in 1 .. v : visited'[i] = visited[i]
        /\ visited'[v + 1] = next
    BY <1>4, <1>7, <2>1, AppendProperties DEF v
  <2> HIDE DEF next
  <2>4. Whole(written[v + 1])
    BY <1>9, <1>10, <2>2 DEF Inside, Whole
  <2>5. ASSUME NEW i \in 1 .. v + 1
        PROVE  visited'[i] = written'[i].at /\ Whole(written[i])'
    <3>1. Whole(written[i])' <=> Whole(written[i])
      BY <1>1 DEF Whole
    <3>2. CASE i = v + 1
      BY <1>1, <1>9, <2>2, <2>3, <2>4, <3>1, <3>2
    <3>3. CASE i # v + 1
      <4>1. i \in 1 .. v
        BY <1>1, <3>3
      <4> QED BY <1>1, <1>6, <2>3, <3>1, <4>1
    <3> QED BY <3>2, <3>3
  <2>6. RecvTypes'
    BY <1>1, <1>4, <2>1, <2>3 DEF ReceiveInv, RecvTypes
  <2>7. Len(visited') <= Len(written') /\ Len(visited') > 0
        /\ cmsg' = written'[Len(visited')].at
    BY <1>1, <1>9, <2>1, <2>2, <2>3 DEF w
  <2>8. Walked'
    BY <1>1, <1>8, <2>1, <2>3, <2>5, <2>7 DEF Walked
  <2> QED BY <1>5, <2>6, <2>8 DEF ReceiveInv
<1>11. CASE ~Inside(next)
  <2>1. cmsg' = -1 /\ phase' = "walked" /\ visited' = visited
    BY <1>1, <1>4, <1>11 DEF NextHdr, Step
  <2>2. RecvTypes'
    BY <1>1, <2>1 DEF ReceiveInv, RecvTypes
  <2>3. ASSUME v < w
        PROVE  v + 1 = w /\ ~Whole(written[w])
    <3>1. /\ v + 1 \in 1 .. w /\ written[v + 1].at = next
          /\ LenAt(next) = written[v + 1].len
      BY <1>9, <2>3
    <3>2. /\ written[v + 1].len >= CmsgBytes
          /\ next + written[v + 1].len <= used
          /\ v + 1 < w => written[v + 2].at
                            = next + Padded(written[v + 1].len)
      BY <1>1, <3>1 DEF ReceiveInv, Chained, w
    <3>3. written[v + 1].len \in Nat
      BY <1>3, <3>1
    <3>4. Padded(written[v + 1].len) \in Nat
      BY <3>3, PaddedRounds
    <3>5. next + CmsgBytes <= used
      BY <1>4, <1>7, <3>2, <3>3 DEF CmsgBytes
    <3>6. ~(next + Padded(written[v + 1].len) <= used)
      BY <1>11, <3>1, <3>5 DEF Inside
    <3>7. v + 1 = w
      <4>1. ASSUME v + 1 < w PROVE FALSE
        <5>1. v + 2 \in 1 .. w
          BY <1>1, <4>1
        <5>2. written[v + 2].len >= CmsgBytes
              /\ written[v + 2].at + written[v + 2].len <= used
          BY <5>1 DEF ReceiveInv, Chained, w
        <5>3. written[v + 2].len \in Nat
          BY <1>3, <5>1
        <5> QED BY <1>4, <1>7, <3>2, <3>4, <3>6, <4>1, <5>2, <5>3
      <4> QED BY <1>1, <3>1, <4>1
    <3>8. next > 0
      <4>1. Padded(written[v].len) \in Nat /\ written[v].len <= Padded(written[v].len)
        BY <1>1, <1>3, PaddedRounds
      <4> QED BY <1>1, <1>3, <1>4, <4>1 DEF CmsgBytes
    <3> HIDE DEF next
    <3> QED BY <1>4, <3>1, <3>6, <3>7, <3>8 DEF Whole
  <2>4. \A c : Whole(c)' <=> Whole(c)
    BY <1>1 DEF Whole
  <2>5. v < w => v + 1 = w /\ ~Whole(written[w])'
    BY <1>1, <2>3 DEF Whole, w
  <2>6. Len(visited') = v /\ Len(written') = w /\ v <= w
    BY <1>1, <2>1 DEF v, w
  <2>7. Walked'
    BY <1>1, <1>6, <1>8, <2>1, <2>3, <2>4, <2>5, <2>6 DEF Walked
  <2> QED BY <1>5, <2>2, <2>7 DEF ReceiveInv
<1> QED BY <1>10, <1>11

\* The invariant is inductive.
LEMMA ReceiveStep == ReceiveInv /\ [ReceiveNext]_receiveVars => ReceiveInv'
<1> SUFFICES ASSUME ReceiveInv, [ReceiveNext]_receiveVars PROVE ReceiveInv'
  OBVIOUS
<1>1. CASE UNCHANGED receiveVars
  BY <1>1 DEF receiveVars, ReceiveInv, RecvTypes, Chained, Walked, Whole
<1>2. CASE \E n \in DataLengths : PutCmsg(n)
  BY <1>2, PutMove
<1>3. CASE Complete
  BY <1>3, CompleteMove
<1>4. CASE Validate
  BY <1>4, ValidateMove
<1>5. CASE FirstHdr
  BY <1>5, FirstMove
<1>6. CASE NextHdr
  BY <1>6, NextMove
<1> QED BY <1>1, <1>2, <1>3, <1>4, <1>5, <1>6 DEF ReceiveNext

-----------------------------------------------------------------------------
\* What the walk has handed out is what it should have, when it is over.
LEMMA WalkIsWhole ==
  ASSUME ReceiveInv
  PROVE  WalkFindsAll
<1> DEFINE w == Len(written)
           v == Len(visited)
           All == {c.at : c \in {c \in Range(written) : Whole(c)}}
<1>1. /\ w \in Nat /\ v \in Nat /\ v <= w /\ DOMAIN written = 1 .. w
      /\ DOMAIN visited = 1 .. v /\ visited \in Seq(Nat)
      /\ used \in Nat /\ controllen \in Nat /\ used <= controllen
  BY LenProperties DEF ReceiveInv, RecvTypes, Walked, Chained
<1>2. \A i \in 1 .. w : written[i].at \in Nat /\ written[i].len \in Nat
  <2>1. \A i \in 1 .. w : written[i] \in Messages
    BY ElementOfSeq DEF ReceiveInv, RecvTypes
  <2> QED BY <2>1 DEF Messages
<1>3. /\ \A i \in 1 .. v : visited[i] = written[i].at /\ Whole(written[i])
      /\ phase = "walked" /\ v < w => v + 1 = w /\ ~Whole(written[w])
  BY DEF ReceiveInv, Walked
<1>4. /\ Offsets \in Seq(Nat) /\ Len(Offsets) = w
      /\ \A i \in 1 .. w : Offsets[i] = written[i].at
  <2>1. Offsets = [i \in 1 .. w |-> written[i].at]
    BY <1>1 DEF Offsets
  <2>2. Offsets \in [1 .. w -> Nat]
    BY <1>2, <2>1
  <2>3. Offsets \in Seq(Nat) /\ Len(Offsets) = w
    BY <1>1, <2>2, FunctionIsSeq
  <2> QED BY <2>1, <2>3
<1>5. \A i \in 1 .. w : LenAt(written[i].at) = written[i].len
                       /\ written[i].at + written[i].len <= used
  BY LenAtMessage DEF ReceiveInv, Chained
<1>6. \A i, j \in 1 .. w : written[i].at = written[j].at => i = j
  <2>1. ASSUME NEW i \in 1 .. w, NEW j \in 1 .. w, written[i].at = written[j].at
        PROVE  i = j
    <3>1. ~(i < j) /\ ~(j < i)
      BY <1>2, <2>1 DEF ReceiveInv, Chained
    <3> QED BY <3>1
  <2> QED BY <2>1
<1>7. \A i \in 1 .. w : written[i].at \in All <=> Whole(written[i])
  <2>1. ASSUME NEW i \in 1 .. w, written[i].at \in All PROVE Whole(written[i])
    <3>1. PICK j \in 1 .. w : written[j].at = written[i].at /\ Whole(written[j])
      BY <1>1, <2>1 DEF Range
    <3> QED BY <1>6, <3>1
  <2>2. ASSUME NEW i \in 1 .. w, Whole(written[i]) PROVE written[i].at \in All
    <3>1. written[i] \in Range(written)
      BY <1>1 DEF Range
    <3> QED BY <2>2, <3>1
  <2> QED BY <2>1, <2>2
<1> HIDE DEF w, v, All
<1>8. IsPrefix(visited, Offsets)
  <2> DEFINE p == SubSeq(Offsets, 1, v)
             q == SubSeq(visited, 1, v)
  <2>1. \A i \in 1 .. v : visited[i] \in Nat /\ Offsets[i] \in Nat
    BY <1>1, <1>2, <1>3, <1>4
  <2>2. /\ p \in Seq(Nat) /\ Len(p) = v /\ \A i \in 1 .. v : p[i] = Offsets[i]
    BY <1>1, <2>1, SubSeqOne
  <2>3. /\ q \in Seq(Nat) /\ Len(q) = v /\ \A i \in 1 .. v : q[i] = visited[i]
    BY <1>1, <2>1, SubSeqOne
  <2> HIDE DEF p, q
  <2>4. ASSUME NEW i \in 1 .. v PROVE p[i] = q[i]
    <3>1. i \in 1 .. w
      BY <1>1
    <3>2. p[i] = Offsets[i] /\ q[i] = visited[i]
      BY <2>2, <2>3
    <3>3. Offsets[i] = written[i].at /\ visited[i] = written[i].at
      BY <1>3, <1>4, <3>1
    <3> QED BY <3>2, <3>3
  <2>5. p = q
    BY <2>2, <2>3, <2>4, SeqEqual
  <2> QED BY <1>1, <1>4, <2>5 DEF IsPrefix, p, q, v
<1>9. \A i \in DOMAIN visited : visited[i] + LenAt(visited[i]) <= controllen
  <2>1. ASSUME NEW i \in 1 .. v PROVE visited[i] + LenAt(visited[i]) <= controllen
    <3>1. i \in 1 .. w /\ visited[i] = written[i].at
      BY <1>1, <1>3
    <3> QED BY <1>1, <1>2, <1>5, <3>1
  <2> QED BY <1>1, <2>1
<1>10. ASSUME phase = "walked" PROVE visited = Only(Offsets, All)
  <2>1. Only(visited, All) = visited
    <3>1. \A i \in 1 .. Len(visited) : visited[i] \in All
      BY <1>1, <1>3, <1>7 DEF v
    <3> QED BY <1>1, <3>1, OnlyAll
  <2>2. CASE v = w
    <3>1. Offsets = visited
      <4>1. \A i \in 1 .. v : visited[i] = Offsets[i]
        BY <1>3, <1>4, <2>2
      <4> QED BY <1>1, <1>4, <2>2, <4>1, SeqEqual DEF v
    <3> QED BY <2>1, <3>1
  <2>3. CASE v # w
    <3>1. v + 1 = w /\ ~Whole(written[w]) /\ w \in 1 .. w
      BY <1>1, <1>3, <1>10, <2>3
    <3>2. written[w].at \in Nat /\ written[w].at \notin All
      BY <1>2, <1>7, <3>1
    <3> DEFINE t == Append(visited, written[w].at)
    <3>3. /\ t \in Seq(Nat) /\ Len(t) = w
          /\ \A i \in 1 .. v : t[i] = visited[i]
          /\ t[w] = written[w].at
      BY <1>1, <3>1, <3>2, AppendProperties DEF v
    <3>4. Only(t, All) = Only(visited, All)
      BY <1>1, <3>2, OnlyAppend
    <3> HIDE DEF t
    <3>5. \A i \in 1 .. w : t[i] = Offsets[i]
      <4>1. ASSUME NEW i \in 1 .. w PROVE t[i] = Offsets[i]
        <5>1. CASE i = w
          BY <1>4, <3>3, <5>1
        <5>2. CASE i # w
          <6>1. i \in 1 .. v
            BY <1>1, <3>1, <5>2
          <6> QED BY <1>3, <1>4, <3>3, <6>1
        <5> QED BY <5>1, <5>2
      <4> QED BY <4>1
    <3>6. t = Offsets
      BY <1>4, <3>3, <3>5, SeqEqual
    <3> QED BY <2>1, <3>4, <3>6
  <2> QED BY <2>2, <2>3
<1>11. ASSUME phase \in {"valid", "walk", "walked"}
       PROVE  Control + used <= Payload /\ PayloadLength >= 0
  <2>1. buf_len >= controllen + namelen + OutBytes
    BY <1>11 DEF ReceiveInv, Walked
  <2> QED BY <1>1, <2>1 DEF Control, Payload, PayloadLength, OutBytes,
                            ReceiveInv, RecvTypes
<1> QED BY <1>8, <1>9, <1>10, <1>11 DEF WalkFindsAll, All

\* Whatever lengths the fields have and whatever arrives, the walk over the
\* control messages hands out those the kernel wrote.
THEOREM WalkFinds == ReceiveSpec => []WalkFindsAll
<1>1. ReceiveInit => ReceiveInv
  BY InitReceive
<1>2. ReceiveInv /\ [ReceiveNext]_receiveVars => ReceiveInv'
  BY ReceiveStep
<1>3. ReceiveInv => WalkFindsAll
  BY WalkIsWhole
<1> QED BY <1>1, <1>2, <1>3, PTL DEF ReceiveSpec
-----------------------------------------------------------------------------
(* What is in a slot of the SQE array when the kernel reads it, for every  *)
(* set of helpers that each meet HelpersAssumption.  Apply is a fold over  *)
(* the writes of a helper: first what it does, then the life of a slot.    *)

\* Every field is a set of cells, which those of Single share with none.
LEMMA FieldCells ==
  /\ \A f \in Fields : Layout[f] \subseteq Cells
  /\ \A f \in Single : f \in Fields /\ f \in Cells /\ Layout[f] = {f}
BY DEF Layout, Fields, Cells

\* The definition of the recursive function in Apply, on 0 .. n.
Applied(f, s, ws, n) ==
  f = [i \in 0 .. n |-> IF i = 0 THEN s ELSE Write(f[i - 1], ws[i])]

\* It exists, so that CHOOSE finds it.
LEMMA AppliedExists ==
  ASSUME NEW s, NEW ws, NEW n \in Nat
  PROVE  \E f : Applied(f, s, ws, n)
<1> DEFINE T == {k \in Nat : \E f : Applied(f, s, ws, k)}
<1>1. 0 \in T
  <2>1. Applied([i \in 0 .. 0 |-> s], s, ws, 0)
    BY DEF Applied
  <2> QED BY <2>1
<1>2. ASSUME NEW k \in T PROVE k + 1 \in T
  <2>1. PICK f : Applied(f, s, ws, k)
    OBVIOUS
  <2> DEFINE new == Write(f[k], ws[k + 1])
             g   == [i \in 0 .. k + 1 |-> IF i = k + 1 THEN new ELSE f[i]]
  <2>2. ASSUME NEW i \in 0 .. k + 1
        PROVE  g[i] = IF i = 0 THEN s ELSE Write(g[i - 1], ws[i])
    <3>1. CASE i = k + 1
      <4>1. i # 0 /\ i - 1 = k /\ g[i - 1] = f[k] /\ g[i] = new
        BY <3>1
      <4> HIDE DEF g
      <4> QED BY <4>1, <3>1
    <3>2. CASE i # k + 1
      <4>1. i \in 0 .. k
        BY <3>2
      <4>2. g[i] = f[i] /\ (i # 0 => g[i - 1] = f[i - 1])
        BY <3>2, <4>1
      <4>3. f[i] = IF i = 0 THEN s ELSE Write(f[i - 1], ws[i])
        BY <2>1, <4>1 DEF Applied
      <4> HIDE DEF g
      <4> QED BY <4>2, <4>3
    <3> QED BY <3>1, <3>2
  <2>3. Applied(g, s, ws, k + 1)
    <3>1. g = [i \in 0 .. k + 1 |-> g[i]]
      OBVIOUS
    <3> HIDE DEF g
    <3> QED BY <2>2, <3>1 DEF Applied
  <2> HIDE DEF g
  <2> QED BY <2>3
<1>3. T \subseteq Nat
  OBVIOUS
<1> HIDE DEF T
<1>4. n \in T
  BY <1>1, <1>2, <1>3, NumbersByInduction
<1> QED BY <1>4 DEF T

\* Apply is the last value of it.
LEMMA ApplyApplied ==
  ASSUME NEW s, NEW ws, Len(ws) \in Nat
  PROVE  \E f : Applied(f, s, ws, Len(ws)) /\ Apply(s, ws) = f[Len(ws)]
<1> DEFINE f == CHOOSE f : Applied(f, s, ws, Len(ws))
<1>1. Apply(s, ws) = f[Len(ws)]
  BY DEF Apply, Applied
<1>2. Applied(f, s, ws, Len(ws))
  BY AppliedExists
<1> QED BY <1>1, <1>2

\* The cells that one of the first n writes assigns.
Covered(ws, n) ==
  {c \in Cells : \E i \in 1 .. n : ws[i][1] # "|" /\ c \in Layout[ws[i][2]]}

\* What is in cell c after the first n writes, of s and of what they put there.
Onto(s, ws, n, c, new) == (IF c \in Covered(ws, n) THEN {} ELSE s[c]) \cup new

IsSlot(x) == x = [c \in Cells |-> x[c]]

\* A slot after some writes is what those writes put into it, and the rest
\* of what was there where all of them only added.
LEMMA AppliedSplit ==
  ASSUME NEW s, IsSlot(s), NEW ws, NEW m \in Nat,
         NEW f, Applied(f, s, ws, m), NEW g, Applied(g, Blank, ws, m)
  PROVE  \A n \in 0 .. m :
           /\ IsSlot(f[n])
           /\ IsSlot(g[n])
           /\ \A c \in Cells :
                /\ f[n][c] = Onto(s, ws, n, c, g[n][c])
                /\ (\A i \in 1 .. n : c \notin Layout[ws[i][2]]) => f[n][c] = s[c]
<1> DEFINE Split(n) ==
             /\ IsSlot(f[n])
             /\ IsSlot(g[n])
             /\ \A c \in Cells :
                  /\ f[n][c] = Onto(s, ws, n, c, g[n][c])
                  /\ (\A i \in 1 .. n : c \notin Layout[ws[i][2]]) => f[n][c] = s[c]
           T == {n \in Nat : n <= m => Split(n)}
<1>1. 0 \in T
  <2>1. f[0] = s /\ g[0] = Blank
    BY DEF Applied
  <2>2. Covered(ws, 0) = {}
    BY DEF Covered
  <2>3. IsSlot(s)
    OBVIOUS
  <2>4. IsSlot(Blank)
    BY DEF IsSlot, Blank
  <2>5. ASSUME NEW c \in Cells PROVE Blank[c] = {}
    BY DEF Blank
  <2>6. Split(0)
    BY <2>1, <2>2, <2>3, <2>4, <2>5 DEF Onto
  <2> QED BY <2>6
<1>2. ASSUME NEW n \in T PROVE n + 1 \in T
  <2> SUFFICES ASSUME n + 1 <= m PROVE Split(n + 1)
    OBVIOUS
  <2> DEFINE w == ws[n + 1]
  <2>1. f[n + 1] = Write(f[n], w) /\ g[n + 1] = Write(g[n], w)
    <3>1. n + 1 \in 0 .. m /\ n + 1 # 0 /\ (n + 1) - 1 = n
      OBVIOUS
    <3> QED BY <3>1 DEF Applied
  <2>2. Split(n)
    OBVIOUS
  <2> HIDE DEF Split, w
  <2>3. IsSlot(f[n + 1])
    BY <2>1 DEF Write, IsSlot
  <2>4. IsSlot(g[n + 1])
    BY <2>1 DEF Write, IsSlot
  <2>5. ASSUME NEW c \in Cells
        PROVE  f[n + 1][c] = Onto(s, ws, n + 1, c, g[n + 1][c])
    <3>1. f[n][c] = Onto(s, ws, n, c, g[n][c])
      BY <2>2 DEF Split
    <3>2. c \in Covered(ws, n + 1) <=>
            c \in Covered(ws, n) \/ (w[1] # "|" /\ c \in Layout[w[2]])
      <4>1. \A i : i \in 1 .. n + 1 <=> i \in 1 .. n \/ i = n + 1
        OBVIOUS
      <4> QED BY <4>1, Zenon DEF Covered, w
    <3>3. CASE c \in Layout[w[2]]
      <4>1. /\ f[n + 1][c] = Written(f[n][c], w[1], w[3])
            /\ g[n + 1][c] = Written(g[n][c], w[1], w[3])
        BY <2>1, <3>3 DEF Write
      <4> QED BY <3>1, <3>2, <3>3, <4>1 DEF Written, Onto
    <3>4. CASE c \notin Layout[w[2]]
      <4>1. f[n + 1][c] = f[n][c] /\ g[n + 1][c] = g[n][c]
        BY <2>1, <3>4 DEF Write
      <4> QED BY <3>1, <3>2, <3>4, <4>1 DEF Onto
    <3> QED BY <3>3, <3>4
  <2>6. ASSUME NEW c \in Cells,
               \A i \in 1 .. n + 1 : c \notin Layout[ws[i][2]]
        PROVE  f[n + 1][c] = s[c]
    <3>1. \A i : i \in 1 .. n + 1 <=> i \in 1 .. n \/ i = n + 1
      OBVIOUS
    <3>2. c \notin Layout[w[2]] /\ \A i \in 1 .. n : c \notin Layout[ws[i][2]]
      BY <2>6, <3>1, Zenon DEF w
    <3>3. f[n][c] = s[c]
      BY <2>2, <3>2 DEF Split
    <3>4. f[n + 1][c] = f[n][c]
      BY <2>1, <3>2 DEF Write
    <3> QED BY <3>3, <3>4
  <2> QED BY <2>3, <2>4, <2>5, <2>6 DEF Split
<1>3. T \subseteq Nat
  OBVIOUS
<1> HIDE DEF T
<1>4. \A n \in Nat : n \in T
  BY <1>1, <1>2, <1>3, NumbersByInduction
<1>5. ASSUME NEW n \in 0 .. m PROVE Split(n)
  BY <1>4 DEF T
<1> QED BY <1>5

\* Applying writes to a slot: what they put into a slot of zeroes, and the
\* rest of what was there in the cells that none of them assigns.
LEMMA ApplySplit ==
  ASSUME NEW s, IsSlot(s), NEW ws, NEW X, ws \in Seq(X)
  PROVE  /\ IsSlot(Apply(s, ws))
         /\ \A c \in Cells :
              /\ Apply(s, ws)[c]
                   = Onto(s, ws, Len(ws), c, Apply(Blank, ws)[c])
              /\ (\A i \in DOMAIN ws : c \notin Layout[ws[i][2]])
                   => Apply(s, ws)[c] = s[c]
<1>1. Len(ws) \in Nat /\ DOMAIN ws = 1 .. Len(ws)
  BY LenProperties
<1>2. PICK f : Applied(f, s, ws, Len(ws)) /\ Apply(s, ws) = f[Len(ws)]
  BY <1>1, ApplyApplied
<1>3. PICK g : /\ Applied(g, Blank, ws, Len(ws))
               /\ Apply(Blank, ws) = g[Len(ws)]
  BY <1>1, ApplyApplied
<1> DEFINE m == Len(ws)
<1>4. m \in Nat /\ m \in 0 .. m
  BY <1>1
<1>5. Applied(f, s, ws, m) /\ Applied(g, Blank, ws, m)
  BY <1>2, <1>3
<1> HIDE DEF m
<1>6. \A n \in 0 .. m :
        /\ IsSlot(f[n])
        /\ \A c \in Cells :
             /\ f[n][c] = Onto(s, ws, n, c, g[n][c])
             /\ (\A i \in 1 .. n : c \notin Layout[ws[i][2]]) => f[n][c] = s[c]
  <2> HIDE <1>1, <1>2, <1>3
  <2> QED BY <1>4, <1>5, AppliedSplit
<1> QED BY <1>1, <1>2, <1>3, <1>4, <1>6 DEF m

\* One write.
LEMMA ApplyOne ==
  ASSUME NEW s, NEW w
  PROVE  Apply(s, <<w>>) = Write(s, w)
<1>1. Len(<<w>>) = 1 /\ <<w>>[1] = w
  OBVIOUS
<1>2. PICK f : Applied(f, s, <<w>>, 1) /\ Apply(s, <<w>>) = f[1]
  BY <1>1, ApplyApplied
<1>3. f[1] = Write(f[0], <<w>>[1]) /\ f[0] = s
  BY <1>2 DEF Applied
<1> QED BY <1>1, <1>2, <1>3

\* The cells that init_sqe resets, user_data not being one of them.
ResetCells == CellsOf(Reset) \ {"user_data"}

\* user_data lies over no other field.
LEMMA UserDataCell ==
  "user_data" \in Cells /\ Layout["user_data"] = {"user_data"}
BY FieldCells DEF Single

\* A helper writes to fields, by = or by |=.
LEMMA HowWritten ==
  ASSUME NEW k \in Helpers, NEW i \in DOMAIN k.writes
  PROVE  k.writes[i][1] \in {"=", "|"} /\ k.writes[i][2] \in Fields
<1>1. k.writes \in Seq({"=", "|"} \X (DOMAIN Layout) \X STRING)
  BY HelpersAssumption
<1>2. k.writes[i] \in {"=", "|"} \X (DOMAIN Layout) \X STRING
  <2> DEFINE X == {"=", "|"} \X (DOMAIN Layout) \X STRING
             ws == k.writes
  <2> HIDE DEF X, ws
  <2> QED BY <1>1, ElementOfSeq, LenProperties DEF X, ws
<1>3. DOMAIN Layout = Fields
  BY DEF Layout
<1> QED BY <1>2, <1>3

\* What a helper leaves in a slot is what it leaves in one of zeroes, and in
\* reset cells that it does not assign what was there before.  user_data it
\* leaves alone.
LEMMA HelperOn ==
  ASSUME NEW k \in Helpers,
         NEW s, IsSlot(s)
  PROVE  /\ IsSlot(Apply(s, k.writes))
         /\ \A c \in Cells \ {"user_data"} :
              Apply(s, k.writes)[c] =
                (IF c \in ResetCells \ Assigned(k) THEN s[c] ELSE {})
                \cup Apply(Blank, k.writes)[c]
         /\ Apply(s, k.writes)["user_data"] = s["user_data"]
<1> DEFINE ws == k.writes
<1>1. PICK X : ws \in Seq(X)
  BY HelpersAssumption
<1>2. /\ Cells \ {"user_data"} \subseteq ResetCells \cup Assigned(k)
      /\ "user_data" \notin Touched(k)
  <2>1. /\ Cells \ {"user_data"}
              \subseteq CellsOf(Reset) \cup Assigned(k)
        /\ "user_data" \notin Touched(k)
    BY HelpersAssumption
  <2> QED BY <2>1, Zenon DEF ResetCells
<1>3. /\ IsSlot(Apply(s, ws))
      /\ \A c \in Cells :
           /\ Apply(s, ws)[c]
                = Onto(s, ws, Len(ws), c, Apply(Blank, ws)[c])
           /\ (\A i \in DOMAIN ws : c \notin Layout[ws[i][2]])
                => Apply(s, ws)[c] = s[c]
  <2> HIDE DEF ws
  <2> QED BY <1>1, ApplySplit
<1>4. ASSUME NEW c \in Cells \ {"user_data"}
      PROVE  Apply(s, ws)[c] =
               (IF c \in ResetCells \ Assigned(k) THEN s[c] ELSE {})
               \cup Apply(Blank, ws)[c]
  <2>1. CASE c \in ResetCells \ Assigned(k)
    <3>1. c \notin Covered(ws, Len(ws))
      <4>1. DOMAIN ws = 1 .. Len(ws)
        BY <1>1, LenProperties
      <4>2. \A i \in DOMAIN ws : ws[i][1] \in {"=", "|"}
        BY HowWritten
      <4>3. \A i \in DOMAIN ws : ~(ws[i][1] = "=" /\ c \in Layout[ws[i][2]])
        BY <2>1, Zenon DEF Assigned
      <4> HIDE DEF ws
      <4> QED BY <4>1, <4>2, <4>3 DEF Covered
    <3>2. \A x : Onto(s, ws, Len(ws), c, x) = s[c] \cup x
      BY <3>1 DEF Onto
    <3> HIDE DEF ws
    <3> QED BY <1>3, <2>1, <3>2
  <2>2. CASE c \in Assigned(k)
    <3>1. DOMAIN ws = 1 .. Len(ws)
      BY <1>1, LenProperties
    <3>2. PICK i \in DOMAIN ws : ws[i][1] = "=" /\ c \in Layout[ws[i][2]]
      BY <2>2 DEF Assigned
    <3>3. c \in Covered(ws, Len(ws))
      <4>1. ws[i][1] # "|"
        BY <3>2
      <4> HIDE DEF ws
      <4> QED BY <3>1, <3>2, <4>1 DEF Covered
    <3>4. \A x : Onto(s, ws, Len(ws), c, x) = x
      BY <3>3 DEF Onto
    <3> HIDE DEF ws
    <3> QED BY <1>3, <2>2, <3>4
  <2> QED BY <1>2, <2>1, <2>2
<1>5. Apply(s, ws)["user_data"] = s["user_data"]
  <2>1. \A i \in DOMAIN ws : "user_data" \notin Layout[ws[i][2]]
    BY <1>2 DEF Touched, CellsOf
  <2> QED BY <1>3, <2>1, UserDataCell
<1> QED BY <1>3, <1>4, <1>5

\* What the application may set by itself.
Own == {"user_data", "flags", "ioprio", "personality", "buf_group", "file_index", "cmd"}

\* They are fields.
LEMMA OwnFields == \A f \in Own : f \in Fields
<1>1. /\ Shared["half40"] = {"buf_index", "buf_group"}
      /\ "half40" \in DOMAIN Shared
  BY DEF Shared
<1>2. /\ Shared["byte46"] = {"file_index", "splice_fd_in", "optlen"}
      /\ "byte46" \in DOMAIN Shared
  BY DEF Shared
<1>3. Shared["byte56"] = {"__pad2", "cmd"} /\ "byte56" \in DOMAIN Shared
  BY DEF Shared
<1> QED BY <1>1, <1>2, <1>3 DEF Own, Fields, Single

\* What init_sqe resets are fields, that is, sets of cells.
LEMMA ResetIsFields == Reset \subseteq Fields
<1>1. /\ Shared["word28"] = FlagWord /\ "word28" \in DOMAIN Shared
      /\ Shared["half40"] = {"buf_index", "buf_group"}
      /\ "half40" \in DOMAIN Shared
      /\ Shared["byte46"] = {"file_index", "splice_fd_in", "optlen"}
      /\ "byte46" \in DOMAIN Shared
      /\ Shared["byte48"] = {"addr3", "optval", "cmd"}
      /\ "byte48" \in DOMAIN Shared
      /\ Shared["byte56"] = {"__pad2", "cmd"} /\ "byte56" \in DOMAIN Shared
  BY DEF Shared
<1>2. "rw_flags" \in FlagWord
  BY DEF FlagWord
<1> QED BY <1>1, <1>2 DEF Reset, Fields, Single

LEMMA ResetAreCells == ResetCells \subseteq Cells
BY ResetIsFields, FieldCells DEF ResetCells, CellsOf

LEMMA FlagsAreReset == {"flags", "ioprio"} \subseteq ResetCells
<1>1. "flags" \in Layout["flags"] /\ "ioprio" \in Layout["ioprio"]
  BY FieldCells DEF Single
<1> QED BY <1>1 DEF ResetCells, CellsOf, Reset

\* The inductive invariant: between two requests only names of earlier ones
\* are in the slot; get_sqe has cleared what a helper need not write, and
\* only flags are set before one; and what was set is still there.
SlotInv ==
  /\ SlotTypeOK
  /\ stage = "free" => \A c \in Cells \ {"user_data"} : sqe[c] \subseteq {"old"}
  /\ stage = "got" =>
       /\ said \subseteq {"user_data", "flags", "ioprio"}
       /\ \A c \in Cells \ {"user_data"} : sqe[c] \subseteq {"mine", "old"}
       /\ \A c \in ResetCells : sqe[c] \subseteq {"mine"}
  /\ stage # "free" => \A f \in said : \A c \in Layout[f] : "mine" \in sqe[c]
  /\ NothingInherited
  /\ AllSaid

\* A fresh slot.
LEMMA InitSlot == SlotInit => SlotInv
<1> SUFFICES ASSUME SlotInit PROVE SlotInv
  OBVIOUS
<1>1. sqe = Blank /\ call \in Helpers /\ said = {} /\ stage = "free"
  BY DEF SlotInit
<1>2. sqe \in [Cells -> SUBSET Values] /\ \A c \in Cells : sqe[c] = {}
  BY <1>1 DEF Blank
<1> QED BY <1>1, <1>2 DEF SlotInv, SlotTypeOK, NothingInherited, AllSaid

\* get_sqe: the reset fields go back to zero, the others keep old values.
LEMMA GetSlot == SlotInv /\ GetSqe => SlotInv'
<1> SUFFICES ASSUME SlotInv, GetSqe PROVE SlotInv'
  OBVIOUS
<1>1. /\ stage = "free" /\ stage' = "got" /\ said' = {} /\ call' = call
      /\ sqe' = [c \in Cells |->
                   IF c \in CellsOf(Reset) THEN {} ELSE sqe[c]]
  BY DEF GetSqe, InitSqe, ResetFields
<1>2. \A c \in Cells : sqe'[c] = {} \/ sqe'[c] = sqe[c]
  BY <1>1
<1>3. sqe \in [Cells -> SUBSET Values]
  BY DEF SlotInv, SlotTypeOK
<1>4. sqe' \in [Cells -> SUBSET Values]
  BY <1>1, <1>3
<1>5. \A c \in ResetCells : sqe'[c] = {}
  BY <1>1, ResetAreCells DEF ResetCells
<1>6. SlotTypeOK'
  BY <1>1, <1>2, <1>4 DEF SlotInv, SlotTypeOK, Values
<1>7. \A c \in Cells \ {"user_data"} : sqe'[c] \subseteq {"mine", "old"}
  BY <1>1, <1>2 DEF SlotInv
<1> QED BY <1>1, <1>5, <1>6, <1>7 DEF SlotInv, NothingInherited, AllSaid

\* The kernel has read the slot: all that is in it is old.
LEMMA ConsumeSlot == SlotInv /\ Consume => SlotInv'
<1> SUFFICES ASSUME SlotInv, Consume PROVE SlotInv'
  OBVIOUS
<1>1. /\ stage = "prepared" /\ stage' = "free" /\ said' = said /\ call' = call
      /\ sqe' = [c \in Cells |-> IF sqe[c] = {} THEN {} ELSE {"old"}]
  BY DEF Consume
<1>2. \A c \in Cells : sqe'[c] = {} \/ sqe'[c] = {"old"}
  BY <1>1
<1>3. "old" \in Values
  BY DEF Values
<1>4. sqe' \in [Cells -> SUBSET Values]
  BY <1>1, <1>3
<1>5. SlotTypeOK'
  BY <1>1, <1>2, <1>4 DEF SlotInv, SlotTypeOK, Values
<1> QED BY <1>1, <1>2, <1>5 DEF SlotInv, NothingInherited, AllSaid

\* A helper: the slot holds what it would hold if it had been zero before, and
\* what has been set for this request and the helper does not replace.
LEMMA PrepSlot == SlotInv /\ Prep => SlotInv'
<1> SUFFICES ASSUME SlotInv, Prep PROVE SlotInv'
  OBVIOUS
<1> DEFINE own == Apply(Blank, call'.writes)
<1>1. /\ stage = "got" /\ stage' = "prepared" /\ said' = said \ Replaced(call')
      /\ call' \in Helpers /\ sqe' = Apply(sqe, call'.writes)
  BY DEF Prep, PrepIn
<1>2. sqe \in [Cells -> SUBSET Values]
  BY DEF SlotInv, SlotTypeOK
<1>3. /\ \A a \in call'.args : \E i \in DOMAIN call'.writes : call'.writes[i][3] = a
      /\ \A i \in DOMAIN call'.writes : call'.writes[i][3] \in call'.args =>
           \A c \in Layout[call'.writes[i][2]] : call'.writes[i][3] \in own[c]
      /\ \A c \in Cells : own[c] \subseteq call'.args \cup {"-1"}
      /\ "old" \notin call'.args
      /\ "user_data" \notin Touched(call')
      /\ Assigned(call') \cap {"flags", "ioprio"} \subseteq Replaced(call')
  BY <1>1, HelpersAssumption
<1> HIDE DEF own
<1>4. /\ IsSlot(sqe')
      /\ \A c \in Cells \ {"user_data"} :
           sqe'[c] = (IF c \in ResetCells \ Assigned(call') THEN sqe[c] ELSE {})
                       \cup own[c]
      /\ sqe'["user_data"] = sqe["user_data"]
  <2>1. IsSlot(sqe)
    BY <1>2 DEF IsSlot
  <2> QED BY <1>1, <2>1, HelperOn DEF own
<1>4a. \A c \in Cells \ {"user_data"} :
         own[c] \subseteq sqe'[c] /\ sqe'[c] \subseteq own[c] \cup {"mine"}
  BY <1>1, <1>4 DEF SlotInv
<1>5. call'.args \subseteq Values
  BY <1>1 DEF Values
<1>6. SlotTypeOK'
  <2>1. ASSUME NEW c \in Cells
        PROVE  sqe'[c] \in SUBSET Values /\ ("old" \in sqe'[c] => sqe'[c] = {"old"})
    <3>1. CASE c = "user_data"
      BY <1>2, <1>4, <3>1 DEF SlotInv, SlotTypeOK
    <3>2. CASE c # "user_data"
      <4>1. sqe'[c] \subseteq call'.args \cup {"-1", "mine"}
        BY <1>3, <1>4a, <3>2
      <4> QED BY <4>1, <1>3, <1>5 DEF Values
    <3> QED BY <3>1, <3>2
  <2>2. sqe' \in [Cells -> SUBSET Values]
    BY <2>1, <1>4 DEF IsSlot
  <2>3. Values' = Values
    BY DEF Values
  <2> QED BY <1>1, <2>1, <2>2, <2>3 DEF SlotInv, SlotTypeOK
<1>7. NothingInherited'
  BY <1>3, <1>4a DEF NothingInherited
<1>8. \A f \in said' : \A c \in Layout[f] : "mine" \in sqe'[c]
  <2> SUFFICES ASSUME NEW f \in said', NEW c \in Layout[f]
               PROVE  "mine" \in sqe'[c]
    OBVIOUS
  <2>1. f \in said /\ f \notin Replaced(call') /\ f \in {"user_data", "flags", "ioprio"}
    BY <1>1 DEF SlotInv
  <2>2. c = f /\ c \in Cells
    BY <2>1, FieldCells DEF Single
  <2>3. "mine" \in sqe[c]
    BY <1>1, <2>1 DEF SlotInv
  <2>4. CASE f = "user_data"
    BY <1>4, <2>2, <2>3, <2>4
  <2>5. CASE f # "user_data"
    <3>1. f \in {"flags", "ioprio"} /\ c # "user_data"
      BY <2>1, <2>2, <2>5
    <3>2. c \notin Assigned(call')
      BY <1>3, <2>1, <2>2, <3>1
    <3> QED BY <1>4, <2>2, <2>3, <3>1, <3>2, FlagsAreReset
  <2> QED BY <2>4, <2>5
<1>9. AllSaid'
  <2>1. ASSUME NEW i \in DOMAIN call'.writes, call'.writes[i][3] \in call'.args,
               NEW c \in Layout[call'.writes[i][2]]
        PROVE  call'.writes[i][3] \in sqe'[c]
    <3>1. call'.writes[i][3] \in own[c]
      BY <1>3, <2>1
    <3>2. c \in Cells /\ c # "user_data"
      <4>1. call'.writes[i][2] \in Fields
        BY <1>1, HowWritten
      <4>2. c \in Touched(call')
        BY DEF Touched, CellsOf
      <4> QED BY <4>1, <4>2, <1>3, FieldCells
    <3> QED BY <1>4a, <3>1, <3>2
  <2> QED BY <1>3, <1>8, <2>1 DEF AllSaid
<1> QED BY <1>1, <1>6, <1>7, <1>8, <1>9 DEF SlotInv

\* A field the application sets or adds to by itself.
OwnWrite(how, f) ==
  /\ sqe' = Write(sqe, <<how, f, "mine">>)
  /\ said' = said \cup {f} /\ call' = call /\ stage' = stage

\* What the helper said stays whole, and is not mixed with older values: a
\* flag is added where the helper assigned, any other field is the application's.
LEMMA OwnStep ==
  ASSUME SlotInv, NEW f \in Own, NEW how, OwnWrite(how, f),
         stage # "free", stage = "got" => f \in {"user_data", "flags", "ioprio"},
         how = "|" => f \in {"flags", "ioprio"},
         stage = "prepared" /\ how # "|" => Layout[f] \cap Touched(call) = {}
  PROVE  SlotInv'
<1>1. /\ sqe \in [Cells -> SUBSET Values] /\ call \in Helpers
      /\ stage \in {"free", "got", "prepared"} /\ said \subseteq Own
  BY DEF SlotInv, SlotTypeOK, Own
<1>2. said' = said \cup {f} /\ call' = call /\ stage' = stage
  BY DEF OwnWrite
<1>3. /\ IsSlot(sqe')
      /\ \A c \in Cells :
           sqe'[c] = IF c \in Layout[f]
                     THEN (IF how = "|" THEN sqe[c] ELSE {}) \cup {"mine"} ELSE sqe[c]
  BY DEF OwnWrite, Write, Written, IsSlot
<1>4. Layout[f] \subseteq Cells
  BY OwnFields, FieldCells
<1>5. ASSUME how = "|", NEW c \in Layout[f] PROVE "old" \notin sqe[c]
  <2>1. c \in {"flags", "ioprio"} /\ c \in Cells
    BY <1>5, FieldCells DEF Single
  <2>2. CASE stage = "prepared"
    <3>1. "old" \notin call.args
      BY <1>1, HelpersAssumption
    <3> QED BY <2>1, <2>2, <3>1 DEF SlotInv, NothingInherited
  <2>3. CASE stage = "got"
    <3>1. c \in ResetCells
      BY <2>1, FlagsAreReset
    <3> QED BY <2>3, <3>1 DEF SlotInv
  <2> QED BY <1>1, <2>2, <2>3
<1>6. \A c \in Cells : sqe'[c] \subseteq sqe[c] \cup {"mine"}
  BY <1>3
<1>7. ASSUME NEW g \in said', NEW c \in Layout[g] PROVE "mine" \in sqe'[c]
  <2>1. c \in Cells
    BY <1>1, <1>2, OwnFields, FieldCells
  <2>2. CASE c \in Layout[f]
    BY <1>3, <2>1, <2>2
  <2>3. CASE c \notin Layout[f]
    <3>1. g \in said
      BY <1>2, <2>3
    <3>2. "mine" \in sqe[c]
      BY <3>1 DEF SlotInv
    <3> QED BY <1>3, <2>1, <2>3, <3>2
  <2> QED BY <2>2, <2>3
<1>8. SlotTypeOK'
  <2>1. ASSUME NEW c \in Cells
        PROVE  sqe'[c] \in SUBSET Values /\ ("old" \in sqe'[c] => sqe'[c] = {"old"})
    <3>1. sqe[c] \in SUBSET Values /\ ("old" \in sqe[c] => sqe[c] = {"old"})
      BY <1>1 DEF SlotInv, SlotTypeOK
    <3>2. "mine" \in Values
      BY DEF Values
    <3>3. CASE c \in Layout[f] /\ how = "|"
      <4>1. "old" \notin sqe[c]
        BY <1>5, <3>3
      <4>2. sqe'[c] = sqe[c] \cup {"mine"}
        BY <1>3, <3>3
      <4> QED BY <3>1, <3>2, <4>1, <4>2
    <3>4. CASE c \in Layout[f] /\ how # "|"
      <4>1. sqe'[c] = {"mine"}
        BY <1>3, <3>4
      <4> QED BY <3>2, <4>1
    <3>5. CASE c \notin Layout[f]
      BY <1>3, <3>1, <3>5
    <3> QED BY <3>3, <3>4, <3>5
  <2>2. sqe' \in [Cells -> SUBSET Values]
    BY <2>1, <1>3 DEF IsSlot
  <2>3. Values' = Values
    BY DEF Values
  <2> QED BY <1>1, <1>2, <2>1, <2>2, <2>3 DEF Own, SlotTypeOK
<1>9. NothingInherited'
  <2>1. ASSUME stage = "prepared", NEW c \in Cells \ {"user_data"}
        PROVE  sqe'[c] \subseteq call.args \cup {"-1", "mine"}
    <3>1. sqe[c] \subseteq call.args \cup {"-1", "mine"}
      BY <2>1 DEF SlotInv, NothingInherited
    <3>2. sqe'[c] \subseteq sqe[c] \cup {"mine"}
      BY <1>6
    <3> QED BY <3>1, <3>2
  <2> QED BY <1>2, <2>1 DEF NothingInherited
<1>10. AllSaid'
  <2>1. ASSUME stage = "prepared",
               NEW i \in DOMAIN call.writes, call.writes[i][3] \in call.args,
               NEW c \in Layout[call.writes[i][2]]
        PROVE  call.writes[i][3] \in sqe'[c]
    <3>1. call.writes[i][3] \in sqe[c]
      BY <2>1 DEF SlotInv, AllSaid
    <3>2. c \in Touched(call)
      BY DEF Touched, CellsOf
    <3>3. c \in Cells
      <4>1. call.writes[i][2] \in Fields
        BY <1>1, HowWritten
      <4> QED BY <4>1, FieldCells
    <3> QED BY <1>3, <2>1, <3>1, <3>2, <3>3
  <2> QED BY <1>2, <1>7, <2>1 DEF SlotInv, AllSaid
<1>11. ASSUME stage = "got"
       PROVE  /\ said' \subseteq {"user_data", "flags", "ioprio"}
              /\ \A c \in Cells \ {"user_data"} : sqe'[c] \subseteq {"mine", "old"}
              /\ \A c \in ResetCells : sqe'[c] \subseteq {"mine"}
  BY <1>2, <1>6, <1>11, ResetAreCells DEF SlotInv
<1> QED BY <1>2, <1>7, <1>8, <1>9, <1>10, <1>11 DEF SlotInv

\* What the application sets is such a write.
LEMMA OwnSlot ==
  /\ SlotInv
  /\ SetUserData \/ AddFlags \/ SetField
  => SlotInv'
<1> SUFFICES ASSUME SlotInv,
                    SetUserData \/ AddFlags \/ SetField
             PROVE  SlotInv'
  OBVIOUS
<1>1. \A f, how : Apply(sqe, << <<how, f, "mine">> >>)
                     = Write(sqe, <<how, f, "mine">>)
  BY ApplyOne
<1>2. CASE SetUserData
  <2>1. stage # "free" /\ OwnWrite("=", "user_data")
    BY <1>1, <1>2 DEF SetUserData, Set, OwnWrite
  <2>2. Layout["user_data"] \cap Touched(call) = {}
    <3>1. call \in Helpers
      BY DEF SlotInv, SlotTypeOK
    <3>2. "user_data" \notin Touched(call)
      BY <3>1, HelpersAssumption
    <3> QED BY <3>2, UserDataCell
  <2> QED BY <2>1, <2>2, OwnStep DEF Own
<1>3. CASE AddFlags
  <2>1. PICK f \in {"flags", "ioprio"} : stage # "free" /\ OwnWrite("|", f)
    BY <1>1, <1>3 DEF AddFlags, Or, OwnWrite
  <2> QED BY <2>1, OwnStep DEF Own
<1>4. CASE SetField
  <2>1. PICK f \in {"personality", "buf_group", "file_index", "cmd"} :
          /\ stage = "prepared" /\ OwnWrite("=", f)
          /\ Layout[f] \cap Touched(call) = {}
    BY <1>1, <1>4 DEF SetField, Set, OwnWrite
  <2> QED BY <2>1, OwnStep DEF Own
<1> QED BY <1>2, <1>3, <1>4

\* Hence the invariant holds of any number of requests through the slot.
LEMMA SlotInvHolds == SlotSpec => []SlotInv
<1>1. SlotInv /\ [SlotNext]_slotVars => SlotInv'
  <2> SUFFICES ASSUME SlotInv, [SlotNext]_slotVars PROVE SlotInv'
    OBVIOUS
  <2>1. CASE UNCHANGED slotVars
    BY <2>1 DEF slotVars, SlotInv, SlotTypeOK, NothingInherited, AllSaid
  <2>2. CASE SlotNext
    BY <2>2, GetSlot, PrepSlot, OwnSlot, ConsumeSlot DEF SlotNext
  <2> QED BY <2>1, <2>2
<1> QED BY <1>1, InitSlot, PTL DEF SlotSpec

\* A slot never mixes the values of a request with those of the one before it,
\* and names nothing else than arguments, constants and what was set.
THEOREM SlotTypeCorrect == SlotSpec => []SlotTypeOK
<1>1. SlotInv => SlotTypeOK
  BY DEF SlotInv
<1> QED BY <1>1, SlotInvHolds, PTL

\* However many requests went through a slot, and whatever the application set
\* for them: what the kernel reads there was said for this one.  init_sqe
\* resets too little for that by itself, and a helper writes too little.
THEOREM NothingInheritedHolds == SlotSpec => []NothingInherited
<1>1. SlotInv => NothingInherited
  BY DEF SlotInv
<1> QED BY <1>1, SlotInvHolds, PTL

\* Everything said for a request reaches the kernel: the arguments of the
\* helper through its overlapping fields, the user_data set before it, the
\* flags and fields set after it.
THEOREM AllSaidHolds == SlotSpec => []AllSaid
<1>1. SlotInv => AllSaid
  BY DEF SlotInv
<1> QED BY <1>1, SlotInvHolds, PTL
=============================================================================
