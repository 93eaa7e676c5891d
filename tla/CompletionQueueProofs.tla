----------------------- MODULE CompletionQueueProofs ------------------------
(***************************************************************************)
(* For rings of any size, positions of any width and completions of one or *)
(* two slots: the state is well typed, the loops over the ring stop, what  *)
(* the application holds a pointer to is not overwritten, a wait delivers, *)
(* and completions reach the program in the order they were posted, each   *)
(* once and none lost.                                                     *)
(*                                                                         *)
(* The heart of it is the notion of an edge, a position between two CQEs.  *)
(* A loop that compares positions with # stops because it runs from an     *)
(* edge to an edge, and cqe_nr carries an edge to the next one.            *)
(***************************************************************************)
EXTENDS CompletionQueue, RingLemmas, TLAPS

Ring == [0 .. CqEntries - 1 -> Posted \cup {Half, Filler, NoCqe}]

\* Of the ring q between the head h and the tail t: it does not overflow,
\* every slot was written, and the two slots of a big CQE stand together.
PairedIn(q, h, t) ==
  /\ Sub(t, h) <= CqEntries
  /\ \A c \in Counter : Sub(c, h) < Sub(t, h) =>
       /\ q[Slot(c)] \in Posted \cup {Half, Filler}
       /\ q[Slot(c)] \in Big => /\ Sub(c, h) + 1 < Sub(t, h)
                                /\ q[Slot(Add(c, 1))] = Half
       /\ q[Slot(c)] = Half => c # h /\ q[Slot(Sub(c, 1))] \in Big

\* c is a position between two CQEs, not after the tail.
EdgeIn(c, q, h, t) ==
  /\ Sub(c, h) <= Sub(t, h)
  /\ Sub(c, h) < Sub(t, h) => q[Slot(c)] # Half

\* What stands between h and t in q stands there in p too.
Kept(q, p, h, t) ==
  \A c \in Counter : Sub(c, h) < Sub(t, h) => p[Slot(c)] = q[Slot(c)]

Size    == Sub(ktail, khead)
Dist(c) == Sub(c, khead)
Paired  == PairedIn(cqes, khead, ktail)
Edge(c) == EdgeIn(c, cqes, khead, ktail)

\* The positions of the loop in progress are edges, in this order.
LoopInv ==
  /\ pc = "scan" => Edge(tail)
  /\ pc \in {"each", "stop"} =>
       Edge(head) /\ Edge(tail) /\ Dist(head) <= Dist(tail)

\* p is a pointer to the CQE at c in the ring q.
PointsTo(p, q, c) == p = [slot |-> Slot(c), cqe |-> q[Slot(c)]]

\* The pointers of l lead into the ring, and are no more than it has slots.
HeldIn(l, q, h, t) ==
  /\ \A i \in DOMAIN l :
       \E c \in Counter : Sub(c, h) < Sub(t, h) /\ PointsTo(l[i], q, c)
  /\ Len(l) <= Sub(t, h)

\* The application holds CQEs of the ring only, the first at khead unless
\* for_each_cqe runs, and none where a call is about to fetch one.
HeldInv ==
  /\ HeldIn(held, cqes, khead, ktail)
  /\ pc \in {"each", "stop"} => Len(held) <= Dist(head)
  /\ pc \notin {"each", "stop"} /\ held # << >> => PointsTo(held[1], cqes, khead)
  /\ pc \in {"load", "scan"} => held = << >>
  /\ pc = "enter" /\ call # "get_events" => held = << >>

IInv == TypeOK /\ Paired /\ LoopInv /\ HeldInv

-----------------------------------------------------------------------------
(* The ring.                                                               *)

\* There is room in the width for a whole ring and more.
LEMMA Widths ==
  /\ CqEntries \in Nat \ {0} /\ Modulus \in Nat
  /\ CqEntries < Modulus /\ 1 < Modulus /\ 2 <= Modulus
BY CqAssumption, ModulusAssumption

\* A position is a number; its slot is one of the ring's.
LEMMA SlotType ==
  ASSUME NEW c \in Counter
  PROVE  Slot(c) \in 0 .. CqEntries - 1 /\ c \in Int
BY Quotient, Widths DEF Counter, Slot

\* Positions less than a ring length from the head have slots of their own.
LEMMA SlotApart ==
  ASSUME NEW h \in Counter, NEW a \in Counter, NEW b \in Counter,
         Sub(a, h) < CqEntries, Sub(b, h) < CqEntries, Slot(a) = Slot(b)
  PROVE  a = b
<1>1. Sub(a, h) \in 0 .. CqEntries - 1 /\ Sub(b, h) \in 0 .. CqEntries - 1
  <2>1. Sub(a, h) \in Counter /\ Sub(b, h) \in Counter
      BY SubType
  <2> QED
      BY <2>1, Widths DEF Counter
<1>2. Add(h, Sub(a, h)) = a /\ Add(h, Sub(b, h)) = b
    BY AddDistance
<1>3. Add(h, Sub(a, h)) % CqEntries = Add(h, Sub(b, h)) % CqEntries
    BY <1>2 DEF Slot
<1>4. Sub(a, h) = Sub(b, h)
    BY <1>1, <1>3, Widths, CqAssumption, RemaindersDistinct
<1> QED
    BY <1>4, SubInjective

\* Writing one slot at the tail keeps the ring as it was up to there.
LEMMA PutOne ==
  ASSUME NEW q \in Ring, NEW h \in Counter, NEW t \in Counter,
         PairedIn(q, h, t), Sub(t, h) < CqEntries,
         NEW x \in Cqes \cup Timeouts \cup {Filler}
  PROVE  LET p == [q EXCEPT ![Slot(t)] = x]
             u == Add(t, 1)
         IN  /\ p \in Ring /\ u \in Counter
             /\ Sub(u, h) = Sub(t, h) + 1
             /\ Kept(q, p, h, t) /\ PairedIn(p, h, u)
<1> DEFINE p == [q EXCEPT ![Slot(t)] = x]
           u == Add(t, 1)
<1>1. u \in Counter /\ Sub(u, h) = Sub(t, h) + 1 /\ Sub(t, h) \in Nat
    BY SubAddFront, SubType, Widths DEF Counter
<1>2. p \in Ring
    BY SlotType DEF Ring, Posted
<1>3. p[Slot(t)] = x /\ x \notin Big /\ x # Half /\ x \in Posted \cup {Filler}
    BY SlotType, CqesAssumption DEF Ring, Posted
<1>4. ASSUME NEW c \in Counter, Sub(c, h) < Sub(t, h)
      PROVE  p[Slot(c)] = q[Slot(c)]
  <2>1. Sub(c, h) \in Nat /\ Sub(c, h) < CqEntries
      BY <1>1, <1>4, SubType, Widths DEF Counter
  <2>2. Slot(c) # Slot(t)
      BY <1>4, <2>1, <1>1, SlotApart
  <2> QED
      BY <2>2, SlotType DEF Ring
<1>5. ASSUME NEW c \in Counter, Sub(c, h) < Sub(u, h)
      PROVE  /\ p[Slot(c)] \in Posted \cup {Half, Filler}
             /\ p[Slot(c)] \in Big => /\ Sub(c, h) + 1 < Sub(u, h)
                                      /\ p[Slot(Add(c, 1))] = Half
             /\ p[Slot(c)] = Half => c # h /\ p[Slot(Sub(c, 1))] \in Big
  <2>1. CASE c = t
      BY <1>3, <2>1
  <2>2. CASE c # t
    <3>1. Sub(c, h) \in Nat /\ Sub(c, h) < Sub(t, h)
        BY <1>1, <1>5, <2>2, SubInjective, SubType DEF Counter
    <3>2. p[Slot(c)] = q[Slot(c)]
        BY <1>4, <3>1
    <3>3. p[Slot(c)] \in Posted \cup {Half, Filler}
        BY <3>1, <3>2 DEF PairedIn
    <3>4. ASSUME p[Slot(c)] \in Big
          PROVE  Sub(c, h) + 1 < Sub(u, h) /\ p[Slot(Add(c, 1))] = Half
      <4>1. Sub(c, h) + 1 < Sub(t, h) /\ q[Slot(Add(c, 1))] = Half
          BY <3>1, <3>2, <3>4 DEF PairedIn
      <4>2. Add(c, 1) \in Counter /\ Sub(Add(c, 1), h) = Sub(c, h) + 1
          BY <1>1, <3>1, <4>1, SubAddFront, Widths
      <4> QED
          BY <1>1, <1>4, <3>1, <4>1, <4>2
    <3>5. ASSUME p[Slot(c)] = Half
          PROVE  c # h /\ p[Slot(Sub(c, 1))] \in Big
      <4>1. c # h /\ q[Slot(Sub(c, 1))] \in Big
          BY <3>1, <3>2, <3>5 DEF PairedIn
      <4>2. Sub(c, 1) \in Counter /\ Sub(Sub(c, 1), h) = Sub(c, h) - 1
          BY <4>1, SubBack, SubOneType, Widths
      <4> QED
          BY <1>1, <1>4, <3>1, <4>1, <4>2
    <3> QED
        BY <3>3, <3>4, <3>5
  <2> QED
      BY <2>1, <2>2
<1>6. Sub(u, h) <= CqEntries
    BY <1>1, Widths
<1> HIDE DEF p, u
<1>7. Kept(q, p, h, t) /\ PairedIn(p, h, u)
    BY <1>4, <1>5, <1>6 DEF Kept, PairedIn
<1> QED
    BY <1>1, <1>2, <1>7 DEF p, u

\* Writing a CQE of two slots at the tail does, too.
LEMMA PutBig ==
  ASSUME NEW q \in Ring, NEW h \in Counter, NEW t \in Counter,
         PairedIn(q, h, t), Sub(t, h) + 2 <= CqEntries, NEW x \in Big
  PROVE  LET p == [q EXCEPT ![Slot(t)] = x, ![Slot(Add(t, 1))] = Half]
             u == Add(t, 2)
         IN  /\ p \in Ring /\ u \in Counter
             /\ Sub(u, h) = Sub(t, h) + 2
             /\ Kept(q, p, h, t) /\ PairedIn(p, h, u)
<1> DEFINE v == Add(t, 1)
           p == [q EXCEPT ![Slot(t)] = x, ![Slot(v)] = Half]
           u == Add(t, 2)
<1>1. /\ Sub(t, h) \in Nat
      /\ v \in Counter /\ Sub(v, h) = Sub(t, h) + 1
      /\ u \in Counter /\ Sub(u, h) = Sub(t, h) + 2
  <2>1. Sub(t, h) \in Counter
      BY SubType
  <2>2. Sub(t, h) \in Nat /\ Sub(t, h) + 1 < Modulus /\ Sub(t, h) + 2 < Modulus
      BY <2>1, Widths DEF Counter
  <2> QED
      BY <2>2, SubAdd
<1>2. Slot(v) # Slot(t)
  <2>1. v # t /\ Sub(t, h) < CqEntries /\ Sub(v, h) < CqEntries
      BY <1>1, Widths
  <2> QED
      BY <1>1, <2>1, SlotApart
<1>3. p \in Ring
  <2>1. x \in Posted \cup {Half, Filler, NoCqe}
      BY DEF Posted
  <2> QED
      BY <1>1, <2>1, SlotType DEF Ring
<1>4. /\ p[Slot(t)] = x /\ p[Slot(v)] = Half
      /\ x # Half /\ Half \notin Big /\ x \in Posted
  <2>1. p[Slot(t)] = x /\ p[Slot(v)] = Half
      BY <1>1, <1>2, SlotType DEF Ring
  <2>2. x # Half /\ Half \notin Big /\ x \in Posted
      BY CqesAssumption DEF Posted
  <2> QED
      BY <2>1, <2>2
<1>5. ASSUME NEW c \in Counter, Sub(c, h) < Sub(t, h)
      PROVE  p[Slot(c)] = q[Slot(c)]
  <2>1. Sub(c, h) \in Nat /\ Sub(c, h) < CqEntries
    <3>1. Sub(c, h) \in Counter
        BY SubType
    <3> QED
        BY <3>1, <1>1, <1>5, Widths DEF Counter
  <2>2. Sub(t, h) < CqEntries /\ Sub(v, h) < CqEntries
      BY <1>1, Widths
  <2>3. c # t /\ c # v
      BY <1>1, <1>5, <2>1
  <2>4. Slot(c) # Slot(t) /\ Slot(c) # Slot(v)
      BY <1>1, <2>1, <2>2, <2>3, SlotApart
  <2> QED
      BY <2>4, <1>1, SlotType DEF Ring
<1>6. Sub(v, 1) = t
    BY AddSubOne, Widths
<1>7. ASSUME NEW c \in Counter, Sub(c, h) < Sub(u, h)
      PROVE  /\ p[Slot(c)] \in Posted \cup {Half, Filler}
             /\ p[Slot(c)] \in Big => /\ Sub(c, h) + 1 < Sub(u, h)
                                      /\ p[Slot(Add(c, 1))] = Half
             /\ p[Slot(c)] = Half => c # h /\ p[Slot(Sub(c, 1))] \in Big
  <2> HIDE DEF p, u, v
  <2>1. CASE c = t
    <3>1. Add(c, 1) = v
        BY <2>1 DEF v
    <3> QED
        BY <1>1, <1>4, <2>1, <3>1
  <2>2. CASE c = v
    <3>1. Sub(h, h) = 0
        BY SubZero
    <3>2. c # h /\ Sub(c, 1) = t
        BY <1>1, <1>6, <2>2, <3>1
    <3> QED
        BY <1>4, <2>2, <3>2
  <2>3. CASE c # t /\ c # v
    <3>1. Sub(c, h) \in Nat /\ Sub(c, h) < Sub(t, h)
      <4>1. Sub(c, h) \in Counter
          BY SubType
      <4>2. Sub(c, h) # Sub(t, h) /\ Sub(c, h) # Sub(v, h)
          BY <1>1, <2>3, SubInjective
      <4> QED
          BY <1>1, <1>7, <4>1, <4>2 DEF Counter
    <3>2. p[Slot(c)] = q[Slot(c)]
        BY <1>5, <3>1
    <3>3. p[Slot(c)] \in Posted \cup {Half, Filler}
        BY <3>1, <3>2 DEF PairedIn
    <3>4. ASSUME p[Slot(c)] \in Big
          PROVE  Sub(c, h) + 1 < Sub(u, h) /\ p[Slot(Add(c, 1))] = Half
      <4>1. Sub(c, h) + 1 < Sub(t, h) /\ q[Slot(Add(c, 1))] = Half
          BY <3>1, <3>2, <3>4 DEF PairedIn
      <4>2. Add(c, 1) \in Counter /\ Sub(Add(c, 1), h) = Sub(c, h) + 1
        <5>1. Sub(c, h) + 1 < Modulus
            BY <1>1, <3>1, <4>1, Widths
        <5> QED
            BY <5>1, SubAddFront
      <4> QED
          BY <1>1, <1>5, <3>1, <4>1, <4>2
    <3>5. ASSUME p[Slot(c)] = Half
          PROVE  c # h /\ p[Slot(Sub(c, 1))] \in Big
      <4>1. c # h /\ q[Slot(Sub(c, 1))] \in Big
          BY <3>1, <3>2, <3>5 DEF PairedIn
      <4>2. Sub(c, 1) \in Counter /\ Sub(Sub(c, 1), h) = Sub(c, h) - 1
          BY <4>1, SubBack, SubOneType, Widths
      <4> QED
          BY <1>1, <1>5, <3>1, <4>1, <4>2
    <3> QED
        BY <3>3, <3>4, <3>5
  <2> QED
      BY <2>1, <2>2, <2>3
<1>8. Sub(u, h) <= CqEntries
    BY <1>1
<1> HIDE DEF p, u, v
<1>9. Kept(q, p, h, t) /\ PairedIn(p, h, u)
    BY <1>5, <1>7, <1>8 DEF Kept, PairedIn
<1> QED
    BY <1>1, <1>3, <1>9 DEF p, u, v

\* cqe_nr carries an edge to the next edge, and never beyond one ahead.
LEMMA NextEdge ==
  ASSUME NEW q \in Ring, NEW h \in Counter, NEW t \in Counter,
         PairedIn(q, h, t),
         NEW c \in Counter, EdgeIn(c, q, h, t),
         NEW e \in Counter, EdgeIn(e, q, h, t), Sub(c, h) < Sub(e, h)
  PROVE  LET n == cqe_nr(q[Slot(c)])
             k == Add(c, n)
         IN  /\ n \in {1, 2}
             /\ k \in Counter /\ Sub(k, h) = Sub(c, h) + n
             /\ Sub(k, h) <= Sub(e, h)
             /\ EdgeIn(k, q, h, t)
<1> DEFINE n == cqe_nr(q[Slot(c)])
           k == Add(c, n)
           d == Add(c, 1)
<1>1. /\ Sub(c, h) \in Nat /\ Sub(e, h) \in Nat /\ Sub(t, h) \in Nat
      /\ Sub(e, h) <= Sub(t, h) /\ Sub(t, h) <= CqEntries
  <2>1. Sub(c, h) \in Counter /\ Sub(e, h) \in Counter /\ Sub(t, h) \in Counter
      BY SubType
  <2> QED
      BY <2>1, Widths DEF Counter, EdgeIn, PairedIn
<1>2. Sub(c, h) < Sub(t, h)
    BY <1>1
<1>3. d \in Counter /\ Sub(d, h) = Sub(c, h) + 1 /\ Sub(d, 1) = c
  <2>1. Sub(c, h) + 1 < Modulus
      BY <1>1, <1>2, Widths
  <2> QED
      BY <2>1, SubAddFront, AddSubOne, Widths
<1>4. CASE q[Slot(c)] \notin Big
  <2>1. n = 1 /\ k = d
      BY <1>4 DEF cqe_nr
  <2>2. Sub(d, h) < Sub(t, h) => q[Slot(d)] # Half
      BY <1>3, <1>4 DEF PairedIn
  <2>3. EdgeIn(d, q, h, t)
      BY <1>1, <1>2, <1>3, <2>2 DEF EdgeIn
  <2> HIDE DEF n, k, d
  <2> QED
      BY <1>1, <1>3, <2>1, <2>3 DEF k, n
<1>5. CASE q[Slot(c)] \in Big
  <2>1. n = 2
      BY <1>5 DEF cqe_nr
  <2>2. Sub(c, h) + 1 < Sub(t, h) /\ q[Slot(d)] = Half
      BY <1>2, <1>5 DEF PairedIn
  <2>3. k \in Counter /\ Sub(k, h) = Sub(c, h) + 2
    <3>1. Sub(c, h) + 2 < Modulus
        BY <1>1, <2>2, Widths
    <3> QED
        BY <2>1, <3>1, SubAdd
  <2>4. Sub(k, 1) = d
    <3>1. k = Add(d, 1)
        BY <2>1, AddTwo, Widths
    <3> HIDE DEF d
    <3> QED
        BY <1>3, <3>1, AddSubOne, Widths
  <2>5. Half \notin Big
      BY CqesAssumption
  <2> HIDE DEF n, k, d
  <2>6. Sub(k, h) < Sub(t, h) => q[Slot(k)] # Half
      BY <2>2, <2>3, <2>4, <2>5 DEF PairedIn
  <2>7. EdgeIn(k, q, h, t)
      BY <1>1, <2>2, <2>3, <2>6 DEF EdgeIn
  <2>8. Sub(e, h) # Sub(c, h) + 1
    <3>1. SUFFICES ASSUME Sub(e, h) = Sub(c, h) + 1 PROVE FALSE
        OBVIOUS
    <3>2. e = d
        BY <1>3, <3>1, SubInjective
    <3> QED
        BY <2>2, <3>1, <3>2 DEF EdgeIn
  <2>9. Sub(k, h) <= Sub(e, h)
      BY <1>1, <2>3, <2>8
  <2> QED
      BY <2>1, <2>3, <2>7, <2>9 DEF k, n
<1> QED
    BY <1>4, <1>5

\* The head is an edge, and so is the kernel's tail.
LEMMA EndsAreEdges ==
  ASSUME NEW q \in Ring, NEW h \in Counter, NEW t \in Counter, PairedIn(q, h, t)
  PROVE  EdgeIn(h, q, h, t) /\ EdgeIn(t, q, h, t) /\ Sub(h, h) = 0
<1>1. Sub(h, h) = 0 /\ Sub(t, h) \in Counter
    BY SubZero, SubType
<1>2. Sub(t, h) \in Nat
    BY <1>1, Widths DEF Counter
<1>3. Sub(h, h) < Sub(t, h) => q[Slot(h)] # Half
    BY DEF PairedIn
<1> QED
    BY <1>1, <1>2, <1>3 DEF EdgeIn

\* The head may move up to any edge; the edges beyond it remain edges.
LEMMA Advance ==
  ASSUME NEW q \in Ring, NEW h \in Counter, NEW t \in Counter,
         PairedIn(q, h, t),
         NEW k \in Counter, EdgeIn(k, q, h, t)
  PROVE  /\ PairedIn(q, k, t)
         /\ \A c \in Counter :
              EdgeIn(c, q, h, t) /\ Sub(k, h) <= Sub(c, h)
                => EdgeIn(c, q, k, t) /\ Sub(c, k) = Sub(c, h) - Sub(k, h)
<1>1. \A c \in Counter : Sub(c, h) \in Nat /\ Sub(c, k) \in Nat
  <2>1. \A c \in Counter : Sub(c, h) \in Counter /\ Sub(c, k) \in Counter
      BY SubType
  <2> QED
      BY <2>1, Widths DEF Counter
<1>2. Sub(k, h) <= Sub(t, h) /\ Sub(t, h) <= CqEntries
    BY DEF EdgeIn, PairedIn
<1>3. Sub(t, k) = Sub(t, h) - Sub(k, h)
    BY <1>2, SubChain
<1>4. ASSUME NEW c \in Counter, Sub(c, k) < Sub(t, k)
      PROVE  Sub(c, h) = Sub(k, h) + Sub(c, k)
  <2>1. Add(k, Sub(c, k)) = c
      BY AddDistance
  <2>2. Sub(c, k) \in Nat /\ Sub(k, h) + Sub(c, k) < Modulus
      BY <1>1, <1>2, <1>3, <1>4, Widths
  <2> QED
      BY <2>1, <2>2, SubAdd
<1>5. ASSUME NEW c \in Counter, Sub(c, k) < Sub(t, k)
      PROVE  /\ q[Slot(c)] \in Posted \cup {Half, Filler}
             /\ q[Slot(c)] \in Big => /\ Sub(c, k) + 1 < Sub(t, k)
                                      /\ q[Slot(Add(c, 1))] = Half
             /\ q[Slot(c)] = Half => c # k /\ q[Slot(Sub(c, 1))] \in Big
  <2>1. Sub(c, h) = Sub(k, h) + Sub(c, k)
      BY <1>4, <1>5
  <2>2. Sub(c, h) < Sub(t, h)
      BY <1>1, <1>3, <1>5, <2>1
  <2>3. /\ q[Slot(c)] \in Posted \cup {Half, Filler}
        /\ q[Slot(c)] \in Big => /\ Sub(c, h) + 1 < Sub(t, h)
                                 /\ q[Slot(Add(c, 1))] = Half
        /\ q[Slot(c)] = Half => q[Slot(Sub(c, 1))] \in Big
      BY <2>2 DEF PairedIn
  <2>4. c = k => q[Slot(c)] # Half
      BY <2>2 DEF EdgeIn
  <2>5. Sub(c, h) + 1 < Sub(t, h) => Sub(c, k) + 1 < Sub(t, k)
      BY <1>1, <1>3, <2>1
  <2> QED
      BY <2>3, <2>4, <2>5
<1>6. Sub(t, k) <= CqEntries
    BY <1>1, <1>2, <1>3, Widths
<1>7. ASSUME NEW c \in Counter, EdgeIn(c, q, h, t), Sub(k, h) <= Sub(c, h)
      PROVE  EdgeIn(c, q, k, t) /\ Sub(c, k) = Sub(c, h) - Sub(k, h)
  <2>1. Sub(c, k) = Sub(c, h) - Sub(k, h)
      BY <1>7, SubChain
  <2>2. /\ Sub(c, k) <= Sub(t, k)
        /\ Sub(c, k) < Sub(t, k) => Sub(c, h) < Sub(t, h)
      BY <1>1, <1>3, <1>7, <2>1 DEF EdgeIn
  <2> QED
      BY <1>7, <2>1, <2>2 DEF EdgeIn
<1> QED
    BY <1>5, <1>6, <1>7 DEF PairedIn

\* Where the kernel only adds, edges remain edges: a CQE of two slots does not
\* reach beyond the tail it was stored at.
LEMMA EdgeStays ==
  ASSUME NEW q \in Ring, NEW p \in Ring, NEW h \in Counter,
         NEW t \in Counter, NEW u \in Counter,
         PairedIn(q, h, t), PairedIn(p, h, u), Kept(q, p, h, t),
         Sub(t, h) <= Sub(u, h),
         NEW c \in Counter, EdgeIn(c, q, h, t)
  PROVE  EdgeIn(c, p, h, u)
<1>1. /\ Sub(c, h) \in Nat /\ Sub(t, h) \in Nat /\ Sub(u, h) \in Nat
      /\ Sub(c, h) <= Sub(t, h)
  <2>1. Sub(c, h) \in Counter /\ Sub(t, h) \in Counter /\ Sub(u, h) \in Counter
      BY SubType
  <2> QED
      BY <2>1, Widths DEF Counter, EdgeIn
<1>2. ASSUME Sub(c, h) < Sub(u, h), p[Slot(c)] = Half
      PROVE  FALSE
  <2>1. c # h /\ p[Slot(Sub(c, 1))] \in Big
      BY <1>2 DEF PairedIn
  <2>2. Sub(c, 1) \in Counter /\ Sub(Sub(c, 1), h) = Sub(c, h) - 1
      BY <2>1, SubBack, SubOneType, Widths
  <2>3. Add(Sub(c, 1), 1) = c
      BY AddSubOne, Widths
  <2>4. Sub(Sub(c, 1), h) < Sub(t, h)
      BY <1>1, <2>2
  <2>5. q[Slot(Sub(c, 1))] \in Big
      BY <2>1, <2>2, <2>4 DEF Kept
  <2>6. Sub(c, h) < Sub(t, h) /\ q[Slot(c)] = Half
      BY <1>1, <2>2, <2>3, <2>4, <2>5 DEF PairedIn
  <2> QED
      BY <2>6 DEF EdgeIn
<1> QED
    BY <1>1, <1>2 DEF EdgeIn

-----------------------------------------------------------------------------
(* The kernel.                                                             *)

\* The kernel adds to the ring, and changes nothing in it.
Grows ==
  /\ khead' = khead /\ ktail' \in Counter /\ cqes' \in Ring
  /\ Sub(ktail, khead) <= Sub(ktail', khead)
  /\ Kept(cqes, cqes', khead, ktail)
  /\ PairedIn(cqes', khead, ktail')

\* What makes the state of the ring.
LEMMA RingType ==
  ASSUME TypeOK
  PROVE  cqes \in Ring /\ khead \in Counter /\ ktail \in Counter
BY DEF TypeOK, Ring

\* A filler is written only where there is room for it.
LEMMA PadGrows ==
  ASSUME TypeOK, Paired, NEW c \in Posted, khead' = khead
  PROVE  /\ Padded(c) \in Ring /\ Start(c) \in Counter
         /\ Sub(ktail, khead) <= Sub(Start(c), khead)
         /\ Kept(cqes, Padded(c), khead, ktail)
         /\ PairedIn(Padded(c), khead, Start(c))
<1>1. cqes \in Ring /\ khead \in Counter /\ ktail \in Counter
    BY RingType
<1>2. Sub(ktail, khead) \in Nat
  <2>1. Sub(ktail, khead) \in Counter
      BY <1>1, SubType
  <2> QED
      BY <2>1, Widths DEF Counter
<1>3. CASE Straddles(c)
  <2>1. Sub(ktail, khead) < CqEntries
      BY <1>2, <1>3, Widths DEF Straddles, Room
  <2>2. PairedIn(cqes, khead, ktail) /\ Filler \in Cqes \cup Timeouts \cup {Filler}
      BY DEF Paired
  <2> DEFINE p == [cqes EXCEPT ![Slot(ktail)] = Filler]
             u == Add(ktail, 1)
  <2>3. Padded(c) = p /\ Start(c) = u
      BY <1>3 DEF Padded, Start
  <2>4. /\ p \in Ring /\ u \in Counter
        /\ Sub(u, khead) = Sub(ktail, khead) + 1
        /\ Kept(cqes, p, khead, ktail) /\ PairedIn(p, khead, u)
    <3> HIDE DEF Paired
    <3> QED
        BY <1>1, <2>1, <2>2, PutOne
  <2> HIDE DEF p, u
  <2> QED
      BY <1>2, <2>3, <2>4
<1>4. CASE ~Straddles(c)
  <2>1. Padded(c) = cqes /\ Start(c) = ktail
      BY <1>4 DEF Padded, Start
  <2> QED
      BY <1>1, <1>2, <2>1 DEF Kept, Paired
<1> QED
    BY <1>3, <1>4

\* Storing a completion adds it after the filler, if there is one.
LEMMA PlaceGrows ==
  ASSUME TypeOK, Paired, NEW c \in Posted, Place(c), khead' = khead
  PROVE  Grows
<1> DEFINE q == Padded(c)
           t == Start(c)
<1>1. cqes \in Ring /\ khead \in Counter /\ ktail \in Counter
    BY RingType
<1>2. /\ q \in Ring /\ t \in Counter
      /\ Sub(ktail, khead) <= Sub(t, khead)
      /\ Kept(cqes, q, khead, ktail)
      /\ PairedIn(q, khead, t)
    BY PadGrows
<1>3. Sub(ktail, khead) \in Nat /\ Sub(t, khead) \in Nat
  <2>1. Sub(ktail, khead) \in Counter /\ Sub(t, khead) \in Counter
      BY <1>1, <1>2, SubType
  <2> QED
      BY <2>1, Widths DEF Counter
<1>4. /\ Width(c) <= CqEntries - Sub(t, khead)
      /\ cqes' = Stored(c) /\ ktail' = Add(t, Width(c))
    BY DEF Place, Fits, Room
<1> HIDE DEF t
<1>5. /\ cqes' \in Ring /\ ktail' \in Counter
      /\ Sub(t, khead) <= Sub(ktail', khead)
      /\ Kept(q, cqes', khead, t)
      /\ PairedIn(cqes', khead, ktail')
  <2>1. CASE c \in Big
    <3>1. /\ cqes' = [q EXCEPT ![Slot(t)] = c, ![Slot(Add(t, 1))] = Half]
          /\ ktail' = Add(t, 2) /\ Sub(t, khead) + 2 <= CqEntries
      <4>1. Width(c) = 2
          BY <2>1 DEF Width
      <4> QED
          BY <1>3, <1>4, <2>1, <4>1, Widths DEF Stored, t
    <3> HIDE DEF q
    <3>2. /\ cqes' \in Ring /\ ktail' \in Counter
          /\ Sub(ktail', khead) = Sub(t, khead) + 2
          /\ Kept(q, cqes', khead, t) /\ PairedIn(cqes', khead, ktail')
        BY <1>1, <1>2, <2>1, <3>1, PutBig
    <3> QED
        BY <1>3, <3>2
  <2>2. CASE c \notin Big
    <3>1. Width(c) = 1 /\ ~Straddles(c) /\ c \in Cqes \cup Timeouts \cup {Filler}
        BY <2>2 DEF Width, Straddles, Posted
    <3>2. q = cqes /\ t = ktail
        BY <3>1 DEF Padded, Start, t
    <3>3. /\ cqes' = [q EXCEPT ![Slot(t)] = c]
          /\ ktail' = Add(t, 1) /\ Sub(t, khead) < CqEntries
        BY <1>3, <1>4, <2>2, <3>1, <3>2, Widths DEF Stored
    <3> HIDE DEF q
    <3>4. /\ cqes' \in Ring /\ ktail' \in Counter
          /\ Sub(ktail', khead) = Sub(t, khead) + 1
          /\ Kept(q, cqes', khead, t) /\ PairedIn(cqes', khead, ktail')
        BY <1>1, <1>2, <3>1, <3>3, PutOne
    <3> QED
        BY <1>3, <3>4
  <2> QED
      BY <2>1, <2>2
<1> HIDE DEF q
<1>6. Kept(cqes, cqes', khead, ktail)
  <2> SUFFICES ASSUME NEW x \in Counter, Sub(x, khead) < Sub(ktail, khead)
               PROVE  cqes'[Slot(x)] = cqes[Slot(x)]
      BY DEF Kept
  <2>1. Sub(x, khead) \in Int
    <3>1. Sub(x, khead) \in Counter
        BY <1>1, SubType
    <3> QED
        BY <3>1, Widths DEF Counter
  <2>2. Sub(x, khead) < Sub(t, khead)
      BY <1>2, <1>3, <2>1
  <2> QED
      BY <1>2, <1>5, <2>2 DEF Kept
<1>7. Sub(ktail, khead) <= Sub(ktail', khead)
  <2>1. Sub(ktail', khead) \in Counter
      BY <1>1, <1>5, SubType
  <2> QED
      BY <1>2, <1>3, <1>5, <2>1, Widths DEF Counter
<1> QED
    BY <1>5, <1>6, <1>7 DEF Grows

\* Whatever the kernel adds, the loops in progress and the pointers given out
\* stay as good as they were.
LEMMA GrowthIInv ==
  ASSUME IInv, Grows, UNCHANGED <<pc, locals, held, reaped>>,
         backlog' \in Seq(Posted), Len(backlog') <= MaxBacklog
  PROVE  IInv'
<1>1. /\ TypeOK /\ cqes \in Ring /\ khead \in Counter /\ ktail \in Counter
      /\ tail \in Counter /\ head \in Counter
    BY DEF IInv, TypeOK, Ring
<1>2. /\ khead' = khead /\ ktail' \in Counter /\ cqes' \in Ring
      /\ Sub(ktail, khead) <= Sub(ktail', khead)
      /\ Kept(cqes, cqes', khead, ktail)
      /\ PairedIn(cqes, khead, ktail) /\ PairedIn(cqes', khead, ktail')
    BY DEF IInv, Grows, Paired
<1>3. TypeOK'
    BY <1>1, <1>2 DEF TypeOK, Ring, locals
<1>4. Paired'
    BY <1>2 DEF Paired
<1>5. \A c \in Counter : EdgeIn(c, cqes, khead, ktail)
                            => EdgeIn(c, cqes', khead', ktail')
    BY <1>1, <1>2, EdgeStays
<1>6. LoopInv'
  <2>1. /\ pc = "scan" => EdgeIn(tail, cqes, khead, ktail)
        /\ pc \in {"each", "stop"} => /\ EdgeIn(head, cqes, khead, ktail)
                                      /\ EdgeIn(tail, cqes, khead, ktail)
                                      /\ Sub(head, khead) <= Sub(tail, khead)
      BY DEF IInv, LoopInv, Edge, Dist
  <2>2. pc' = pc /\ tail' = tail /\ head' = head
      BY DEF locals
  <2>3. /\ pc' = "scan" => EdgeIn(tail', cqes', khead', ktail')
        /\ pc' \in {"each", "stop"} => /\ EdgeIn(head', cqes', khead', ktail')
                                       /\ EdgeIn(tail', cqes', khead', ktail')
                                       /\ Sub(head', khead') <= Sub(tail', khead')
      BY <1>1, <1>2, <1>5, <2>1, <2>2
  <2> QED
      BY <2>3 DEF LoopInv, Edge, Dist
<1>7. HeldInv'
  <2>1. \A c \in Counter : Sub(c, khead) \in Int
    <3>1. \A c \in Counter : Sub(c, khead) \in Counter
        BY <1>1, SubType
    <3> QED
        BY <3>1, Widths DEF Counter
  <2>2. \A c \in Counter : Dist(c) < Size =>
          /\ Sub(c, khead') < Sub(ktail', khead')
          /\ cqes'[Slot(c)] = cqes[Slot(c)]
      BY <1>1, <1>2, <2>1 DEF Dist, Size, Kept
  <2>3. /\ pc' = pc /\ call' = call /\ head' = head /\ held' = held
        /\ Size \in Int /\ Size' \in Int /\ Size <= Size'
        /\ Len(held) \in Int
      BY <1>1, <1>2, <2>1 DEF locals, Size, TypeOK
  <2>4. HeldIn(held', cqes', khead', ktail')
    <3>1. HeldIn(held, cqes, khead, ktail)
        BY DEF IInv, HeldInv
    <3>2. ASSUME NEW i \in DOMAIN held
          PROVE  \E c \in Counter : /\ Sub(c, khead') < Sub(ktail', khead')
                                   /\ PointsTo(held[i], cqes', c)
      <4>1. PICK c \in Counter : /\ Sub(c, khead) < Sub(ktail, khead)
                                 /\ PointsTo(held[i], cqes, c)
          BY <3>1 DEF HeldIn
      <4> QED
          BY <2>2, <4>1 DEF PointsTo, Dist, Size
    <3>3. Len(held) <= Sub(ktail', khead')
        BY <2>3, <3>1 DEF HeldIn, Size
    <3> QED
        BY <2>3, <3>2, <3>3 DEF HeldIn
  <2>5. ASSUME pc' \notin {"each", "stop"}, held' # << >>
        PROVE  PointsTo(held'[1], cqes', khead')
    <3>1. held # << >> /\ PointsTo(held[1], cqes, khead)
        BY <2>3, <2>5 DEF IInv, HeldInv
    <3>2. Len(held) <= Size /\ Len(held) > 0
        BY <1>1, <3>1 DEF IInv, HeldInv, HeldIn, TypeOK, Size
    <3>3. Dist(khead) < Size
        BY <1>1, <2>3, <3>2, SubZero DEF Dist
    <3> QED
        BY <1>1, <1>2, <2>2, <2>3, <3>1, <3>3 DEF PointsTo
  <2>6. pc' \in {"each", "stop"} => Len(held') <= Sub(head', khead')
      BY <1>2, <2>3 DEF IInv, HeldInv, Dist
  <2>7. /\ pc' \in {"load", "scan"} => held' = << >>
        /\ pc' = "enter" /\ call' # "get_events" => held' = << >>
      BY <2>3 DEF IInv, HeldInv
  <2> QED
      BY <2>4, <2>5, <2>6, <2>7 DEF HeldInv, Dist
<1> QED
    BY <1>3, <1>4, <1>6, <1>7 DEF IInv

\* All the kernel does is add.
LEMMA KernelGrows ==
  ASSUME IInv, KernelFlush \/ \E c \in Posted : Post(c)
  PROVE  /\ Grows /\ UNCHANGED <<pc, locals, held, reaped>>
         /\ backlog' \in Seq(Posted) /\ Len(backlog') <= MaxBacklog
<1>1. TypeOK /\ Paired /\ backlog \in Seq(Posted) /\ Len(backlog) <= MaxBacklog
      /\ MaxBacklog \in Nat
    BY CqAssumption DEF IInv, TypeOK
<1>2. CASE KernelFlush
  <2>1. /\ backlog # << >> /\ Place(Head(backlog)) /\ backlog' = Tail(backlog)
        /\ UNCHANGED <<khead, pc, locals, held, reaped>>
      BY <1>2 DEF KernelFlush, GetEvents
  <2>2. /\ Head(backlog) \in Posted
        /\ backlog' \in Seq(Posted) /\ Len(backlog') <= MaxBacklog
      BY <1>1, <2>1
  <2>3. Grows
      BY <1>1, <2>1, <2>2, PlaceGrows
  <2> QED
      BY <2>1, <2>2, <2>3
<1>3. ASSUME NEW c \in Posted, Post(c)
      PROVE  /\ Grows /\ UNCHANGED <<pc, locals, held, reaped>>
             /\ backlog' \in Seq(Posted) /\ Len(backlog') <= MaxBacklog
  <2>1. UNCHANGED <<khead, pc, locals, held, reaped>>
      BY <1>3 DEF Post
  <2>2. CASE backlog = << >> /\ Place(c) /\ UNCHANGED backlog
    <3>1. Grows
        BY <1>1, <2>1, <2>2, PlaceGrows
    <3> QED
        BY <1>1, <2>1, <2>2, <3>1
  <2>3. CASE /\ Len(backlog) < MaxBacklog
             /\ backlog' = Append(backlog, c)
             /\ IF backlog = << >>
                THEN cqes' = Padded(c) /\ ktail' = Start(c)
                ELSE UNCHANGED <<cqes, ktail>>
    <3>1. backlog' \in Seq(Posted) /\ Len(backlog') <= MaxBacklog
        BY <1>1, <2>3
    <3>2. Grows
      <4>1. CASE backlog = << >>
        <5>1. khead' = khead /\ cqes' = Padded(c) /\ ktail' = Start(c)
            BY <2>1, <2>3, <4>1
        <5>2. /\ Padded(c) \in Ring /\ Start(c) \in Counter
              /\ Sub(ktail, khead) <= Sub(Start(c), khead)
              /\ Kept(cqes, Padded(c), khead, ktail)
              /\ PairedIn(Padded(c), khead, Start(c))
            BY <1>1, <2>1, PadGrows
        <5> QED
            BY <5>1, <5>2 DEF Grows
      <4>2. CASE backlog # << >>
        <5>1. khead' = khead /\ cqes' = cqes /\ ktail' = ktail
            BY <2>1, <2>3, <4>2
        <5>2. cqes \in Ring /\ ktail \in Counter /\ Sub(ktail, khead) \in Counter
            BY <1>1, RingType, SubType
        <5>3. Sub(ktail, khead) <= Sub(ktail, khead)
            BY <5>2, Widths DEF Counter
        <5> QED
            BY <1>1, <5>1, <5>2, <5>3 DEF Grows, Kept, Paired
      <4> QED
          BY <4>1, <4>2
    <3> QED
        BY <2>1, <3>1, <3>2
  <2> QED
      BY <1>3, <2>2, <2>3 DEF Post
<1> QED
    BY <1>2, <1>3

\* The kernel preserves the invariant.
LEMMA KernelIInv ==
  ASSUME IInv, KernelFlush \/ \E c \in Posted : Post(c)
  PROVE  IInv'
BY KernelGrows, GrowthIInv

-----------------------------------------------------------------------------
(* The application.                                                        *)

\* What the invariant says of the state, spelled out.
LEMMA State ==
  ASSUME IInv
  PROVE  /\ cqes \in Ring /\ khead \in Counter /\ ktail \in Counter
         /\ tail \in Counter /\ head \in Counter
         /\ Dist(khead) = 0 /\ Dist(tail) \in Nat /\ Dist(head) \in Nat
         /\ Size \in Nat /\ Size <= CqEntries
         /\ PairedIn(cqes, khead, ktail)
         /\ Edge(khead) /\ Edge(ktail)
<1>1. /\ cqes \in Ring /\ khead \in Counter /\ ktail \in Counter
      /\ tail \in Counter /\ head \in Counter
      /\ PairedIn(cqes, khead, ktail)
    BY DEF IInv, TypeOK, Ring, Paired
<1>2. Size \in Nat /\ Dist(tail) \in Nat /\ Dist(head) \in Nat
  <2>1. Sub(ktail, khead) \in Counter /\ Sub(tail, khead) \in Counter
        /\ Sub(head, khead) \in Counter
      BY <1>1, SubType
  <2> QED
      BY <2>1, Widths DEF Counter, Size, Dist
<1>3. Size <= CqEntries
    BY <1>1 DEF PairedIn, Size
<1>4. Edge(khead) /\ Edge(ktail) /\ Dist(khead) = 0
    BY <1>1, EndsAreEdges DEF Edge, Dist
<1> QED
    BY <1>1, <1>2, <1>3, <1>4

\* Where ring, head and pointers stand still, the invariant only asks that a
\* loop starts from edges, and that no call fetches while a pointer is held.
LEMMA StillIInv ==
  ASSUME IInv, TypeOK', UNCHANGED <<khead, ktail, cqes, held>>,
         pc \notin {"each", "stop"},
         pc' = "scan" => Edge(tail'),
         pc' \in {"each", "stop"} =>
           Edge(head') /\ Edge(tail') /\ Dist(head') <= Dist(tail'),
         pc' \in {"load", "scan", "each", "stop"}
           \/ (pc' = "enter" /\ call' # "get_events") => held = << >>
  PROVE  IInv'
<1>1. Paired' /\ LoopInv'
    BY DEF IInv, Paired, LoopInv, Edge, Dist
<1>2. pc' \in {"each", "stop"} => Len(held') <= Dist(head')
  <2> SUFFICES ASSUME pc' \in {"each", "stop"} PROVE Len(held') <= Dist(head')
      OBVIOUS
  <2>1. head' \in Counter /\ Len(held') = 0
      BY DEF TypeOK
  <2>2. Sub(head', khead) \in Counter
      BY <2>1, SubType, State
  <2> QED
      BY <2>1, <2>2, Widths DEF Counter, Dist
<1>3. HeldInv'
    BY <1>2 DEF IInv, HeldInv, Dist
<1> QED
    BY <1>1, <1>3 DEF IInv

\* Consuming up to an edge preserves the invariant when nothing is held any
\* more and no loop runs.
LEMMA ConsumeIInv ==
  ASSUME IInv, TypeOK', UNCHANGED <<ktail, cqes>>, Edge(khead'),
         held' = << >>, pc' = "idle"
  PROVE  IInv'
<1>1. khead' \in Counter /\ EdgeIn(khead', cqes, khead, ktail)
    BY DEF TypeOK, Edge
<1>2. PairedIn(cqes, khead', ktail)
    BY <1>1, State, Advance
<1>3. Sub(ktail, khead') \in Nat
  <2>1. Sub(ktail, khead') \in Counter
      BY <1>1, State, SubType
  <2> QED
      BY <2>1, Widths DEF Counter
<1>4. HeldIn(held', cqes', khead', ktail')
    BY <1>3 DEF HeldIn
<1> QED
    BY <1>2, <1>4 DEF IInv, Paired, LoopInv, HeldInv

\* What a call leaves behind when it returns is well typed.
LEMMA ReturnType ==
  ASSUME TypeOK, Return, khead' \in Counter, UNCHANGED <<ktail, cqes, backlog>>,
         held' \in Seq(Pointer), Len(held') <= CqEntries,
         reaped' \in Seq(Posted \cup {Filler}), Len(reaped') <= CqEntries
  PROVE  TypeOK'
<1>1. 0 \in Counter /\ 0 \in 0 .. CqEntries
    BY Widths DEF Counter
<1>2. /\ pc' = "idle" /\ call' = "none" /\ wait_nr' = 0 /\ submit' = FALSE
      /\ tail' = 0 /\ head' = 0
    BY DEF Return
<1> QED
    BY <1>1, <1>2 DEF TypeOK

\* The calls that begin, wait or fail leave ring, head and pointers alone.
LEMMA CallIInv ==
  ASSUME IInv,
         \/ "peek" \in Calls /\ StartPeek(0)
         \/ "wait" \in Calls /\ \E n \in WaitNrs : StartPeek(n)
         \/ "submit_and_wait_timeout" \in Calls
            /\ \E n \in {0} \cup WaitNrs, s \in BOOLEAN : StartSubmitAndWait(n, s)
         \/ "get_events" \in Calls
            /\ \E n \in {0, 1}, s \in BOOLEAN : StartGetEvents(n, s)
         \/ EnterReturn \/ EnterFail \/ LoadTail
         \/ "each" \in Calls /\ EachStart
  PROVE  IInv'
<1>1. /\ TypeOK /\ CqEntries \in Nat /\ 1 <= CqEntries /\ 0 \in Counter
      /\ << >> \in Seq(Posted \cup {Filler}) /\ Len(<< >>) = 0
    BY Widths DEF IInv, Counter
<1>2. ASSUME NEW n \in 0 .. CqEntries, StartPeek(n),
             n = 0 => "peek" \in Calls, n # 0 => "wait" \in Calls
      PROVE  IInv'
  <2>1. TypeOK'
      BY <1>1, <1>2 DEF StartPeek, Begin, TypeOK, kernel
  <2> QED
      BY <1>2, <2>1, StillIInv DEF StartPeek, kernel
<1>3. ASSUME NEW n \in 0 .. CqEntries, NEW s \in BOOLEAN, StartSubmitAndWait(n, s),
             "submit_and_wait_timeout" \in Calls
      PROVE  IInv'
  <2>1. TypeOK'
      BY <1>1, <1>3 DEF StartSubmitAndWait, Begin, TypeOK, kernel
  <2> QED
      BY <1>3, <2>1, StillIInv DEF StartSubmitAndWait, kernel
<1>4. ASSUME NEW n \in {0, 1}, NEW s \in BOOLEAN, StartGetEvents(n, s),
             "get_events" \in Calls
      PROVE  IInv'
  <2>1. n \in 0 .. CqEntries
      BY <1>1
  <2>2. TypeOK'
      BY <1>1, <1>4, <2>1 DEF StartGetEvents, Begin, TypeOK, kernel
  <2> QED
      BY <1>4, <2>2, StillIInv DEF StartGetEvents, Begin, kernel
<1>5. CASE EnterReturn
  <2>1. TypeOK'
    <3>1. CASE pc' = "load" /\ wait_nr' = 0 /\ submit' = FALSE
               /\ UNCHANGED <<call, tail, head>>
        BY <1>1, <1>5, <3>1 DEF EnterReturn, TypeOK, kernel
    <3>2. CASE Return
        BY <1>1, <1>5, <3>2, ReturnType DEF EnterReturn, TypeOK, kernel
    <3> QED
        BY <1>5, <3>1, <3>2 DEF EnterReturn
  <2>2. pc' = "load" => held = << >>
      BY <1>5 DEF EnterReturn, Return, IInv, HeldInv
  <2>3. pc = "enter" /\ pc' \in {"load", "idle"}
      BY <1>5 DEF EnterReturn, Return
  <2> QED
      BY <1>5, <2>1, <2>2, <2>3, StillIInv DEF EnterReturn, kernel
<1>6. CASE EnterFail
  <2>1. TypeOK'
      BY <1>1, <1>6, ReturnType DEF EnterFail, TypeOK, kernel
  <2> QED
      BY <1>6, <2>1, StillIInv DEF EnterFail, Return, kernel
<1>7. CASE LoadTail
  <2>1. TypeOK'
      BY <1>1, <1>7 DEF LoadTail, TypeOK, kernel
  <2>2. held = << >> /\ Edge(tail')
      BY <1>7, State DEF LoadTail, IInv, HeldInv
  <2> QED
      BY <1>7, <2>1, <2>2, StillIInv DEF LoadTail, kernel
<1>8. CASE "each" \in Calls /\ EachStart
  <2>1. TypeOK'
      BY <1>1, <1>8 DEF EachStart, Begin, TypeOK, kernel
  <2>2. Edge(head') /\ Edge(tail') /\ Dist(head') <= Dist(tail')
      BY <1>8, State DEF EachStart, Dist, Size
  <2> QED
      BY <1>8, <2>1, <2>2, StillIInv DEF EachStart, kernel
<1> QED
    BY <1>1, <1>2, <1>3, <1>4, <1>5, <1>6, <1>7, <1>8 DEF WaitNrs

\* What peek_cqe finds at the head, or skips, preserves the invariant.
LEMMA ScanIInv ==
  ASSUME IInv, Scan
  PROVE  IInv'
<1>1. /\ TypeOK /\ pc = "scan" /\ held = << >> /\ Edge(tail)
      /\ UNCHANGED <<ktail, cqes, backlog, reaped>> /\ 0 \in Counter
      /\ 0 \in 0 .. CqEntries
    BY Widths DEF Scan, IInv, LoopInv, HeldInv, kernel, Counter
<1>2. khead # tail => Dist(khead) < Dist(tail) /\ Dist(khead) < Size
  <2>1. khead # tail => Dist(tail) # 0
      BY State, SubZero DEF Dist
  <2>2. Dist(tail) <= Size
      BY <1>1 DEF Edge, EdgeIn, Dist, Size
  <2> QED
      BY <2>1, <2>2, State
<1>3. CASE khead # tail /\ khead' = Add(khead, cqe_nr(CqeAt(khead)))
           /\ UNCHANGED <<pc, locals, held>>
  <2>1. /\ khead' \in Counter /\ EdgeIn(khead', cqes, khead, ktail)
        /\ Sub(khead', khead) <= Sub(tail, khead)
      BY <1>1, <1>2, <1>3, State, NextEdge DEF Edge, Dist, CqeAt
  <2>2. PairedIn(cqes, khead', ktail) /\ EdgeIn(tail, cqes, khead', ktail)
      BY <1>1, <2>1, State, Advance DEF Edge
  <2>3. TypeOK'
      BY <1>1, <1>3, <2>1 DEF TypeOK, locals
  <2>4. Sub(ktail, khead') \in Nat
    <3>1. Sub(ktail, khead') \in Counter
        BY <2>1, State, SubType
    <3> QED
        BY <3>1, Widths DEF Counter
  <2>5. held' = << >> /\ pc' = "scan" /\ tail' = tail
      BY <1>1, <1>3 DEF locals
  <2>6. HeldInv'
      BY <1>1, <2>4, <2>5 DEF HeldInv, HeldIn
  <2>7. Paired' /\ LoopInv'
      BY <1>1, <2>2, <2>5 DEF Paired, LoopInv, Edge
  <2> QED
      BY <2>3, <2>6, <2>7 DEF IInv
<1>4. CASE /\ khead # tail
           /\ held' = <<[slot |-> Slot(khead), cqe |-> CqeAt(khead)]>>
           /\ Return /\ UNCHANGED khead
  <2>1. CqeAt(khead) \in Posted \cup {Filler}
      BY <1>2, <1>4, State DEF PairedIn, Edge, EdgeIn, Dist, Size, CqeAt
  <2>2. [slot |-> Slot(khead), cqe |-> CqeAt(khead)] \in Pointer
      BY <2>1, State, SlotType DEF Pointer
  <2>3. held' \in Seq(Pointer) /\ Len(held') = 1
      BY <1>4, <2>2
  <2>4. TypeOK'
    <3>1. Len(held') <= CqEntries
        BY <2>3, Widths
    <3> QED
        BY <1>1, <1>4, <2>3, <3>1, ReturnType DEF TypeOK
  <2>5. Size >= 1
      BY <1>2, <1>4, State
  <2>6. HeldIn(held', cqes', khead', ktail') /\ PointsTo(held'[1], cqes', khead')
    <3>1. PointsTo(held'[1], cqes', khead')
        BY <1>1, <1>4 DEF PointsTo, CqeAt
    <3>2. Sub(khead', khead') < Sub(ktail', khead') /\ Len(held') <= Sub(ktail', khead')
        BY <1>1, <1>4, <2>3, <2>5, State DEF Size, Dist
    <3>3. DOMAIN held' = {1}
        BY <2>3
    <3> QED
        BY <1>4, <3>1, <3>2, <3>3, State DEF HeldIn
  <2>7. pc' = "idle"
      BY <1>4 DEF Return
  <2> QED
      BY <1>1, <1>4, <2>4, <2>6, <2>7 DEF IInv, Paired, LoopInv, HeldInv
<1>5. CASE khead = tail /\ UNCHANGED <<khead, held>>
           /\ (Return \/ (pc' = "enter" /\ UNCHANGED locals))
  <2>1. TypeOK'
      BY <1>1, <1>5 DEF TypeOK, Return, locals
  <2>2. pc' \in {"idle", "enter"}
      BY <1>5 DEF Return
  <2> QED
      BY <1>1, <1>5, <2>1, <2>2, StillIInv
<1> QED
    BY <1>3, <1>4, <1>5 DEF Scan

\* The first k completions given are completions, and no more than k.
LEMMA GivenType ==
  ASSUME TypeOK, NEW k \in 0 .. Len(held)
  PROVE  /\ Given(k) \in Seq(Posted \cup {Filler})
         /\ Len(Given(k)) = k /\ k <= CqEntries /\ k \in Nat
<1>1. /\ held \in Seq(Pointer) /\ Len(held) \in Nat /\ Len(held) <= CqEntries
      /\ CqEntries \in Nat
    BY Widths DEF TypeOK
<1>2. k \in Nat /\ k <= CqEntries
    BY <1>1
<1>3. \A i \in 1 .. k : held[i].cqe \in Posted \cup {Filler}
  <2>1. \A i \in 1 .. k : held[i] \in Pointer
      BY <1>1
  <2> QED
      BY <2>1 DEF Pointer
<1> QED
    BY <1>2, <1>3 DEF Given

\* In a ring without CQEs of two slots, every position up to the tail is an
\* edge.
LEMMA PlainEdges ==
  ASSUME IInv, Big = {}, NEW n \in Nat, n <= Size
  PROVE  /\ Add(khead, n) \in Counter /\ Dist(Add(khead, n)) = n
         /\ Edge(Add(khead, n))
<1> DEFINE c == Add(khead, n)
<1>1. c \in Counter /\ Dist(c) = n
  <2>1. Sub(khead, khead) = 0 /\ n < Modulus
      BY State, Widths DEF Dist
  <2> QED
      BY <2>1, State, SubAdd, Widths DEF Dist
<1> HIDE DEF c
<1>2. Dist(c) < Size => CqeAt(c) # Half
    BY <1>1, State DEF PairedIn, Dist, Size, CqeAt
<1>3. Edge(c)
    BY <1>1, <1>2 DEF Edge, EdgeIn, Dist, Size, CqeAt
<1> QED
    BY <1>1, <1>3 DEF c

\* Consuming what was given preserves the invariant: one CQE at the head by
\* its own width, or, where all take one slot, as many as were given.
LEMMA SeenIInv ==
  ASSUME IInv,
         \/ CqeSeen
         \/ "batch" \in Calls /\ \E k \in 1 .. Len(held) : CqAdvance(k)
  PROVE  IInv'
<1>1. TypeOK /\ Len(held) \in Nat /\ Len(held) <= Size /\ << >> \in Seq(Pointer)
      /\ 0 <= CqEntries /\ Len(<< >>) = 0
    BY Widths DEF IInv, HeldInv, HeldIn, Size, TypeOK
<1>2. CASE CqeSeen
  <2>1. /\ pc = "idle" /\ held # << >> /\ held' = << >> /\ reaped' = Given(1)
        /\ khead' = Add(khead, cqe_nr(cqes[held[1].slot]))
        /\ UNCHANGED <<ktail, cqes, backlog, pc, locals>>
      BY <1>2 DEF CqeSeen, kernel
  <2>2. held[1].slot = Slot(khead)
      BY <2>1 DEF IInv, HeldInv, PointsTo
  <2>3. 1 \in 0 .. Len(held)
      BY <1>1, <2>1 DEF TypeOK
  <2>4. Sub(khead, khead) < Sub(ktail, khead)
      BY <1>1, <2>3, State DEF Dist, Size
  <2>5. khead' \in Counter /\ EdgeIn(khead', cqes, khead, ktail)
      BY <2>1, <2>2, <2>4, State, NextEdge DEF Edge
  <2>6. TypeOK'
      BY <1>1, <2>1, <2>3, <2>5, GivenType DEF TypeOK, locals
  <2> QED
      BY <2>1, <2>5, <2>6, ConsumeIInv DEF Edge
<1>3. ASSUME "batch" \in Calls, NEW k \in 1 .. Len(held), CqAdvance(k)
      PROVE  IInv'
  <2>1. /\ pc = "idle" /\ held' = << >> /\ reaped' = Given(k)
        /\ khead' = Add(khead, k)
        /\ UNCHANGED <<ktail, cqes, backlog, pc, locals>>
      BY <1>3 DEF CqAdvance, kernel
  <2>2. k \in 0 .. Len(held) /\ k \in Nat /\ k <= Size
      BY <1>1, State
  <2>3. khead' \in Counter /\ Edge(khead')
      BY <1>3, <2>1, <2>2, PlainEdges, BatchAssumption
  <2>4. TypeOK'
      BY <1>1, <2>1, <2>2, <2>3, GivenType DEF TypeOK, locals
  <2> QED
      BY <2>1, <2>3, <2>4, ConsumeIInv
<1> QED
    BY <1>2, <1>3

\* What stands at a position below the tail that is no second half can be
\* given out.
LEMMA Pointable ==
  ASSUME IInv, NEW c \in Counter, Dist(c) < Size, Edge(c)
  PROVE  /\ [slot |-> Slot(c), cqe |-> CqeAt(c)] \in Pointer
         /\ CqeAt(c) \in Posted \cup {Filler}
<1>1. CqeAt(c) \in Posted \cup {Filler}
    BY State DEF PairedIn, Edge, EdgeIn, Dist, Size, CqeAt
<1> QED
    BY <1>1, SlotType DEF Pointer

\* A batch is what the ring holds from the head on, and no more than that.
LEMMA BatchIInv ==
  ASSUME IInv, "batch" \in Calls, NEW count \in 1 .. CqEntries, PeekBatch(count)
  PROVE  IInv'
<1> DEFINE n == IF count > Size THEN Size ELSE count
           At(i) == Add(khead, i - 1)
           P(i)  == [slot |-> Slot(At(i)), cqe |-> CqeAt(At(i))]
<1>1. /\ pc = "idle" /\ held' = [i \in 1 .. n |-> P(i)] /\ reaped' = << >>
      /\ UNCHANGED <<khead, ktail, cqes, backlog, pc, locals>>
    BY DEF PeekBatch, kernel, Size
<1>2. n \in Nat /\ n <= Size /\ Size <= CqEntries
    BY State, Widths
<1>3. ASSUME NEW i \in 1 .. n
      PROVE  At(i) \in Counter /\ Dist(At(i)) < Size /\ P(i) \in Pointer
  <2>1. i - 1 \in Nat /\ i - 1 < Size
      BY <1>2, State
  <2>2. At(i) \in Counter /\ Dist(At(i)) = i - 1 /\ Edge(At(i))
      BY <2>1, State, PlainEdges, BatchAssumption
  <2> HIDE DEF At
  <2>3. P(i) \in Pointer
      BY <2>1, <2>2, Pointable
  <2> QED
      BY <2>1, <2>2, <2>3
<1> HIDE DEF n
<1>4. held' \in Seq(Pointer) /\ Len(held') = n /\ DOMAIN held' = 1 .. n
  <2>1. \A i \in 1 .. n : P(i) \in Pointer
      BY <1>3
  <2> HIDE DEF P
  <2> QED
      BY <1>1, <1>2, <2>1
<1>5. TypeOK'
  <2>1. Len(held') <= CqEntries
      BY <1>2, <1>4, State, Widths
  <2>2. reaped' \in Seq(Posted \cup {Filler}) /\ Len(reaped') = 0 /\ 0 <= CqEntries
      BY <1>1, Widths
  <2> HIDE DEF P
  <2> QED
      BY <1>1, <1>4, <2>1, <2>2 DEF IInv, TypeOK, locals
<1>6. HeldIn(held', cqes', khead', ktail')
  <2>1. ASSUME NEW i \in 1 .. n
        PROVE  \E c \in Counter : /\ Sub(c, khead') < Sub(ktail', khead')
                                 /\ PointsTo(held'[i], cqes', c)
    <3>1. held'[i] = P(i)
        BY <1>1
    <3>2. At(i) \in Counter /\ Sub(At(i), khead) < Sub(ktail, khead)
        BY <1>3 DEF Dist, Size
    <3>3. PointsTo(P(i), cqes, At(i))
        BY DEF PointsTo, CqeAt
    <3> HIDE DEF P, At
    <3> QED
        BY <1>1, <3>1, <3>2, <3>3
  <2>2. Len(held') <= Sub(ktail', khead')
      BY <1>1, <1>2, <1>4, State DEF Size
  <2> QED
      BY <1>4, <2>1, <2>2 DEF HeldIn
<1>7. held' # << >> => PointsTo(held'[1], cqes', khead')
  <2> SUFFICES ASSUME held' # << >> PROVE PointsTo(held'[1], cqes', khead')
      OBVIOUS
  <2>1. 1 \in 1 .. n
      BY <1>2, <1>4
  <2>2. Add(khead, 0) = khead
      BY State, Widths DEF Add, Counter
  <2>3. held'[1] = P(1) /\ At(1) = khead
      BY <1>1, <2>1, <2>2
  <2> QED
      BY <1>1, <2>3 DEF PointsTo, CqeAt
<1> QED
    BY <1>1, <1>5, <1>6, <1>7 DEF IInv, Paired, LoopInv, HeldInv

\* A turn of for_each_cqe runs from one edge to the next, short of its tail.
LEMMA VisitIInv ==
  ASSUME IInv, EachVisit
  PROVE  IInv'
<1>1. /\ TypeOK /\ pc = "each" /\ head # tail /\ pc' \in {"each", "stop"}
      /\ held' = IF CqeAt(head) \in Timeouts THEN held
                 ELSE Append(held, [slot |-> Slot(head), cqe |-> CqeAt(head)])
      /\ head' = Add(head, cqe_nr(CqeAt(head)))
      /\ UNCHANGED <<khead, ktail, cqes, backlog, call, wait_nr, submit, tail,
                     reaped>>
    BY DEF EachVisit, Show, IInv, kernel
<1>2. /\ Edge(head) /\ Edge(tail) /\ Dist(head) <= Dist(tail)
      /\ HeldIn(held, cqes, khead, ktail) /\ Len(held) <= Dist(head)
      /\ held \in Seq(Pointer) /\ Len(held) \in Nat
    BY <1>1 DEF IInv, LoopInv, HeldInv, TypeOK
<1>3. Dist(head) < Dist(tail) /\ Dist(tail) <= Size
  <2>1. Dist(head) # Dist(tail)
      BY <1>1, State, SubInjective DEF Dist
  <2>2. Dist(tail) <= Size
      BY <1>2 DEF Edge, EdgeIn, Dist, Size
  <2> QED
      BY <1>2, <2>1, <2>2, State
<1>4. /\ head' \in Counter /\ Edge(head') /\ Dist(head') <= Dist(tail)
      /\ Dist(head') \in Nat /\ Dist(head) + 1 <= Dist(head')
  <2> DEFINE w == cqe_nr(cqes[Slot(head)])
  <2>1. /\ w \in {1, 2} /\ Add(head, w) \in Counter
        /\ Sub(Add(head, w), khead) = Sub(head, khead) + w
        /\ Sub(Add(head, w), khead) <= Sub(tail, khead)
        /\ EdgeIn(Add(head, w), cqes, khead, ktail)
      BY <1>2, <1>3, State, NextEdge DEF Edge, Dist
  <2>2. head' = Add(head, w)
      BY <1>1 DEF CqeAt
  <2> HIDE DEF w
  <2> QED
      BY <2>1, <2>2, State DEF Edge, Dist
<1>5. /\ [slot |-> Slot(head), cqe |-> CqeAt(head)] \in Pointer
      /\ Dist(head) < Size
    BY <1>2, <1>3, State, Pointable
<1>6. held' \in Seq(Pointer) /\ Len(held') <= Len(held) + 1 /\ Len(held') \in Nat
    BY <1>1, <1>2, <1>5
<1>7. Len(held') <= Dist(head') /\ Len(held') <= Size /\ Len(held') <= CqEntries
    BY <1>2, <1>3, <1>4, <1>6, State, Widths
<1>8. TypeOK'
    BY <1>1, <1>4, <1>6, <1>7 DEF TypeOK
<1>9. HeldIn(held', cqes', khead', ktail')
  <2>1. ASSUME NEW i \in DOMAIN held'
        PROVE  \E c \in Counter : /\ Sub(c, khead) < Sub(ktail, khead)
                                 /\ PointsTo(held'[i], cqes, c)
    <3>1. CASE i \in DOMAIN held
      <4>1. held'[i] = held[i]
          BY <1>1, <1>2, <1>5, <3>1
      <4> QED
          BY <1>2, <3>1, <4>1 DEF HeldIn
    <3>2. CASE i \notin DOMAIN held
      <4>1. held'[i] = [slot |-> Slot(head), cqe |-> CqeAt(head)]
          BY <1>1, <1>2, <1>5, <3>2
      <4>2. PointsTo(held'[i], cqes, head)
          BY <4>1 DEF PointsTo, CqeAt
      <4> QED
          BY <1>5, <4>2, State DEF Dist, Size
    <3> QED
        BY <3>1, <3>2
  <2>2. Len(held') <= Sub(ktail, khead)
      BY <1>7 DEF Size
  <2> QED
      BY <1>1, <2>1, <2>2 DEF HeldIn
<1>10. Paired' /\ LoopInv' /\ HeldInv'
    BY <1>1, <1>2, <1>4, <1>7, <1>9
       DEF IInv, Paired, LoopInv, HeldInv, Edge, Dist
<1> QED
    BY <1>8, <1>10 DEF IInv

\* The end of for_each_cqe consumes up to the edge it has reached.
LEMMA EachEndIInv ==
  ASSUME IInv, EachEnd
  PROVE  IInv'
<1>1. /\ TypeOK /\ pc \in {"each", "stop"} /\ khead' = head /\ Return
      /\ reaped' = Given(Len(held)) /\ held' = << >>
      /\ UNCHANGED <<ktail, cqes, backlog>>
    BY DEF EachEnd, IInv, kernel
<1>2. head \in Counter /\ Edge(head)
    BY <1>1 DEF IInv, LoopInv, TypeOK
<1>3. TypeOK'
  <2>1. Len(held) \in 0 .. Len(held)
      BY <1>1 DEF TypeOK
  <2>2. /\ reaped' \in Seq(Posted \cup {Filler}) /\ Len(reaped') <= CqEntries
        /\ held' \in Seq(Pointer) /\ Len(held') <= CqEntries
      BY <1>1, <2>1, GivenType, Widths
  <2> QED
      BY <1>1, <1>2, <2>2, ReturnType
<1>4. pc' = "idle"
    BY <1>1 DEF Return
<1> QED
    BY <1>1, <1>2, <1>3, <1>4, ConsumeIInv

-----------------------------------------------------------------------------
(* The specification.                                                      *)

\* An empty ring satisfies the invariant.
LEMMA InitIInv == Init => IInv
<1> SUFFICES ASSUME Init PROVE IInv
    OBVIOUS
<1>1. 0 \in Counter /\ 0 <= CqEntries /\ 0 \in 0 .. CqEntries /\ 0 <= MaxBacklog
    BY Widths, CqAssumption DEF Counter
<1>2. TypeOK
  <2>1. /\ cqes \in [0 .. CqEntries - 1 -> Posted \cup {Half, Filler, NoCqe}]
        /\ backlog \in Seq(Posted) /\ held \in Seq(Pointer)
        /\ reaped \in Seq(Posted \cup {Filler})
        /\ Len(backlog) = 0 /\ Len(held) = 0 /\ Len(reaped) = 0
      BY DEF Init
  <2>2. /\ khead \in Counter /\ ktail \in Counter
        /\ tail \in Counter /\ head \in Counter
        /\ pc = "idle" /\ call = "none" /\ wait_nr = 0 /\ submit = FALSE
      BY <1>1 DEF Init
  <2> QED
      BY <1>1, <2>1, <2>2 DEF TypeOK
<1>3. Sub(0, 0) = 0 /\ \A c \in Counter : Sub(c, 0) \in Nat
  <2>1. Sub(0, 0) = 0 /\ \A c \in Counter : Sub(c, 0) \in Counter
      BY <1>1, SubZero, SubType
  <2> QED
      BY <2>1, Widths DEF Counter
<1>4. Paired
    BY <1>1, <1>3 DEF Init, Paired, PairedIn
<1>5. LoopInv /\ HeldInv
    BY <1>3 DEF Init, LoopInv, HeldInv, HeldIn
<1> QED
    BY <1>2, <1>4, <1>5 DEF IInv

\* Every step preserves the invariant.
LEMMA NextIInv == IInv /\ [Next]_vars => IInv'
<1> SUFFICES ASSUME IInv, [Next]_vars PROVE IInv'
    OBVIOUS
<1>1. CASE UNCHANGED vars
    BY <1>1 DEF vars, kernel, locals, IInv, TypeOK, Paired, LoopInv, HeldInv,
                Edge, Dist
<1>2. CASE Next
    BY <1>2, KernelIInv, CallIInv, ScanIInv, SeenIInv, BatchIInv, VisitIInv,
       EachEndIInv DEF Next, InCall
<1> QED
    BY <1>1, <1>2

\* The invariant holds in every state the code reaches.
THEOREM InvariantHolds == Spec => []IInv
BY InitIInv, NextIInv, PTL DEF Spec

\* The positions, the slots, the pointers handed out and the calls' local
\* variables always have their types (rings.hpp, queue.cpp).
THEOREM TypeCorrect == Spec => []TypeOK
<1>1. IInv => TypeOK
    BY DEF IInv
<1> QED
    BY <1>1, InvariantHolds, PTL

\* The loops of peek_cqe and for_each_cqe stop, whatever mix of sizes the
\* kernel posts and however the positions wrap.
THEOREM LoopsStopHolds == Spec => []LoopsStop
<1>1. IInv => LoopsStop
    BY DEF IInv, LoopsStop, Paired, PairedIn, LoopInv, Edge, EdgeIn, Dist
<1> QED
    BY <1>1, InvariantHolds, PTL

\* What the application holds a pointer to is not overwritten before it says
\* it has seen it.
THEOREM HeldIntactHolds == Spec => []HeldIntact
<1>1. IInv => HeldIntact
    BY DEF IInv, HeldInv, HeldIn, PointsTo, HeldIntact
<1> QED
    BY <1>1, InvariantHolds, PTL
-----------------------------------------------------------------------------
(* A wait that does not fail delivers.                                     *)

\* A call that waits for completions goes on waiting until the kernel has
\* said that there are some, and then finds them.
WaitInv ==
  call = "wait" /\ pc \in {"load", "scan", "enter"} =>
    /\ ~submit
    /\ pc = "enter" => wait_nr > 0
    /\ pc = "load" /\ wait_nr = 0 => khead # ktail
    /\ pc = "scan" /\ wait_nr = 0 => khead # tail

\* The steps of the calls preserve it.
LEMMA NextWaitInv ==
  ASSUME Timeouts = {}, IInv, WaitInv, [Next]_vars
  PROVE  WaitInv'
<1>1. wait_nr \in Nat /\ submit \in BOOLEAN
    BY Widths DEF IInv, TypeOK
<1>2. CASE UNCHANGED vars
    BY <1>2 DEF vars, kernel, locals, WaitInv
<1>3. CASE KernelFlush \/ \E c \in Posted : Post(c)
  <2>1. Grows /\ UNCHANGED <<pc, locals>>
      BY <1>3, KernelGrows
  <2>2. khead # ktail => khead' # ktail'
    <3>1. SUFFICES ASSUME khead # ktail PROVE khead # ktail'
        BY <2>1 DEF Grows
    <3>2. Sub(ktail, khead) # 0 /\ Sub(ktail, khead) \in Nat
        BY <3>1, State, SubZero DEF Size
    <3>3. ktail' \in Counter /\ Sub(ktail, khead) <= Sub(ktail', khead)
        BY <2>1 DEF Grows
    <3>4. Sub(ktail', khead) # 0
        BY <3>2, <3>3
    <3> QED
        BY <3>3, <3>4, State, SubZero
  <2>3. khead' = khead
      BY <2>1 DEF Grows
  <2> QED
      BY <2>1, <2>2, <2>3 DEF locals, WaitInv
<1>4. CASE StartPeek(0)
    BY <1>4 DEF StartPeek, Begin, WaitInv
<1>5. ASSUME NEW n \in WaitNrs, StartPeek(n)
      PROVE  WaitInv'
  <2>1. n # 0 /\ n > 0
      BY DEF WaitNrs
  <2> QED
      BY <1>5, <2>1 DEF StartPeek, Begin, WaitInv
<1>6. CASE \E n \in {0} \cup WaitNrs, s \in BOOLEAN : StartSubmitAndWait(n, s)
    BY <1>6 DEF StartSubmitAndWait, Begin, WaitInv
<1>7. CASE \E n \in {0, 1}, s \in BOOLEAN : StartGetEvents(n, s)
    BY <1>7 DEF StartGetEvents, Begin, WaitInv
<1>8. CASE EnterReturn
  <2>1. CASE Return
      BY <2>1 DEF Return, WaitInv
  <2>2. CASE /\ pc' = "load" /\ UNCHANGED <<khead, ktail, call>>
             /\ submit' = FALSE
    <3>1. SUFFICES ASSUME call = "wait" PROVE khead # ktail
        BY <2>2 DEF WaitInv
    <3>2. pc = "enter" /\ wait_nr <= Sub(ktail, khead) /\ wait_nr > 0
        BY <1>8, <3>1 DEF EnterReturn, Satisfied, WaitInv
    <3>3. Sub(ktail, khead) # 0
        BY <1>1, <3>2, State DEF Size
    <3> QED
        BY <3>3, State, SubZero
  <2> QED
      BY <1>8, <2>1, <2>2 DEF EnterReturn, kernel
<1>9. CASE EnterFail
    BY <1>9 DEF EnterFail, Return, WaitInv
<1>10. CASE LoadTail
    BY <1>10 DEF LoadTail, kernel, WaitInv
<1>11. CASE Scan
  <2>1. pc = "scan" /\ ~Skipped(CqeAt(khead))
      BY <1>11 DEF Scan, Skipped
  <2>2. CASE Return
      BY <2>2 DEF Return, WaitInv
  <2>3. CASE pc' = "enter" /\ (wait_nr > 0 \/ submit) /\ UNCHANGED locals
      BY <2>1, <2>3 DEF locals, WaitInv
  <2> QED
      BY <1>11, <2>1, <2>2, <2>3 DEF Scan
<1>12. CASE \/ CqeSeen \/ EachVisit \/ EachEnd \/ EachStart
            \/ \E n \in 1 .. CqEntries : PeekBatch(n)
            \/ \E k \in 1 .. Len(held) : CqAdvance(k)
  <2>1. pc' \in {"idle", "each", "stop"}
      BY <1>12 DEF CqeSeen, EachVisit, Show, EachEnd, EachStart, PeekBatch,
                   CqAdvance, Return
  <2> QED
      BY <2>1 DEF WaitInv
<1> QED
    BY <1>2, <1>3, <1>4, <1>5, <1>6, <1>7, <1>8, <1>9, <1>10, <1>11, <1>12
       DEF Next, InCall

\* Where no internal timeouts are posted, a wait for one or more completions
\* returns with one, or with an error, but never with neither (__get_cqe):
\* another reason for the kernel to return does not end it.
THEOREM WaitDeliversHolds ==
  ASSUME Timeouts = {}
  PROVE  Spec => WaitDelivers
<1>1. Init => WaitInv
    BY DEF Init, WaitInv
<1>2. IInv /\ WaitInv /\ [Next]_vars => WaitInv'
    BY NextWaitInv
<1>3. IInv /\ WaitInv /\ [Next]_vars
        => [pc = "scan" /\ call = "wait" /\ pc' = "idle" => held' # << >>]_vars
  <2> SUFFICES ASSUME IInv, WaitInv, Next,
                      pc = "scan", call = "wait", pc' = "idle"
               PROVE  held' # << >>
      OBVIOUS
  <2>1. Scan
    <3>1. ASSUME NEW c \in Posted, Post(c) PROVE FALSE
        BY <3>1 DEF Post
    <3> QED
        BY <3>1 DEF Next, InCall, StartPeek, StartSubmitAndWait, StartGetEvents,
             EnterReturn, EnterFail, CqeSeen, PeekBatch, CqAdvance, EachStart,
             LoadTail, KernelFlush, EachVisit, EachEnd, Show
  <2>2. ~submit /\ (wait_nr = 0 => khead # tail)
      BY DEF WaitInv
  <2>3. wait_nr \in Nat
      BY Widths DEF IInv, TypeOK
  <2>4. CASE held' = <<[slot |-> Slot(khead), cqe |-> CqeAt(khead)]>>
    <3>1. Len(held') = 1 /\ Len(<< >>) = 0
        BY <2>4
    <3> QED
        BY <3>1
  <2>5. CASE khead = tail
      BY <2>1, <2>2, <2>3, <2>5 DEF Scan
  <2> QED
      BY <2>1, <2>4, <2>5 DEF Scan
<1> QED
    BY <1>1, <1>2, <1>3, InvariantHolds, PTL DEF Spec, WaitDelivers

-----------------------------------------------------------------------------
(* The queue implements the bounded FIFO.  The ring is read as a sequence  *)
(* of slots, and the queue of completions is what remains of it when       *)
(* second halves, fillers and internal timeouts are left aside.  The       *)
(* kernel appends to that sequence, and a call that consumes takes from    *)
(* its front exactly the slots of what it was given.                       *)

Value == Cqes \cup Big
Word  == Posted \cup {Half, Filler, NoCqe}

\* The n slots of the ring q from position h on.
Window(q, h, n) == [i \in 1 .. n |-> q[Slot(Add(h, i - 1))]]

\* What the pointers of l lead to.
Shown(l) == [i \in 1 .. Len(l) |-> l[i].cqe]

\* What the application was given is what stands at the head.  A pointer is
\* to the CQE at the head, those of a batch to the ones that follow it; what
\* for_each_cqe has shown is all that it has gone past.
GivenInv ==
  /\ \A i \in 1 .. Len(held) : held[i].cqe \notin Timeouts
  /\ pc \notin {"each", "stop"} =>
       /\ \A i \in 1 .. Len(held) : PointsTo(held[i], cqes, Add(khead, i - 1))
       /\ Len(held) > 1 => Big = {}
  /\ pc \in {"each", "stop"} =>
       Only(Shown(held), Value) = Only(Window(cqes, khead, Dist(head)), Value)

FInv == IInv /\ GivenInv

-----------------------------------------------------------------------------
(* Parts of the ring.                                                      *)

\* A part of the ring is a sequence, of the length asked for.
LEMMA WindowType ==
  ASSUME NEW q \in Ring, NEW h \in Counter, NEW n \in 0 .. CqEntries
  PROVE  /\ Window(q, h, n) \in Seq(Word) /\ Len(Window(q, h, n)) = n
         /\ \A i \in 1 .. n : Window(q, h, n)[i] = q[Slot(Add(h, i - 1))]
<1>1. ASSUME NEW i \in 1 .. n PROVE q[Slot(Add(h, i - 1))] \in Word
  <2>1. i - 1 \in Nat /\ 0 + (i - 1) < Modulus /\ Sub(h, h) = 0
    BY Widths, SubZero
  <2>2. Add(h, i - 1) \in Counter
    BY <2>1, SubAdd
  <2> QED BY <2>2, SlotType DEF Ring, Word
<1>2. Window(q, h, n) \in [1 .. n -> Word]
  BY <1>1 DEF Window
<1>3. n \in Nat
  BY Widths
<1>4. Window(q, h, n) \in Seq(Word) /\ Len(Window(q, h, n)) = n
  BY <1>2, <1>3, FunctionIsSeq
<1> QED BY <1>4 DEF Window

\* Nothing.
LEMMA WindowNone ==
  ASSUME NEW q \in Ring, NEW h \in Counter
  PROVE  Window(q, h, 0) = << >>
<1>1. 0 \in 0 .. CqEntries
  BY Widths
<1>2. Window(q, h, 0) \in Seq(Word) /\ Len(Window(q, h, 0)) = 0
  BY <1>1, WindowType
<1> QED BY <1>2, EmptySeq

\* One slot more.
LEMMA WindowNext ==
  ASSUME NEW q \in Ring, NEW h \in Counter, NEW n \in Nat, n + 1 <= CqEntries
  PROVE  /\ q[Slot(Add(h, n))] \in Word
         /\ Window(q, h, n + 1) = Append(Window(q, h, n), q[Slot(Add(h, n))])
<1> DEFINE v == Window(q, h, n)
           w == Window(q, h, n + 1)
           x == q[Slot(Add(h, n))]
           a == Append(v, x)
<1>1. n \in 0 .. CqEntries /\ n + 1 \in 0 .. CqEntries /\ n + 1 \in 1 .. n + 1
      /\ (n + 1) - 1 = n
  BY Widths
<1>2. /\ v \in Seq(Word) /\ Len(v) = n
      /\ \A i \in 1 .. n : v[i] = q[Slot(Add(h, i - 1))]
  BY <1>1, WindowType
<1>3. /\ w \in Seq(Word) /\ Len(w) = n + 1
      /\ \A i \in 1 .. n + 1 : w[i] = q[Slot(Add(h, i - 1))]
  BY <1>1, WindowType
<1>4. w[n + 1] = x
  <2> HIDE DEF w
  <2> QED BY <1>1, <1>3
<1> HIDE DEF v, w, x, a
<1>5. x \in Word
  <2>1. w[n + 1] \in Word
    BY <1>1, <1>3, ElementOfSeq
  <2> QED BY <1>4, <2>1
<1>6. /\ a \in Seq(Word) /\ Len(a) = n + 1 /\ a[n + 1] = x
      /\ \A i \in 1 .. n : a[i] = v[i]
  BY <1>2, <1>5, AppendProperties DEF a
<1>7. ASSUME NEW i \in 1 .. Len(w) PROVE w[i] = a[i]
  <2>1. i = n + 1 \/ i \in 1 .. n
    BY <1>3
  <2>2. CASE i = n + 1
    BY <1>4, <1>6, <2>2
  <2>3. CASE i \in 1 .. n
    BY <1>1, <1>2, <1>3, <1>6, <2>3
  <2> QED BY <2>1, <2>2, <2>3
<1>8. w = a
  BY <1>3, <1>6, <1>7, SeqEqual
<1> QED BY <1>5, <1>8 DEF w, a, v, x

\* A part, and the part after it.
LEMMA WindowSplit ==
  ASSUME NEW q \in Ring, NEW h \in Counter, NEW m \in Nat, NEW n \in Nat,
         m + n <= CqEntries
  PROVE  /\ Add(h, m) \in Counter
         /\ Window(q, h, m + n) = Window(q, h, m) \o Window(q, Add(h, m), n)
<1> DEFINE k == Add(h, m)
           u == Window(q, h, m)
           v == Window(q, k, n)
           w == Window(q, h, m + n)
           c == u \o v
<1>1. /\ m \in 0 .. CqEntries /\ n \in 0 .. CqEntries
      /\ m + n \in 0 .. CqEntries /\ m + n < Modulus
  BY Widths
<1>2. k \in Counter
  BY <1>1, AddAdd
<1>3. /\ u \in Seq(Word) /\ Len(u) = m
      /\ \A i \in 1 .. m : u[i] = q[Slot(Add(h, i - 1))]
  BY <1>1, WindowType
<1> HIDE DEF k
<1>4. /\ v \in Seq(Word) /\ Len(v) = n
      /\ \A i \in 1 .. n : v[i] = q[Slot(Add(k, i - 1))]
  BY <1>1, <1>2, WindowType
<1>5. /\ w \in Seq(Word) /\ Len(w) = m + n
      /\ \A i \in 1 .. m + n : w[i] = q[Slot(Add(h, i - 1))]
  BY <1>1, WindowType
<1> HIDE DEF u, v, w, c
<1>6. /\ c \in Seq(Word) /\ Len(c) = m + n
      /\ \A i \in 1 .. m + n : c[i] = IF i <= m THEN u[i] ELSE v[i - m]
  BY <1>3, <1>4, ConcatProperties DEF c
<1>7. ASSUME NEW i \in 1 .. Len(w) PROVE w[i] = c[i]
  <2>1. i \in 1 .. m + n
    BY <1>5
  <2>2. CASE i <= m
    <3>1. i \in 1 .. m
      BY <2>1, <2>2
    <3> QED BY <1>3, <1>5, <1>6, <2>1, <2>2, <3>1
  <2>3. CASE ~(i <= m)
    <3>1. /\ i - m \in 1 .. n /\ (i - m) - 1 \in Nat
          /\ m + ((i - m) - 1) = i - 1 /\ m + ((i - m) - 1) < Modulus
      <4>1. i \in Int /\ i <= m + n /\ m < i /\ Modulus \in Int
        BY <2>1, <2>3, Widths
      <4> QED BY <1>1, <4>1
    <3>2. Add(k, (i - m) - 1) = Add(h, i - 1)
      <4> DEFINE j == (i - m) - 1
      <4>1. j \in Nat /\ m + j < Modulus /\ m + j = i - 1
        BY <3>1
      <4> HIDE DEF j
      <4>2. Add(Add(h, m), j) = Add(h, m + j)
        BY <4>1, AddAdd
      <4> QED BY <4>1, <4>2 DEF k, j
    <3>3. c[i] = v[i - m]
      BY <1>6, <2>1, <2>3
    <3>4. v[i - m] = q[Slot(Add(k, (i - m) - 1))]
      BY <1>4, <3>1
    <3>5. w[i] = q[Slot(Add(h, i - 1))]
      BY <1>5, <2>1
    <3> QED BY <3>2, <3>3, <3>4, <3>5
  <2> QED BY <2>2, <2>3
<1>8. w = c
  BY <1>5, <1>6, <1>7, SeqEqual
<1> QED BY <1>2, <1>8 DEF k, u, v, w, c

\* What stands below the tail is the same part of a ring it was kept in.
LEMMA WindowKept ==
  ASSUME NEW q \in Ring, NEW p \in Ring, NEW h \in Counter, NEW t \in Counter,
         Kept(q, p, h, t), NEW n \in Nat, n <= Sub(t, h), n <= CqEntries
  PROVE  Window(p, h, n) = Window(q, h, n)
<1>1. ASSUME NEW i \in 1 .. n
      PROVE  p[Slot(Add(h, i - 1))] = q[Slot(Add(h, i - 1))]
  <2>1. i - 1 \in Nat /\ 0 + (i - 1) < Modulus /\ Sub(h, h) = 0
    BY Widths, SubZero
  <2>2. Add(h, i - 1) \in Counter /\ Sub(Add(h, i - 1), h) = i - 1
    BY <2>1, SubAdd
  <2>3. Sub(t, h) \in Int
    BY SubType, Widths DEF Counter
  <2>4. Sub(Add(h, i - 1), h) < Sub(t, h)
    BY <2>2, <2>3
  <2> QED BY <2>2, <2>4 DEF Kept
<1> QED BY <1>1 DEF Window
-----------------------------------------------------------------------------
(* What the kernel adds.                                                   *)

\* What is selected with one element more.
LEMMA SelectAppend ==
  ASSUME NEW w \in Seq(Word), NEW x \in Word
  PROVE  Only(Append(w, x), Value)
           = IF x \in Value THEN Append(Only(w, Value), x) ELSE Only(w, Value)
BY OnlyAppend

\* What is selected with one slot more.
LEMMA SelectNext ==
  ASSUME NEW q \in Ring, NEW h \in Counter, NEW n \in Nat, n + 1 <= CqEntries
  PROVE  Only(Window(q, h, n + 1), Value)
           = IF q[Slot(Add(h, n))] \in Value
             THEN Append(Only(Window(q, h, n), Value), q[Slot(Add(h, n))])
             ELSE Only(Window(q, h, n), Value)
<1>1. n \in 0 .. CqEntries
  BY Widths
<1>2. Window(q, h, n) \in Seq(Word)
  BY <1>1, WindowType
<1>3. /\ q[Slot(Add(h, n))] \in Word
      /\ Window(q, h, n + 1) = Append(Window(q, h, n), q[Slot(Add(h, n))])
  BY WindowNext
<1> QED BY <1>2, <1>3, SelectAppend

\* A write at the tail adds what was written, if it is a completion.
LEMMA SelectWritten ==
  ASSUME NEW q \in Ring, NEW p \in Ring, NEW h \in Counter, NEW t \in Counter,
         Sub(t, h) + 1 <= CqEntries, Kept(q, p, h, t)
  PROVE  Only(Window(p, h, Sub(t, h) + 1), Value)
           = IF p[Slot(t)] \in Value
             THEN Append(Only(Window(q, h, Sub(t, h)), Value), p[Slot(t)])
             ELSE Only(Window(q, h, Sub(t, h)), Value)
<1> DEFINE n == Sub(t, h)
<1>1. n \in Nat
  BY SubType, Widths DEF Counter
<1>2. Add(h, n) = t
  BY AddDistance
<1>3. n <= Sub(t, h) /\ n <= CqEntries /\ n + 1 <= CqEntries
  BY <1>1, Widths
<1> HIDE DEF n
<1>4. Window(p, h, n) = Window(q, h, n)
  BY <1>1, <1>3, WindowKept
<1>5. Only(Window(p, h, n + 1), Value)
        = IF p[Slot(Add(h, n))] \in Value
          THEN Append(Only(Window(p, h, n), Value), p[Slot(Add(h, n))])
          ELSE Only(Window(p, h, n), Value)
  BY <1>1, <1>3, SelectNext
<1> QED BY <1>2, <1>4, <1>5 DEF n

\* What is neither selected nor written by the kernel as a completion.
LEMMA Values ==
  /\ Half \notin Value /\ Filler \notin Value
  /\ \A c \in Timeouts : c \notin Big
  /\ Value \subseteq Posted /\ Posted \subseteq Word
BY CqesAssumption DEF Value, Posted, Word

\* The filler is no completion.
LEMMA PadQueue ==
  ASSUME TypeOK, Paired, NEW c \in Posted
  PROVE  Only(Window(Padded(c), khead, Sub(Start(c), khead)), Value)
           = Only(Window(cqes, khead, Size), Value)
<1>1. cqes \in Ring /\ khead \in Counter /\ ktail \in Counter
  BY RingType
<1>2. Size \in Nat
  BY <1>1, SubType, Widths DEF Counter, Size
<1>3. CASE Straddles(c)
  <2> DEFINE p == [cqes EXCEPT ![Slot(ktail)] = Filler]
             u == Add(ktail, 1)
  <2>1. Size < CqEntries /\ Size + 1 <= CqEntries
    BY <1>2, <1>3, Widths DEF Straddles, Room, Size
  <2>2. PairedIn(cqes, khead, ktail) /\ Filler \in Cqes \cup Timeouts \cup {Filler}
    BY DEF Paired
  <2>3. Padded(c) = p /\ Start(c) = u
    BY <1>3 DEF Padded, Start
  <2>4. p \in Ring /\ Sub(u, khead) = Size + 1 /\ Kept(cqes, p, khead, ktail)
    BY <1>1, <2>1, <2>2, PutOne DEF Size
  <2>5. p[Slot(ktail)] = Filler
    BY <1>1, SlotType DEF Ring
  <2> HIDE DEF p, u
  <2>6. Only(Window(p, khead, Size + 1), Value) = Only(Window(cqes, khead, Size), Value)
    BY <1>1, <2>1, <2>4, <2>5, Values, SelectWritten DEF Size
  <2> QED BY <2>3, <2>4, <2>6
<1>4. CASE ~Straddles(c)
  BY <1>4 DEF Padded, Start, Size
<1> QED BY <1>3, <1>4

\* A completion that is stored goes to the end of the queue, unless it is an
\* internal timeout.
LEMMA PlaceQueue ==
  ASSUME TypeOK, Paired, NEW c \in Posted, Place(c)
  PROVE  Only(Window(cqes', khead, Sub(ktail', khead)), Value)
           = IF c \in Value
             THEN Append(Only(Window(cqes, khead, Size), Value), c)
             ELSE Only(Window(cqes, khead, Size), Value)
<1> DEFINE q == Padded(c)
           t == Start(c)
           n == Sub(t, khead)
<1>1. khead \in Counter /\ ktail \in Counter /\ cqes \in Ring
  BY RingType
<1>2. q \in Ring /\ t \in Counter /\ PairedIn(q, khead, t)
  <2>1. CASE Straddles(c)
    <3> DEFINE p == [cqes EXCEPT ![Slot(ktail)] = Filler]
               u == Add(ktail, 1)
    <3>1. Sub(ktail, khead) < CqEntries
      <4>1. Sub(ktail, khead) \in Counter
        BY <1>1, SubType
      <4> QED BY <2>1, <4>1, Widths DEF Straddles, Room, Counter
    <3>2. PairedIn(cqes, khead, ktail) /\ Filler \in Cqes \cup Timeouts \cup {Filler}
      BY DEF Paired
    <3>3. p \in Ring /\ u \in Counter /\ PairedIn(p, khead, u)
      BY <1>1, <3>1, <3>2, PutOne
    <3>4. q = p /\ t = u
      BY <2>1 DEF Padded, Start
    <3> HIDE DEF p, u, q, t
    <3> QED BY <3>3, <3>4
  <2>2. CASE ~Straddles(c)
    BY <1>1, <2>2 DEF Padded, Start, Paired
  <2> QED BY <2>1, <2>2
<1>3. n \in Nat
  BY <1>1, <1>2, SubType, Widths DEF Counter
<1>4. /\ n + Width(c) <= CqEntries
      /\ cqes' = Stored(c) /\ ktail' = Add(t, Width(c))
  <2>1. Width(c) \in Nat
    BY DEF Width
  <2> QED BY <1>3, <2>1, Widths DEF Place, Fits, Room
<1>5. Only(Window(q, khead, n), Value) = Only(Window(cqes, khead, Size), Value)
  BY PadQueue
<1>6. CASE c \in Big
  <2> DEFINE p == [q EXCEPT ![Slot(t)] = c, ![Slot(Add(t, 1))] = Half]
             u == Add(t, 2)
  <2>1. Width(c) = 2 /\ cqes' = p /\ ktail' = u /\ n + 2 <= CqEntries
    BY <1>3, <1>4, <1>6 DEF Width, Stored
  <2> HIDE DEF q, t
  <2>2. p \in Ring /\ Sub(u, khead) = n + 2 /\ Kept(q, p, khead, t)
    BY <1>1, <1>2, <1>6, <2>1, PutBig
  <2>3. Add(t, 1) \in Counter /\ Add(khead, n + 1) = Add(t, 1)
    <3>1. n + 1 \in Nat /\ n + 1 < Modulus
      BY <1>3, <2>1, Widths
    <3>2. Add(khead, n) = t
      BY <1>1, <1>2, AddDistance
    <3>3. Add(Add(khead, n), 1) = Add(khead, n + 1)
      BY <1>1, <1>3, <3>1, AddAdd
    <3>4. Add(t, 1) \in Counter
      BY <1>1, <1>2, <3>1, SubAddFront
    <3> QED BY <3>2, <3>3, <3>4
  <2>4. Slot(t) # Slot(Add(t, 1))
    <3>1. n < CqEntries /\ n + 1 < CqEntries /\ n + 1 < Modulus
      BY <1>3, <2>1, Widths
    <3>2. Sub(Add(t, 1), khead) = n + 1
      BY <1>1, <1>2, <3>1, SubAddFront
    <3>3. t # Add(t, 1)
      BY <1>3, <3>2
    <3> QED BY <1>1, <1>2, <2>3, <3>1, <3>2, <3>3, SlotApart
  <2>5. p[Slot(t)] = c /\ p[Slot(Add(t, 1))] = Half
    BY <1>2, <2>3, <2>4, SlotType DEF Ring
  <2> HIDE DEF p, u
  <2>6. Only(Window(p, khead, n + 1), Value)
          = Append(Only(Window(q, khead, n), Value), c)
    <3>1. c \in Value /\ Sub(t, khead) + 1 <= CqEntries
      BY <1>3, <1>6, <2>1, Widths DEF Value
    <3>2. Only(Window(p, khead, Sub(t, khead) + 1), Value)
            = IF p[Slot(t)] \in Value
              THEN Append(Only(Window(q, khead, Sub(t, khead)), Value), p[Slot(t)])
              ELSE Only(Window(q, khead, Sub(t, khead)), Value)
      <4> HIDE DEF n
      <4> QED BY <1>1, <1>2, <2>2, <3>1, SelectWritten
    <3> QED BY <2>5, <3>1, <3>2
  <2>7. Only(Window(p, khead, (n + 1) + 1), Value) = Only(Window(p, khead, n + 1), Value)
    <3>1. n + 1 \in Nat /\ (n + 1) + 1 <= CqEntries
      BY <1>3, <2>1, Widths
    <3>2. Half = p[Slot(Add(khead, n + 1))]
      BY <2>3, <2>5
    <3> HIDE DEF n
    <3> QED BY <1>1, <2>2, <3>1, <3>2, Values, SelectNext
  <2>8. (n + 1) + 1 = n + 2
    BY <1>3
  <2>9. c \in Value
    BY <1>6 DEF Value
  <2> QED BY <1>5, <2>1, <2>2, <2>6, <2>7, <2>8, <2>9
<1>7. CASE c \notin Big
  <2> DEFINE p == [cqes EXCEPT ![Slot(ktail)] = c]
             u == Add(ktail, 1)
  <2>1. /\ Width(c) = 1 /\ q = cqes /\ t = ktail
        /\ cqes' = p /\ ktail' = u
        /\ c \in Cqes \cup Timeouts \cup {Filler}
    BY <1>4, <1>7 DEF Width, Straddles, Padded, Start, Stored, Posted
  <2>2. Sub(ktail, khead) < CqEntries /\ Sub(ktail, khead) + 1 <= CqEntries
    <3>1. n = Sub(ktail, khead)
      BY <2>1
    <3> HIDE DEF n
    <3> QED BY <1>3, <1>4, <2>1, <3>1, Widths
  <2>3. PairedIn(cqes, khead, ktail)
    BY DEF Paired
  <2>4. /\ p \in Ring /\ Sub(u, khead) = Sub(ktail, khead) + 1
        /\ Kept(cqes, p, khead, ktail)
    BY <1>1, <2>1, <2>2, <2>3, PutOne
  <2>5. p[Slot(ktail)] = c
    BY <1>1, SlotType DEF Ring
  <2> HIDE DEF p, u
  <2> QED BY <1>1, <2>1, <2>2, <2>4, <2>5, SelectWritten DEF Size
<1> QED BY <1>6, <1>7
-----------------------------------------------------------------------------
(* The queue of completions.                                               *)

\* What is selected from the ring q between h and t, then from b.
Queue(q, h, t, b) == Only(Window(q, h, Sub(t, h)) \o b, Value)

LEMMA OutstandingIs ==
  /\ Outstanding = Queue(cqes, khead, ktail, backlog)
  /\ Outstanding' = Queue(cqes', khead', ktail', backlog')
BY DEF Outstanding, InRing, Queue, Window, CqeAt, Value

\* The queue is that of the ring and that of the backlog, one after the other.
LEMMA QueueParts ==
  ASSUME NEW q \in Ring, NEW h \in Counter, NEW t \in Counter,
         Sub(t, h) <= CqEntries, NEW b \in Seq(Posted)
  PROVE  /\ Only(Window(q, h, Sub(t, h)), Value) \in Seq(Value)
         /\ Only(b, Value) \in Seq(Value)
         /\ Queue(q, h, t, b)
              = Only(Window(q, h, Sub(t, h)), Value) \o Only(b, Value)
         /\ Queue(q, h, t, b) \in Seq(Value)
         /\ Len(Queue(q, h, t, b)) <= Sub(t, h) + Len(b)
<1> DEFINE n == Sub(t, h)
           w == Window(q, h, n)
           k == Queue(q, h, t, b)
<1>1. n \in 0 .. CqEntries
  BY SubType, Widths DEF Counter
<1> HIDE DEF n
<1>2. w \in Seq(Word) /\ Len(w) = n
  BY <1>1, WindowType
<1>3. b \in Seq(Word)
  BY Values, SeqMonotonic
<1> HIDE DEF w
<1>4. k = Only(w \o b, Value)
  BY DEF Queue, w, n
<1> HIDE DEF k
<1>5. ASSUME NEW s \in Seq(Word)
      PROVE  Only(s, Value) \in Seq(Value) /\ Len(Only(s, Value)) <= Len(s)
  <2>1. Only(s, Value) \in Seq(Value \cap Word) /\ Len(Only(s, Value)) <= Len(s)
    BY OnlyType
  <2> QED BY <2>1, SeqMonotonic
<1>6. Only(w \o b, Value) = Only(w, Value) \o Only(b, Value)
  BY <1>2, <1>3, OnlyConcat
<1>7. w \o b \in Seq(Word) /\ Len(w \o b) = n + Len(b)
  BY <1>2, <1>3, ConcatProperties
<1>8. Only(w, Value) \in Seq(Value) /\ Only(b, Value) \in Seq(Value)
  BY <1>2, <1>3, <1>5
<1>9. k \in Seq(Value) /\ Len(k) <= n + Len(b)
  BY <1>4, <1>5, <1>7
<1>10. k = Only(w, Value) \o Only(b, Value)
  BY <1>4, <1>6
<1> QED BY <1>8, <1>9, <1>10 DEF k, w, n

\* Going on by d slots leaves aside what is selected from those.
LEMMA QueueRest ==
  ASSUME NEW q \in Ring, NEW h \in Counter, NEW t \in Counter,
         Sub(t, h) <= CqEntries, NEW b \in Seq(Posted),
         NEW d \in Nat, d <= Sub(t, h)
  PROVE  /\ Add(h, d) \in Counter /\ Sub(t, Add(h, d)) = Sub(t, h) - d
         /\ Only(Window(q, h, d), Value) \in Seq(Value)
         /\ Queue(q, h, t, b)
              = Only(Window(q, h, d), Value) \o Queue(q, Add(h, d), t, b)
<1> DEFINE k == Add(h, d)
           m == Sub(t, h) - d
           u == Window(q, h, d)
           v == Window(q, k, m)
<1>1. /\ Sub(t, h) \in Nat /\ m \in Nat /\ d + m = Sub(t, h)
      /\ d + m <= CqEntries /\ d < Modulus
  <2> HIDE DEF k, u, v, Window, Queue
  <2>1. Sub(t, h) \in Counter
    BY SubType
  <2>2. Sub(t, h) \in Nat /\ Sub(t, h) <= CqEntries /\ d <= Sub(t, h)
    BY <2>1, Widths DEF Counter
  <2> QED BY <2>2, Widths
<1>2. k \in Counter /\ Sub(k, h) = d
  <2>1. Sub(h, h) = 0 /\ Sub(h, h) + d < Modulus
    BY <1>1, SubZero
  <2> QED BY <2>1, SubAdd
<1>3. Sub(t, k) = m
  <2> HIDE DEF k
  <2>1. Sub(k, h) <= Sub(t, h)
    BY <1>2
  <2> QED BY <1>2, <2>1, SubChain
<1> HIDE DEF k, m
<1>4. Window(q, h, Sub(t, h)) = u \o v
  <2>1. Window(q, h, d + m) = Window(q, h, d) \o Window(q, Add(h, d), m)
    BY <1>1, WindowSplit
  <2> QED BY <1>1, <2>1 DEF k
<1>5. d \in 0 .. CqEntries /\ m \in 0 .. CqEntries
  BY <1>1, Widths
<1>6. u \in Seq(Word) /\ v \in Seq(Word) /\ b \in Seq(Word)
  BY <1>2, <1>5, WindowType, Values, SeqMonotonic
<1> HIDE DEF u, v
<1>7. Queue(q, h, t, b) = Only(u \o (v \o b), Value)
  <2>1. (u \o v) \o b = u \o (v \o b)
    BY <1>6, ConcatAssociative
  <2> QED BY <1>4, <2>1 DEF Queue
<1>8. Only(u \o (v \o b), Value) = Only(u, Value) \o Only(v \o b, Value)
  <2>1. v \o b \in Seq(Word)
    BY <1>6, ConcatProperties
  <2> QED BY <1>6, <2>1, OnlyConcat
<1>9. Queue(q, k, t, b) = Only(v \o b, Value)
  BY <1>3 DEF Queue, v
<1>10. Only(u, Value) \in Seq(Value)
  <2>1. Only(u, Value) \in Seq(Value \cap Word)
    BY <1>6, OnlyType
  <2> QED BY <2>1, SeqMonotonic
<1> QED BY <1>2, <1>3, <1>7, <1>8, <1>9, <1>10 DEF k, m, u

\* The state as the lemmas about rings want it.
LEMMA RingState ==
  ASSUME IInv
  PROVE  /\ cqes \in Ring /\ khead \in Counter /\ ktail \in Counter
         /\ Sub(ktail, khead) \in Nat /\ Sub(ktail, khead) <= CqEntries
         /\ backlog \in Seq(Posted) /\ Len(backlog) \in Nat
         /\ Len(backlog) <= MaxBacklog
         /\ TypeOK /\ Paired
<1>1. backlog \in Seq(Posted) /\ Len(backlog) <= MaxBacklog /\ TypeOK /\ Paired
  BY DEF IInv, TypeOK
<1> QED BY <1>1, State DEF Size

\* A completion that arrives, in the ring or in the backlog, is added to the
\* queue, unless it is an internal timeout.
LEMMA PostQueue ==
  ASSUME IInv, IInv', NEW c \in Posted, Post(c)
  PROVE  /\ Outstanding' = IF c \in Value THEN Append(Outstanding, c)
                                           ELSE Outstanding
         /\ reaped' = reaped
<1> DEFINE w == Only(Window(cqes, khead, Sub(ktail, khead)), Value)
           w1 == Only(Window(cqes', khead, Sub(ktail', khead)), Value)
           e == Only(backlog, Value)
           e1 == Only(backlog', Value)
<1>1. khead' = khead /\ reaped' = reaped
  BY DEF Post
<1>2. /\ w \in Seq(Value) /\ e \in Seq(Value) /\ Outstanding = w \o e
      /\ Outstanding' = w1 \o e1
  <2>1. /\ w \in Seq(Value) /\ e \in Seq(Value)
        /\ Queue(cqes, khead, ktail, backlog) = w \o e
    BY RingState, QueueParts
  <2>2. /\ cqes' \in Ring /\ ktail' \in Counter /\ backlog' \in Seq(Posted)
        /\ Sub(ktail', khead) <= CqEntries
    <3>1. /\ cqes' \in Ring /\ ktail' \in Counter /\ backlog' \in Seq(Posted)
          /\ PairedIn(cqes', khead', ktail')
      BY DEF IInv, TypeOK, Ring, Paired
    <3> QED BY <1>1, <3>1 DEF PairedIn
  <2>3. Queue(cqes', khead, ktail', backlog') = w1 \o e1
    BY <2>2, RingState, QueueParts
  <2> HIDE DEF w, w1, e, e1
  <2> QED BY <1>1, <2>1, <2>3, OutstandingIs
<1>3. CASE backlog = << >> /\ Place(c) /\ UNCHANGED backlog
  <2>1. w1 = IF c \in Value THEN Append(w, c) ELSE w
    BY <1>3, RingState, PlaceQueue DEF Size
  <2>2. e = << >> /\ e1 = << >>
    BY <1>3, OnlyEmpty
  <2> HIDE DEF w, w1, e, e1
  <2>3. Outstanding = w
    BY <1>2, <2>2, ConcatEmptySeq
  <2>4. w1 \in Seq(Value)
    BY <1>2, <2>1, AppendProperties
  <2>5. Outstanding' = w1
    BY <1>2, <2>2, <2>4, ConcatEmptySeq
  <2> QED BY <1>1, <2>1, <2>3, <2>5
<1>4. CASE /\ backlog' = Append(backlog, c)
           /\ IF backlog = << >>
              THEN cqes' = Padded(c) /\ ktail' = Start(c)
              ELSE UNCHANGED <<cqes, ktail>>
  <2>1. w1 = w
    <3>1. CASE backlog = << >>
      BY <1>4, <3>1, RingState, PadQueue DEF Size
    <3>2. CASE backlog # << >>
      BY <1>4, <3>2
    <3> QED BY <3>1, <3>2
  <2>2. e1 = IF c \in Value THEN Append(e, c) ELSE e
    <3>1. Only(Append(backlog, c), Value)
            = IF c \in Value THEN Append(e, c) ELSE e
      BY RingState, OnlyAppend
    <3> QED BY <1>4, <3>1
  <2> HIDE DEF w, w1, e, e1
  <2>3. CASE c \in Value
    <3>1. w \o Append(e, c) = Append(w \o e, c)
      BY <1>2, <2>3, ConcatAppend
    <3> QED BY <1>1, <1>2, <2>1, <2>2, <2>3, <3>1
  <2>4. CASE c \notin Value
    BY <1>1, <1>2, <2>1, <2>2, <2>4
  <2> QED BY <2>3, <2>4
<1> QED BY <1>3, <1>4 DEF Post

\* Moving the backlog into the ring leaves the queue as it is.
LEMMA FlushQueue ==
  ASSUME IInv, IInv', KernelFlush
  PROVE  Outstanding' = Outstanding /\ reaped' = reaped
<1> DEFINE c == Head(backlog)
           w == Only(Window(cqes, khead, Sub(ktail, khead)), Value)
           w1 == Only(Window(cqes', khead, Sub(ktail', khead)), Value)
           e == Only(backlog, Value)
           e1 == Only(backlog', Value)
<1>1. /\ khead' = khead /\ reaped' = reaped /\ backlog # << >> /\ Place(c)
      /\ backlog' = Tail(backlog)
  BY DEF KernelFlush, GetEvents
<1>2. c \in Posted /\ backlog' \in Seq(Posted)
  BY <1>1, RingState, HeadTailProperties
<1>3. /\ w \in Seq(Value) /\ Outstanding = w \o e
      /\ e1 \in Seq(Value) /\ Outstanding' = w1 \o e1
  <2>1. w \in Seq(Value) /\ Queue(cqes, khead, ktail, backlog) = w \o e
    BY RingState, QueueParts
  <2>2. /\ cqes' \in Ring /\ ktail' \in Counter
        /\ Sub(ktail', khead) <= CqEntries
    <3>1. /\ cqes' \in Ring /\ ktail' \in Counter
          /\ PairedIn(cqes', khead', ktail')
      BY DEF IInv, TypeOK, Ring, Paired
    <3> QED BY <1>1, <3>1 DEF PairedIn
  <2>3. /\ e1 \in Seq(Value)
        /\ Queue(cqes', khead, ktail', backlog') = w1 \o e1
    BY <1>2, <2>2, RingState, QueueParts
  <2> HIDE DEF w, w1, e, e1
  <2> QED BY <1>1, <2>1, <2>3, OutstandingIs
<1>4. w1 = IF c \in Value THEN Append(w, c) ELSE w
  <2> HIDE DEF c
  <2> QED BY <1>1, <1>2, RingState, PlaceQueue DEF Size
<1>5. e = IF c \in Value THEN <<c>> \o e1 ELSE e1
  <2>1. <<c>> \in Seq(Posted) /\ backlog = <<c>> \o backlog'
    <3>1. <<c>> \in Seq(Posted)
      BY <1>2
    <3>2. SubSeq(backlog, 1, Len(backlog))
            = <<backlog[1]>> \o SubSeq(backlog, 1 + 1, Len(backlog))
      <4>1. Len(backlog) \in Nat \ {0}
        BY <1>1, RingState, EmptySeq
      <4>2. 1 \in 1 .. Len(backlog) /\ Len(backlog) \in 1 .. Len(backlog)
        BY <4>1
      <4> QED BY <4>2, RingState, SubSeqRecursiveFirst
    <3>3. SubSeq(backlog, 1, Len(backlog)) = backlog
      BY RingState, SubSeqFull
    <3>4. Tail(backlog) = SubSeq(backlog, 2, Len(backlog))
      BY <1>1, RingState, TailIsSubSeq
    <3>5. Head(backlog) = backlog[1]
      OBVIOUS
    <3> QED BY <1>1, <3>1, <3>2, <3>3, <3>4, <3>5
  <2>2. Only(<<c>> \o backlog', Value) = Only(<<c>>, Value) \o e1
    <3> HIDE DEF c
    <3> QED BY <1>2, <2>1, OnlyConcat
  <2>3. Only(<<c>>, Value) = IF c \in Value THEN <<c>> ELSE << >>
    <3> HIDE DEF c
    <3> QED BY OnlyOne
  <2>4. << >> \o e1 = e1
    BY <1>3, ConcatEmptySeq
  <2> HIDE DEF c, e1
  <2> QED BY <2>1, <2>2, <2>3, <2>4
<1> HIDE DEF c, w, w1, e, e1
<1>6. CASE c \in Value
  <2>1. <<c>> \in Seq(Value) /\ Append(w, c) = w \o <<c>>
    BY <1>3, <1>6, AppendIsConcat
  <2>2. (w \o <<c>>) \o e1 = w \o (<<c>> \o e1)
    BY <1>3, <2>1, ConcatAssociative
  <2> QED BY <1>1, <1>3, <1>4, <1>5, <1>6, <2>1, <2>2
<1>7. CASE c \notin Value
  BY <1>1, <1>3, <1>4, <1>5, <1>7
<1> QED BY <1>6, <1>7
-----------------------------------------------------------------------------
(* What the application takes.                                             *)

\* The CQE at an edge adds itself to what is selected, if it is a completion;
\* its second slot adds nothing.
LEMMA OneCqe ==
  ASSUME IInv, NEW c \in Counter, Edge(c), Dist(c) < Size
  PROVE  LET n == cqe_nr(CqeAt(c))
             w == Only(Window(cqes, khead, Dist(c)), Value)
         IN  /\ n \in {1, 2} /\ Dist(c) \in Nat /\ Dist(c) + n <= Size
             /\ CqeAt(c) \in Posted \cup {Filler}
             /\ Only(Window(cqes, khead, Dist(c) + n), Value)
                  = IF CqeAt(c) \in Value THEN Append(w, CqeAt(c)) ELSE w
<1> DEFINE n == cqe_nr(CqeAt(c))
           m == Dist(c)
           x == CqeAt(c)
           w == Only(Window(cqes, khead, m), Value)
<1>1. /\ m \in Nat /\ m < Size /\ Size \in Nat /\ Size <= CqEntries
      /\ CqEntries \in Nat
  <2>1. m \in Counter
    BY State, SubType DEF Dist
  <2> QED BY <2>1, State, Widths DEF Counter
<1>2. Add(khead, m) = c
  BY State, AddDistance DEF Dist
<1>3. x \in Posted \cup {Filler}
  BY Pointable
<1>4. x = cqes[Slot(c)]
  BY DEF CqeAt
<1> HIDE DEF m, x
<1>5. Only(Window(cqes, khead, m + 1), Value)
        = IF x \in Value THEN Append(w, x) ELSE w
  <2>1. m + 1 <= CqEntries
    BY <1>1
  <2> QED BY <1>1, <1>2, <1>4, <2>1, State, SelectNext
<1>6. CASE x \notin Big
  <2>1. n = 1 /\ m + 1 <= Size
    BY <1>1, <1>6 DEF cqe_nr, x
  <2> HIDE DEF n, w
  <2> QED BY <1>1, <1>3, <1>5, <2>1 DEF n, w, m, x
<1>7. CASE x \in Big
  <2>1. n = 2
    BY <1>7 DEF cqe_nr, x
  <2>2. m + 1 < Size /\ cqes[Slot(Add(c, 1))] = Half
    BY <1>1, <1>4, <1>7, State DEF PairedIn, m, Dist, Size
  <2>3. /\ m + 1 \in Nat /\ (m + 1) + 1 <= CqEntries /\ m + 1 < Modulus
        /\ m + 2 <= Size /\ (m + 1) + 1 = m + 2
    BY <1>1, <2>2, Widths
  <2>4. Add(khead, m + 1) = Add(c, 1)
    <3>1. Add(Add(khead, m), 1) = Add(khead, m + 1)
      BY <1>1, <2>3, State, AddAdd
    <3> QED BY <1>2, <3>1
  <2>5. Only(Window(cqes, khead, (m + 1) + 1), Value)
          = Only(Window(cqes, khead, m + 1), Value)
    <3>1. Half = cqes[Slot(Add(khead, m + 1))]
      BY <2>2, <2>4
    <3> DEFINE k == m + 1
    <3>2. k \in Nat /\ k + 1 <= CqEntries
      BY <2>3
    <3> HIDE DEF k
    <3>3. Only(Window(cqes, khead, k + 1), Value)
            = IF cqes[Slot(Add(khead, k))] \in Value
              THEN Append(Only(Window(cqes, khead, k), Value),
                          cqes[Slot(Add(khead, k))])
              ELSE Only(Window(cqes, khead, k), Value)
      BY <3>2, State, SelectNext
    <3> QED BY <3>1, <3>3, Values DEF k
  <2> HIDE DEF n, w
  <2> QED BY <1>1, <1>3, <1>5, <2>1, <2>3, <2>5 DEF n, w, m, x
<1> QED BY <1>6, <1>7

\* What of the posted is no internal timeout is what the program is given.
LEMMA ShownSame ==
  ASSUME NEW s \in Seq((Posted \cup {Filler}) \ Timeouts)
  PROVE  Only(s, Posted) = Only(s, Value)
<1>1. \A x \in (Posted \cup {Filler}) \ Timeouts : x \in Posted <=> x \in Value
  BY Values DEF Posted, Value
<1> QED BY <1>1, OnlySame

\* Moving the head on by what was given takes that from the queue.
LEMMA Consumed ==
  ASSUME IInv, NEW d \in Nat, d <= Size,
         khead' = Add(khead, d), UNCHANGED <<ktail, cqes, backlog>>
  PROVE  /\ Only(Window(cqes, khead, d), Value) \in Seq(Value)
         /\ Outstanding' \in Seq(Value)
         /\ Outstanding = Only(Window(cqes, khead, d), Value) \o Outstanding'
<1> DEFINE k == Add(khead, d)
<1>1. d <= Sub(ktail, khead)
  BY DEF Size
<1>2. /\ k \in Counter /\ Sub(ktail, k) = Sub(ktail, khead) - d
      /\ Only(Window(cqes, khead, d), Value) \in Seq(Value)
      /\ Queue(cqes, khead, ktail, backlog)
           = Only(Window(cqes, khead, d), Value) \o Queue(cqes, k, ktail, backlog)
  <2>1. /\ cqes \in Ring /\ khead \in Counter /\ ktail \in Counter
        /\ Sub(ktail, khead) <= CqEntries /\ backlog \in Seq(Posted)
    BY RingState
  <2> HIDE DEF Queue, Window, Value, Ring
  <2> QED BY <1>1, <2>1, QueueRest
<1>3. Outstanding' = Queue(cqes, k, ktail, backlog)
  BY OutstandingIs
<1>4. Sub(ktail, k) <= CqEntries
  BY <1>2, RingState, Widths
<1> HIDE DEF k
<1>5. Queue(cqes, k, ktail, backlog) \in Seq(Value)
  BY <1>2, <1>4, RingState, QueueParts
<1> QED BY <1>2, <1>3, <1>5, OutstandingIs DEF k

\* The same as a step of the queue.
LEMMA ConsumedDequeues ==
  ASSUME IInv, NEW d \in Nat, d <= Size,
         khead' = Add(khead, d), UNCHANGED <<ktail, cqes, backlog>>,
         Only(reaped', Posted) = Only(Window(cqes, khead, d), Value)
  PROVE  \E k \in 0 .. Len(Outstanding) : Fifo!Dequeue(k)
<1> DEFINE D == Only(Window(cqes, khead, d), Value)
           R == Outstanding'
<1>1. D \in Seq(Value) /\ R \in Seq(Value) /\ Outstanding = D \o R
  BY Consumed
<1> HIDE DEF D, R
<1>2. /\ Len(D) \in 0 .. Len(D \o R)
      /\ SubSeq(D \o R, 1, Len(D)) = D
      /\ SubSeq(D \o R, Len(D) + 1, Len(D \o R)) = R
  BY <1>1, ConcatSplit
<1>3. Only(reaped', Posted) = D
  BY DEF D
<1>4. Fifo!Dequeue(Len(D))
  BY <1>1, <1>2, <1>3 DEF Fifo!Dequeue, R
<1> QED BY <1>1, <1>2, <1>4
-----------------------------------------------------------------------------
(* What was given.                                                         *)

\* A program that reaps by the batch is given internal timeouts, which
\* peek_batch_cqe does not skip.
NoTimeoutsInBatches == "batch" \in Calls => Timeouts = {}

\* What the kernel adds changes nothing in what was given.
LEMMA KernelGiven ==
  ASSUME FInv, KernelFlush \/ \E c \in Posted : Post(c)
  PROVE  GivenInv'
<1>1. /\ IInv /\ GivenInv
      /\ khead' = khead /\ cqes' \in Ring /\ pc' = pc /\ held' = held
      /\ head' = head /\ Kept(cqes, cqes', khead, ktail)
  BY KernelGrows DEF FInv, Grows, locals
<1>2. Len(held) \in Nat /\ Len(held) <= Size
  BY <1>1 DEF IInv, TypeOK, HeldInv, HeldIn, Size
<1>3. ASSUME NEW i \in 1 .. Len(held),
             PointsTo(held[i], cqes, Add(khead, i - 1))
      PROVE  PointsTo(held[i], cqes', Add(khead, i - 1))
  <2>1. /\ i - 1 \in Nat /\ 0 + (i - 1) < Modulus /\ Sub(khead, khead) = 0
        /\ i - 1 < Size
    BY <1>1, <1>2, State, Widths, SubZero
  <2>2. Add(khead, i - 1) \in Counter /\ Sub(Add(khead, i - 1), khead) = i - 1
    BY <1>1, <2>1, State, SubAdd
  <2>3. cqes'[Slot(Add(khead, i - 1))] = cqes[Slot(Add(khead, i - 1))]
    BY <1>1, <2>1, <2>2 DEF Kept, Size
  <2> QED BY <1>3, <2>3 DEF PointsTo
<1>4. ASSUME pc \in {"each", "stop"}
      PROVE  Window(cqes', khead, Dist(head)) = Window(cqes, khead, Dist(head))
  <2>1. Edge(head) /\ Dist(head) \in Nat /\ Size \in Nat /\ Size <= CqEntries
    BY <1>1, <1>4, State DEF IInv, LoopInv
  <2>2. Dist(head) <= Sub(ktail, khead) /\ Dist(head) <= CqEntries
    BY <2>1, Widths DEF Edge, EdgeIn, Dist, Size
  <2> QED BY <1>1, <2>1, <2>2, State, WindowKept
<1>5. \A i \in 1 .. Len(held') : held'[i].cqe \notin Timeouts
  BY <1>1 DEF GivenInv
<1>6. pc' \notin {"each", "stop"} =>
        /\ \A i \in 1 .. Len(held') : PointsTo(held'[i], cqes', Add(khead', i - 1))
        /\ Len(held') > 1 => Big = {}
  BY <1>1, <1>3 DEF GivenInv
<1>7. pc' \in {"each", "stop"} =>
        Only(Shown(held'), Value)
          = Only(Window(cqes', khead', Dist(head)'), Value)
  <2>1. Dist(head)' = Dist(head)
    BY <1>1 DEF Dist
  <2> QED BY <1>1, <1>4, <2>1 DEF GivenInv
<1> QED BY <1>5, <1>6, <1>7 DEF GivenInv

\* What was given stays so where nothing moves.
LEMMA StillGiven ==
  ASSUME GivenInv, UNCHANGED <<khead, cqes, held>>,
         pc \notin {"each", "stop"}, pc' \notin {"each", "stop"}
  PROVE  GivenInv'
BY DEF GivenInv

\* Nothing given is given rightly.
LEMMA NothingGiven ==
  ASSUME held' = << >>, pc' \notin {"each", "stop"}
  PROVE  GivenInv'
<1>1. Len(held') = 0
  BY EmptySeq
<1> QED BY <1>1 DEF GivenInv

\* peek_cqe gives the CQE at the head, if it is no internal timeout.
LEMMA ScanGiven ==
  ASSUME FInv, Scan
  PROVE  GivenInv'
<1>1. pc = "scan" /\ held = << >> /\ UNCHANGED cqes
  BY DEF Scan, FInv, IInv, HeldInv, kernel
<1>2. CASE /\ ~Skipped(CqeAt(khead)) /\ Return /\ UNCHANGED khead
           /\ held' = <<[slot |-> Slot(khead), cqe |-> CqeAt(khead)]>>
  <2>1. Len(held') = 1 /\ held'[1] = [slot |-> Slot(khead), cqe |-> CqeAt(khead)]
    BY <1>2
  <2>2. held'[1].cqe \notin Timeouts
    BY <1>2, <2>1 DEF Skipped
  <2>3. Add(khead, 1 - 1) = khead
    BY State, Widths DEF Add, Counter, FInv
  <2>4. PointsTo(held'[1], cqes', Add(khead', 1 - 1))
    BY <1>1, <1>2, <2>1, <2>3 DEF PointsTo, CqeAt
  <2>5. \A i \in 1 .. Len(held') : i = 1
    BY <2>1
  <2>6. pc' = "idle" /\ ~(Len(held') > 1)
    BY <1>2, <2>1 DEF Return
  <2> QED BY <2>2, <2>4, <2>5, <2>6 DEF GivenInv
<1>3. CASE held' = held /\ (Return \/ pc' \in {"scan", "enter"})
  BY <1>1, <1>3, NothingGiven DEF Return
<1>4. \/ /\ ~Skipped(CqeAt(khead)) /\ Return /\ UNCHANGED khead
         /\ held' = <<[slot |-> Slot(khead), cqe |-> CqeAt(khead)]>>
      \/ held' = held /\ (Return \/ pc' \in {"scan", "enter"})
  BY <1>1 DEF Scan
<1> QED BY <1>2, <1>3, <1>4

\* peek_batch_cqe gives what stands at the head and after it.
LEMMA BatchGiven ==
  ASSUME FInv, NoTimeoutsInBatches, "batch" \in Calls,
         NEW count \in 1 .. CqEntries, PeekBatch(count)
  PROVE  GivenInv'
<1> DEFINE n == IF count > Size THEN Size ELSE count
<1>1. /\ pc = "idle" /\ pc' = pc /\ khead' = khead /\ cqes' = cqes
      /\ held' = [i \in 1 .. n |-> [slot |-> Slot(Add(khead, i - 1)),
                                    cqe  |-> CqeAt(Add(khead, i - 1))]]
  BY DEF PeekBatch, kernel, Size
<1>2. Timeouts = {} /\ Big = {}
  BY BatchAssumption DEF NoTimeoutsInBatches
<1>3. n \in Nat
  BY State, Widths DEF FInv
<1> HIDE DEF n
<1>4. Len(held') = n
  BY <1>1, <1>3
<1>5. ASSUME NEW i \in 1 .. Len(held')
      PROVE  PointsTo(held'[i], cqes', Add(khead', i - 1))
  BY <1>1, <1>4 DEF PointsTo, CqeAt
<1>6. pc' \notin {"each", "stop"}
  BY <1>1
<1> HIDE DEF Shown, Window, Dist
<1>7. \A i \in 1 .. Len(held') : held'[i].cqe \notin Timeouts
  BY <1>2
<1>8. \A i \in 1 .. Len(held') : PointsTo(held'[i], cqes', Add(khead', i - 1))
  BY <1>5
<1> QED BY <1>2, <1>6, <1>7, <1>8 DEF GivenInv

\* What pointers lead to, with one pointer more.
LEMMA ShownNext ==
  ASSUME NEW l \in Seq(Pointer), NEW p \in Pointer
  PROVE  /\ Shown(l) \in Seq(Posted \cup {Filler}) /\ Len(Shown(l)) = Len(l)
         /\ Shown(Append(l, p)) = Append(Shown(l), p.cqe)
<1> DEFINE V == Posted \cup {Filler}
<1>1. ASSUME NEW s \in Seq(Pointer)
      PROVE  /\ Shown(s) \in Seq(V) /\ Len(Shown(s)) = Len(s) /\ Len(s) \in Nat
             /\ \A i \in 1 .. Len(s) : Shown(s)[i] = s[i].cqe
  <2>1. \A i \in 1 .. Len(s) : s[i].cqe \in V
    <3>1. \A i \in 1 .. Len(s) : s[i] \in Pointer
      BY ElementOfSeq
    <3> QED BY <3>1 DEF Pointer
  <2>2. Shown(s) \in [1 .. Len(s) -> V] /\ Len(s) \in Nat
    BY <2>1, LenProperties DEF Shown
  <2> HIDE DEF V
  <2>3. Shown(s) \in Seq(V) /\ Len(Shown(s)) = Len(s)
    BY <2>2, FunctionIsSeq
  <2> QED BY <2>2, <2>3 DEF Shown
<1> DEFINE a == Append(l, p)
           b == Shown(a)
           c == Append(Shown(l), p.cqe)
<1>2. /\ a \in Seq(Pointer) /\ Len(a) = Len(l) + 1 /\ a[Len(l) + 1] = p
      /\ \A i \in 1 .. Len(l) : a[i] = l[i]
  BY AppendProperties
<1>3. p.cqe \in V
  BY DEF Pointer
<1> HIDE DEF V, a
<1>4. /\ b \in Seq(V) /\ Len(b) = Len(l) + 1
      /\ \A i \in 1 .. Len(l) + 1 : b[i] = a[i].cqe
  BY <1>1, <1>2
<1>5. /\ c \in Seq(V) /\ Len(c) = Len(l) + 1 /\ c[Len(l) + 1] = p.cqe
      /\ \A i \in 1 .. Len(l) : c[i] = l[i].cqe
  <2>1. /\ Shown(l) \in Seq(V) /\ Len(Shown(l)) = Len(l)
        /\ \A i \in 1 .. Len(l) : Shown(l)[i] = l[i].cqe
    BY <1>1
  <2> HIDE DEF Shown
  <2> QED BY <1>3, <2>1, AppendProperties
<1> HIDE DEF b, c
<1>6. ASSUME NEW i \in 1 .. Len(b) PROVE b[i] = c[i]
  <2>1. i = Len(l) + 1 \/ i \in 1 .. Len(l)
    BY <1>1, <1>4
  <2>2. i \in 1 .. Len(l) + 1
    BY <1>4
  <2>3. CASE i = Len(l) + 1
    BY <1>2, <1>4, <1>5, <2>2, <2>3
  <2>4. CASE i \in 1 .. Len(l)
    BY <1>2, <1>4, <1>5, <2>2, <2>4
  <2> QED BY <2>1, <2>3, <2>4
<1>7. b = c
  BY <1>4, <1>5, <1>6, SeqEqual
<1> QED BY <1>1, <1>7 DEF V, a, b, c

\* A turn of for_each_cqe shows the CQE it goes past, internal timeouts aside.
LEMMA VisitGiven ==
  ASSUME FInv, EachVisit
  PROVE  GivenInv'
<1> DEFINE x == CqeAt(head)
           p == [slot |-> Slot(head), cqe |-> x]
<1>1. /\ IInv /\ GivenInv /\ pc = "each" /\ head # tail /\ pc' \in {"each", "stop"}
      /\ held' = IF x \in Timeouts THEN held ELSE Append(held, p)
      /\ head' = Add(head, cqe_nr(x))
      /\ khead' = khead /\ cqes' = cqes
  BY DEF EachVisit, Show, FInv, kernel
<1>2. /\ Edge(head) /\ Edge(tail) /\ Dist(head) <= Dist(tail)
      /\ held \in Seq(Pointer) /\ Len(held) \in Nat
  BY <1>1 DEF IInv, LoopInv, TypeOK
<1>3. Dist(head) < Size
  <2>1. Dist(head) # Dist(tail)
    BY <1>1, State, SubInjective DEF Dist
  <2>2. Dist(tail) <= Size
    BY <1>2 DEF Edge, EdgeIn, Dist, Size
  <2> QED BY <1>1, <1>2, <2>1, <2>2, State
<1> DEFINE n == cqe_nr(x)
           w == Only(Window(cqes, khead, Dist(head)), Value)
<1>4. /\ n \in {1, 2} /\ Dist(head) \in Nat /\ Dist(head) + n <= Size
      /\ x \in Posted \cup {Filler}
      /\ Only(Window(cqes, khead, Dist(head) + n), Value)
           = IF x \in Value THEN Append(w, x) ELSE w
  BY <1>1, <1>2, <1>3, State, OneCqe
<1>5. Dist(head)' = Dist(head) + n
  <2>1. Sub(head, khead) + n < Modulus
    BY <1>1, <1>4, State, Widths DEF Dist
  <2>2. Sub(Add(head, n), khead) = Sub(head, khead) + n
    <3> HIDE DEF n
    <3>1. n \in Nat
      BY <1>4
    <3> QED BY <1>1, <2>1, <3>1, State, SubAdd
  <2> QED BY <1>1, <2>2 DEF Dist
<1>6. Only(Shown(held), Value) = w
  BY <1>1 DEF GivenInv
<1> HIDE DEF x, n, w
<1>7. /\ held' \in Seq(Pointer)
      /\ Only(Shown(held'), Value) = IF x \in Value THEN Append(w, x) ELSE w
      /\ \A i \in 1 .. Len(held') : held'[i].cqe \notin Timeouts
  <2>1. p \in Pointer /\ p.cqe = x
    <3>1. head \in Counter
      BY <1>1, State
    <3>2. [slot |-> Slot(head), cqe |-> CqeAt(head)] \in Pointer
      BY <1>1, <1>2, <1>3, <3>1, Pointable
    <3> QED BY <3>2 DEF x
  <2>2. \A i \in 1 .. Len(held) : held[i].cqe \notin Timeouts
    BY <1>1 DEF GivenInv
  <2> HIDE DEF p
  <2>3. CASE x \in Timeouts
    <3>1. held' = held /\ x \notin Value
      BY <1>1, <2>3, CqesAssumption DEF Value
    <3> QED BY <1>2, <1>6, <2>2, <3>1
  <2>4. CASE x \notin Timeouts
    <3>1. held' = Append(held, p)
      BY <1>1, <2>4
    <3>2. /\ Shown(held) \in Seq(Posted \cup {Filler})
          /\ Shown(held') = Append(Shown(held), x)
      BY <1>2, <2>1, <3>1, ShownNext
    <3>3. Only(Append(Shown(held), x), Value)
            = IF x \in Value THEN Append(Only(Shown(held), Value), x)
              ELSE Only(Shown(held), Value)
      BY <1>4, <3>2, OnlyAppend
    <3>4. /\ held' \in Seq(Pointer) /\ Len(held') = Len(held) + 1
          /\ held'[Len(held) + 1] = p
          /\ \A i \in 1 .. Len(held) : held'[i] = held[i]
      BY <1>2, <2>1, <3>1, AppendProperties
    <3>5. ASSUME NEW i \in 1 .. Len(held') PROVE held'[i].cqe \notin Timeouts
      <4>1. i = Len(held) + 1 \/ i \in 1 .. Len(held)
        BY <1>2, <3>4
      <4> QED BY <2>1, <2>2, <2>4, <3>4, <4>1
    <3> QED BY <1>6, <3>2, <3>3, <3>4, <3>5
  <2> QED BY <2>3, <2>4
<1> QED BY <1>1, <1>4, <1>5, <1>7 DEF GivenInv

\* Every step preserves it.
LEMMA NextGiven ==
  ASSUME FInv, NoTimeoutsInBatches, [Next]_vars
  PROVE  FInv'
<1>1. IInv /\ GivenInv /\ IInv'
  BY NextIInv DEF FInv
<1>2. CASE UNCHANGED vars
  BY <1>1, <1>2 DEF vars, kernel, locals, FInv, GivenInv, Dist
<1>3. CASE \/ "peek" \in Calls /\ StartPeek(0)
           \/ "wait" \in Calls /\ \E n \in WaitNrs : StartPeek(n)
           \/ "submit_and_wait_timeout" \in Calls
              /\ \E n \in {0} \cup WaitNrs, s \in BOOLEAN : StartSubmitAndWait(n, s)
           \/ "get_events" \in Calls
              /\ \E n \in {0, 1}, s \in BOOLEAN : StartGetEvents(n, s)
  <2>1. UNCHANGED <<khead, cqes, held>> /\ pc = "idle" /\ pc' \in {"load", "enter"}
    BY <1>3 DEF StartPeek, StartSubmitAndWait, StartGetEvents, kernel
  <2> QED BY <1>1, <2>1, StillGiven DEF FInv
<1>4. CASE EnterReturn \/ EnterFail \/ LoadTail
  <2>1. /\ UNCHANGED <<khead, cqes, held>> /\ pc \in {"load", "enter"}
        /\ pc' \in {"load", "idle", "scan"}
    BY <1>4 DEF EnterReturn, EnterFail, LoadTail, Return, kernel
  <2> QED BY <1>1, <2>1, StillGiven DEF FInv
<1>5. CASE EachStart
  <2>1. held' = << >> /\ head' = khead /\ pc' = "each" /\ khead' = khead
        /\ cqes' = cqes
    BY <1>5 DEF EachStart, kernel
  <2>2. Dist(head)' = 0
    BY <1>1, <2>1, State DEF Dist
  <2>3. Len(held') = 0
    BY <2>1, EmptySeq
  <2>4. Shown(held') = << >>
    <3>1. << >> \in Seq(Pointer)
      BY EmptySeq
    <3>2. /\ Shown(<< >>) \in Seq(Posted \cup {Filler})
          /\ Len(Shown(<< >>)) = Len(<< >>)
      <4> DEFINE V == Posted \cup {Filler}
      <4>1. Shown(<< >>) \in [1 .. 0 -> V]
        BY EmptySeq DEF Shown
      <4> HIDE DEF V
      <4>2. Shown(<< >>) \in Seq(V) /\ Len(Shown(<< >>)) = 0
        BY <4>1, FunctionIsSeq
      <4> QED BY <4>2, EmptySeq DEF V
    <3> QED BY <2>1, <3>2, EmptySeq
  <2>5. Window(cqes', khead', Dist(head)') = << >>
    BY <1>1, <2>1, <2>2, State, WindowNone
  <2> QED BY <1>1, <2>1, <2>3, <2>4, <2>5 DEF FInv, GivenInv
<1>6. CASE \/ CqeSeen \/ EachEnd
           \/ "batch" \in Calls /\ \E k \in 1 .. Len(held) : CqAdvance(k)
  <2>1. held' = << >> /\ pc' = "idle"
    BY <1>6 DEF CqeSeen, EachEnd, CqAdvance, Return
  <2> QED BY <1>1, <2>1, NothingGiven DEF FInv
<1> QED
  BY <1>1, <1>2, <1>3, <1>4, <1>5, <1>6, KernelGiven, ScanGiven, BatchGiven,
     VisitGiven DEF Next, InCall, FInv

\* An empty ring, and nothing given.
LEMMA InitGiven == Init => FInv
<1> SUFFICES ASSUME Init PROVE FInv
  OBVIOUS
<1>1. held = << >> /\ pc = "idle" /\ Len(held) = 0
  BY EmptySeq DEF Init
<1>2. GivenInv
  BY <1>1 DEF GivenInv
<1> QED BY <1>2, InitIInv DEF FInv
-----------------------------------------------------------------------------
(* The refinement.                                                         *)

\* The queue is never longer than the ring and the backlog together.
LEMMA QueueBound ==
  ASSUME NEW q \in Ring, NEW h \in Counter, NEW t \in Counter,
         Sub(t, h) <= CqEntries, NEW b \in Seq(Posted), Len(b) <= MaxBacklog
  PROVE  Queue(q, h, t, b) \in Seq(Value)
         /\ Len(Queue(q, h, t, b)) <= CqEntries + MaxBacklog
<1> DEFINE k == Queue(q, h, t, b)
           n == Sub(t, h)
<1>1. k \in Seq(Value) /\ Len(k) <= n + Len(b)
  BY QueueParts
<1>2. n \in Nat
  BY SubType, Widths DEF Counter
<1>3. Len(b) \in Nat /\ Len(k) \in Nat /\ MaxBacklog \in Nat /\ CqEntries \in Nat
  BY <1>1, LenProperties, CqAssumption
<1> HIDE DEF k, n
<1>4. n <= CqEntries
  BY DEF n
<1>5. Len(k) <= CqEntries + MaxBacklog
  BY <1>1, <1>2, <1>3, <1>4
<1> QED BY <1>1, <1>5 DEF k

LEMMA OutstandingBound ==
  ASSUME IInv
  PROVE  Outstanding \in Seq(Value) /\ Len(Outstanding) <= CqEntries + MaxBacklog
BY RingState, QueueBound, OutstandingIs

\* Where ring and backlog stand still, nothing leaves the queue; a call that
\* begins forgets what the one before it consumed.
LEMMA StillRefines ==
  ASSUME IInv, UNCHANGED <<khead, ktail, cqes, backlog>>,
         reaped' = reaped \/ reaped' = << >>
  PROVE  [Fifo!Next]_Fifo!vars
<1>1. Outstanding' = Outstanding
  BY OutstandingIs
<1>2. CASE reaped' = reaped
  BY <1>1, <1>2 DEF Fifo!vars
<1>3. CASE reaped' = << >>
  <2>1. Only(reaped', Posted) = << >>
    BY <1>3, OnlyEmpty
  <2>2. Outstanding \in Seq(Value) /\ Len(Outstanding) \in Nat
    BY OutstandingBound, LenProperties
  <2>3. SubSeq(Outstanding, 1, 0) = << >>
    BY SubSeqEmpty
  <2>4. SubSeq(Outstanding, 0 + 1, Len(Outstanding)) = Outstanding
    BY <2>2, SubSeqFull
  <2>5. Fifo!Dequeue(0)
    BY <1>1, <2>1, <2>3, <2>4 DEF Fifo!Dequeue
  <2>6. 0 \in 0 .. Len(Outstanding)
    BY <2>2
  <2> QED BY <2>5, <2>6 DEF Fifo!Next
<1> QED BY <1>2, <1>3

\* A completion that is posted enters the queue.
LEMMA PostRefines ==
  ASSUME IInv, IInv', NEW c \in Posted, Post(c)
  PROVE  [Fifo!Next]_Fifo!vars
<1>1. /\ Outstanding' = IF c \in Value THEN Append(Outstanding, c) ELSE Outstanding
      /\ reaped' = reaped
  BY PostQueue
<1>2. CASE c \in Value
  <2>1. Outstanding \in Seq(Value) /\ Len(Outstanding) \in Nat
    BY OutstandingBound, LenProperties
  <2>2. Len(Outstanding') <= CqEntries + MaxBacklog
    <3>1. /\ cqes' \in Ring /\ khead' \in Counter /\ ktail' \in Counter
          /\ Sub(ktail', khead') <= CqEntries
          /\ backlog' \in Seq(Posted) /\ Len(backlog') <= MaxBacklog
      <4>1. PairedIn(cqes', khead', ktail') /\ TypeOK'
        BY DEF IInv, Paired
      <4> QED BY <4>1 DEF TypeOK, Ring, PairedIn
    <3> QED BY <3>1, QueueBound, OutstandingIs
  <2>3. Len(Outstanding') = Len(Outstanding) + 1
    BY <1>1, <1>2, <2>1, AppendProperties
  <2>4. Len(Outstanding) < CqEntries + MaxBacklog
    BY <2>1, <2>2, <2>3, CqAssumption
  <2>5. Fifo!Enqueue(c)
    BY <1>1, <1>2, <2>4 DEF Fifo!Enqueue
  <2>6. c \in Cqes \cup Big
    BY <1>2 DEF Value
  <2> QED BY <2>5, <2>6 DEF Fifo!Next
<1>3. CASE c \notin Value
  BY <1>1, <1>3 DEF Fifo!vars
<1> QED BY <1>2, <1>3

\* The same of moving the backlog into the ring, which the program does not
\* notice.
LEMMA FlushRefines ==
  ASSUME IInv, IInv', KernelFlush
  PROVE  [Fifo!Next]_Fifo!vars
BY FlushQueue DEF Fifo!vars

Leaves == \E k \in 0 .. Len(Outstanding) : Fifo!Dequeue(k)

LEMMA LeavesIsNext == Leaves => Fifo!Next
BY DEF Leaves, Fifo!Next

\* What consumes takes from the front of the queue.
LEMMA ConsumedRefines ==
  ASSUME IInv, NEW d \in Nat, d <= Size,
         khead' = Add(khead, d), UNCHANGED <<ktail, cqes, backlog>>,
         Only(reaped', Posted) = Only(Window(cqes, khead, d), Value)
  PROVE  Leaves
BY ConsumedDequeues DEF Leaves

\* At the head.
LEMMA HeadCqe ==
  ASSUME IInv, 0 < Size
  PROVE  LET n == cqe_nr(CqeAt(khead))
         IN  /\ n \in Nat /\ n <= Size /\ CqeAt(khead) \in Posted \cup {Filler}
             /\ Only(Window(cqes, khead, n), Value)
                  = IF CqeAt(khead) \in Value THEN <<CqeAt(khead)>> ELSE << >>
<1> DEFINE n == cqe_nr(CqeAt(khead))
           x == CqeAt(khead)
<1>1. khead \in Counter /\ Edge(khead) /\ Dist(khead) = 0
  BY State
<1>2. /\ n \in {1, 2} /\ 0 + n <= Size /\ x \in Posted \cup {Filler}
      /\ Only(Window(cqes, khead, 0 + n), Value)
           = IF x \in Value
             THEN Append(Only(Window(cqes, khead, 0), Value), x)
             ELSE Only(Window(cqes, khead, 0), Value)
  BY <1>1, OneCqe
<1>3. Only(Window(cqes, khead, 0), Value) = << >>
  BY State, WindowNone, OnlyEmpty
<1> HIDE DEF n, x
<1>4. 0 + n = n /\ n \in Nat
  BY <1>2
<1>5. Append(<< >>, x) = <<x>>
  OBVIOUS
<1> QED BY <1>2, <1>3, <1>4, <1>5 DEF n, x

\* peek_cqe consumes the internal timeouts it skips, and nothing else.
LEMMA ScanRefines ==
  ASSUME IInv, Scan
  PROVE  [Fifo!Next]_Fifo!vars
<1>1. CASE /\ khead # tail /\ Skipped(CqeAt(khead))
           /\ khead' = Add(khead, cqe_nr(CqeAt(khead)))
  <2> DEFINE d == cqe_nr(CqeAt(khead))
             D == Only(Window(cqes, khead, d), Value)
  <2>1. 0 < Size /\ UNCHANGED <<ktail, cqes, backlog, reaped>>
    <3>1. Edge(tail) /\ UNCHANGED <<ktail, cqes, backlog, reaped>>
      BY DEF Scan, IInv, LoopInv, kernel
    <3>2. Dist(tail) # 0
      BY <1>1, State, SubZero DEF Dist
    <3>3. Dist(tail) <= Size
      BY <3>1 DEF Edge, EdgeIn, Dist, Size
    <3> QED BY <3>1, <3>2, <3>3, State
  <2>2. /\ d \in Nat /\ d <= Size
        /\ D = IF CqeAt(khead) \in Value THEN <<CqeAt(khead)>> ELSE << >>
    BY <2>1, HeadCqe
  <2>3. CqeAt(khead) \notin Value
    BY <1>1, CqesAssumption DEF Skipped, Value
  <2>4. khead' = Add(khead, d)
    BY <1>1
  <2> HIDE DEF d
  <2>5. Outstanding' \in Seq(Value) /\ Outstanding = D \o Outstanding'
    BY <2>1, <2>2, <2>4, Consumed
  <2>6. Outstanding = Outstanding'
    <3>1. D = << >>
      BY <2>2, <2>3
    <3> QED BY <2>5, <3>1, ConcatEmptySeq
  <2> QED BY <2>1, <2>6 DEF Fifo!vars
<1>2. CASE UNCHANGED khead
  <2>1. UNCHANGED <<khead, ktail, cqes, backlog, reaped>>
    BY <1>2 DEF Scan, kernel
  <2> QED BY <2>1, StillRefines
<1> QED BY <1>1, <1>2 DEF Scan

\* cqe_seen consumes the CQE at the head.
LEMMA SeenRefines ==
  ASSUME FInv, CqeSeen
  PROVE  Leaves
<1> DEFINE x == CqeAt(khead)
           d == cqe_nr(x)
<1>1. /\ IInv /\ GivenInv /\ pc = "idle" /\ held # << >> /\ reaped' = Given(1)
      /\ khead' = Add(khead, cqe_nr(cqes[held[1].slot]))
      /\ UNCHANGED <<ktail, cqes, backlog>>
  BY DEF CqeSeen, FInv, kernel
<1>2. held \in Seq(Pointer) /\ Len(held) \in Nat \ {0} /\ Len(held) <= Size
  BY <1>1, EmptySeq DEF IInv, TypeOK, HeldInv, HeldIn, Size
<1>3. PointsTo(held[1], cqes, khead) /\ held[1].cqe \notin Timeouts
  <2>1. 1 \in 1 .. Len(held)
    BY <1>2
  <2> QED BY <1>1, <2>1 DEF IInv, HeldInv, GivenInv
<1>4. held[1].slot = Slot(khead) /\ held[1].cqe = x
  BY <1>3 DEF PointsTo, CqeAt
<1>5. 0 < Size
  BY <1>1, <1>2, State
<1>6. /\ d \in Nat /\ d <= Size /\ x \in Posted \cup {Filler}
      /\ Only(Window(cqes, khead, d), Value) = IF x \in Value THEN <<x>> ELSE << >>
  BY <1>1, <1>5, HeadCqe
<1>7. khead' = Add(khead, d)
  BY <1>1, <1>4 DEF CqeAt
<1> HIDE DEF x, d
<1>8. reaped' = <<x>>
  BY <1>1, <1>4 DEF Given
<1>9. Only(<<x>>, Posted) = Only(<<x>>, Value)
  <2>1. <<x>> \in Seq((Posted \cup {Filler}) \ Timeouts)
    BY <1>3, <1>4, <1>6
  <2> QED BY <2>1, ShownSame
<1>10. Only(<<x>>, Value) = IF x \in Value THEN <<x>> ELSE << >>
  BY OnlyOne
<1> QED BY <1>1, <1>6, <1>7, <1>8, <1>9, <1>10, ConsumedRefines

\* cq_advance consumes the front of the batch it was given.
LEMMA AdvanceRefines ==
  ASSUME FInv, NoTimeoutsInBatches, "batch" \in Calls,
         NEW k \in 1 .. Len(held), CqAdvance(k)
  PROVE  Leaves
<1>1. /\ IInv /\ GivenInv /\ pc = "idle" /\ reaped' = Given(k)
      /\ khead' = Add(khead, k) /\ UNCHANGED <<ktail, cqes, backlog>>
  BY DEF CqAdvance, FInv, kernel
<1>2. /\ held \in Seq(Pointer) /\ Len(held) \in Nat /\ Len(held) <= Size
      /\ Size \in Nat /\ Size <= CqEntries
  BY <1>1, State DEF IInv, TypeOK, HeldInv, HeldIn, Size
<1>3. k \in Nat /\ k <= Size /\ k \in 0 .. CqEntries
  BY <1>2, Widths
<1>4. \A i \in 1 .. k : /\ held[i].cqe = cqes[Slot(Add(khead, i - 1))]
                        /\ held[i].cqe \notin Timeouts
                        /\ held[i].cqe \in Posted \cup {Filler}
  <2>1. ASSUME NEW i \in 1 .. k
        PROVE  /\ held[i].cqe = cqes[Slot(Add(khead, i - 1))]
               /\ held[i].cqe \notin Timeouts
               /\ held[i].cqe \in Posted \cup {Filler}
    <3>1. i \in 1 .. Len(held)
      BY <1>2, <1>3
    <3>2. PointsTo(held[i], cqes, Add(khead, i - 1)) /\ held[i].cqe \notin Timeouts
      BY <1>1, <3>1 DEF GivenInv
    <3>3. held[i] \in Pointer
      BY <1>2, <3>1, ElementOfSeq
    <3> QED BY <3>2, <3>3 DEF PointsTo, Pointer
  <2> QED BY <2>1
<1>5. Given(k) = Window(cqes, khead, k)
  BY <1>4 DEF Given, Window
<1>6. Given(k) \in Seq((Posted \cup {Filler}) \ Timeouts)
  <2> DEFINE V == (Posted \cup {Filler}) \ Timeouts
  <2>1. Given(k) \in [1 .. k -> V]
    BY <1>4 DEF Given
  <2> HIDE DEF V
  <2>2. Given(k) \in Seq(V)
    BY <1>3, <2>1, FunctionIsSeq
  <2> QED BY <2>2 DEF V
<1>7. Only(reaped', Posted) = Only(Window(cqes, khead, k), Value)
  BY <1>1, <1>5, <1>6, ShownSame
<1> QED BY <1>1, <1>3, <1>7, ConsumedRefines

\* The end of for_each_cqe consumes all the loop has gone past.
LEMMA EachEndRefines ==
  ASSUME FInv, EachEnd
  PROVE  Leaves
<1> DEFINE d == Dist(head)
<1>1. /\ IInv /\ GivenInv /\ pc \in {"each", "stop"}
      /\ khead' = head /\ reaped' = Given(Len(held))
      /\ UNCHANGED <<ktail, cqes, backlog>>
  BY DEF EachEnd, FInv, kernel
<1>2. /\ Edge(head) /\ head \in Counter /\ d \in Nat /\ d <= Size
      /\ held \in Seq(Pointer)
  BY <1>1, State DEF IInv, LoopInv, TypeOK, Edge, EdgeIn, Dist, Size
<1>3. khead' = Add(khead, d)
  BY <1>1, <1>2, State, AddDistance DEF Dist
<1>4. Given(Len(held)) = Shown(held)
  BY DEF Given, Shown
<1>5. Shown(held) \in Seq((Posted \cup {Filler}) \ Timeouts)
  <2> DEFINE V == (Posted \cup {Filler}) \ Timeouts
  <2>1. \A i \in 1 .. Len(held) : held[i].cqe \in V
    <3>1. \A i \in 1 .. Len(held) : held[i] \in Pointer
      BY <1>2, ElementOfSeq
    <3>2. \A i \in 1 .. Len(held) : held[i].cqe \notin Timeouts
      BY <1>1 DEF GivenInv
    <3> QED BY <3>1, <3>2 DEF Pointer
  <2>2. Shown(held) \in [1 .. Len(held) -> V] /\ Len(held) \in Nat
    BY <1>2, <2>1, LenProperties DEF Shown
  <2> HIDE DEF V
  <2>3. Shown(held) \in Seq(V)
    BY <2>2, FunctionIsSeq
  <2> QED BY <2>3 DEF V
<1>6. Only(Shown(held), Value) = Only(Window(cqes, khead, d), Value)
  BY <1>1 DEF GivenInv
<1>7. Only(reaped', Posted) = Only(Window(cqes, khead, d), Value)
  BY <1>1, <1>4, <1>5, <1>6, ShownSame
<1> HIDE DEF d
<1> QED BY <1>1, <1>2, <1>3, <1>7, ConsumedRefines

\* Every step is a step of the queue, or none.
LEMMA NextRefines ==
  ASSUME FInv, FInv', NoTimeoutsInBatches, [Next]_vars
  PROVE  [Fifo!Next]_Fifo!vars
<1>1. IInv /\ IInv'
  BY DEF FInv
<1>2. CASE UNCHANGED vars
  BY <1>1, <1>2, StillRefines DEF vars, kernel
<1>3. CASE \/ "peek" \in Calls /\ StartPeek(0)
           \/ "wait" \in Calls /\ \E n \in WaitNrs : StartPeek(n)
           \/ "submit_and_wait_timeout" \in Calls
              /\ \E n \in {0} \cup WaitNrs, s \in BOOLEAN : StartSubmitAndWait(n, s)
           \/ "get_events" \in Calls
              /\ \E n \in {0, 1}, s \in BOOLEAN : StartGetEvents(n, s)
           \/ "each" \in Calls /\ EachStart
           \/ "batch" \in Calls /\ \E n \in 1 .. CqEntries : PeekBatch(n)
  <2>1. UNCHANGED <<khead, ktail, cqes, backlog>> /\ reaped' = << >>
    BY <1>3 DEF StartPeek, StartSubmitAndWait, StartGetEvents, EachStart,
                PeekBatch, Begin, kernel
  <2> QED BY <1>1, <2>1, StillRefines
<1>4. CASE EnterReturn \/ EnterFail \/ LoadTail \/ EachVisit
  <2>1. UNCHANGED <<khead, ktail, cqes, backlog, reaped>>
    BY <1>4 DEF EnterReturn, EnterFail, LoadTail, EachVisit, Show, kernel
  <2> QED BY <1>1, <2>1, StillRefines
<1> QED
  BY <1>1, <1>2, <1>3, <1>4, PostRefines, FlushRefines, ScanRefines, SeenRefines,
     AdvanceRefines, EachEndRefines, LeavesIsNext DEF Next, InCall

\* An empty ring is an empty queue.
LEMMA InitRefines == Init => Fifo!Init
<1> SUFFICES ASSUME Init PROVE Fifo!Init
  OBVIOUS
<1>1. IInv /\ reaped = << >> /\ backlog = << >> /\ ktail = khead
  BY InitIInv DEF Init
<1>2. Sub(ktail, khead) = 0
  BY <1>1, State DEF Dist
<1>3. Outstanding = << >>
  <2>1. Window(cqes, khead, Sub(ktail, khead)) = << >>
    BY <1>1, <1>2, State, WindowNone
  <2>2. Outstanding = Only(<< >> \o << >>, Value)
    BY <1>1, <2>1, OutstandingIs DEF Queue
  <2>3. << >> \o << >> = << >>
    BY EmptySeq, ConcatEmptySeq
  <2> QED BY <2>2, <2>3, OnlyEmpty
<1>4. Only(reaped, Posted) = << >>
  BY <1>1, OnlyEmpty
<1> QED BY <1>3, <1>4 DEF Fifo!Init

\* The completions reach the program in the order they were posted, each once
\* and none lost, through ring and backlog, whichever of the calls of
\* queue.cpp and io_uring.hpp reap them, in every interleaving with the kernel.
THEOREM ImplementsFifo ==
  ASSUME NoTimeoutsInBatches
  PROVE  Spec => FifoSpec
<1>1. Init => FInv /\ Fifo!Init
  BY InitGiven, InitRefines
<1>2. FInv /\ [Next]_vars => FInv'
  BY NextGiven
<1>3. FInv /\ FInv' /\ [Next]_vars => [Fifo!Next]_Fifo!vars
  BY NextRefines
<1> QED BY <1>1, <1>2, <1>3, PTL DEF Spec, FifoSpec, Fifo!Spec
=============================================================================
