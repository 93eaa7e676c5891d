----------------------- MODULE SubmissionQueueProofs ------------------------
(***************************************************************************)
(* The submission queue for every width, ring size, store-buffer depth and *)
(* set of requests: types, the window of the ring, what io_uring_enter is  *)
(* offered, that the polling thread never sleeps on published work, and    *)
(* that the queue implements the bounded FIFO.  The last rests on one fact *)
(* about words: two positions less than a ring length apart never share a  *)
(* slot.                                                                   *)
(***************************************************************************)
EXTENDS SubmissionQueue, RingLemmas, TLAPS

-----------------------------------------------------------------------------
\* The slot of a position is a slot of the ring.
LEMMA SlotType ==
  ASSUME NEW c \in Counter
  PROVE  Slot(c) \in 0 .. Entries - 1
BY ModulusAssumption, RingAssumption DEF Counter, Slot

-----------------------------------------------------------------------------
(* The inductive invariant.                                                *)

\* What a call in progress carries covers everything not yet consumed; in
\* enter mode nothing is consumed before the call reaches the kernel, so it
\* is exact.
Offered ==
  pc \in {"needs", "peek", "enter"} =>
    /\ Ahead(sqe_tail) <= submitted
    /\ ~SqPoll => submitted = Ahead(sqe_tail)

\* The polling thread sets IORING_SQ_NEED_WAKEUP before it stops looking.
ThreadState ==
  thread # "running" => SqPoll /\ needWakeup

\* Neither part stands alone: flush counts at most Entries (TypeOK) because
\* the positions are in order (RingWindow), a take keeps them in order
\* because they are words, and what io_uring_enter is offered is fixed when
\* flush counts, two steps earlier (Offered).
IInv == TypeOK /\ RingWindow /\ Offered /\ ThreadState

\* The empty rings of a fresh io_uring satisfy the invariant.
LEMMA InitIInv == Init => IInv
<1> SUFFICES ASSUME Init PROVE IInv
    OBVIOUS
<1>1. 0 \in Counter
    BY ModulusAssumption DEF Counter
<1>2. TypeOK
  <2>1. sqes \in [0 .. Entries - 1 -> Sqe]
      BY DEF Init, Sqe
  <2>2. sb \in Seq(Counter) /\ Len(sb) <= SbDepth
      BY RingAssumption DEF Init
  <2>3. taken \in {<< >>} \cup {<<s>> : s \in Sqe}
      BY DEF Init
  <2>4. 0 \in 0 .. Entries
      BY RingAssumption
  <2>5. /\ sqe_head = 0 /\ sqe_tail = 0 /\ ktail = 0 /\ khead = 0
        /\ needWakeup = FALSE /\ thread = "running" /\ pc = "idle"
        /\ call = "none" /\ wait = FALSE
        /\ submitted = 0 /\ wake = FALSE /\ left = 0
      BY DEF Init
  <2> QED
      BY <1>1, <2>1, <2>2, <2>3, <2>4, <2>5 DEF TypeOK
<1>3. RingWindow
    BY RingAssumption DEF Init, RingWindow, Ahead, Sub, sq_ready
<1>4. Offered /\ ThreadState
    BY DEF Init, Offered, ThreadState
<1> QED
    BY <1>2, <1>3, <1>4 DEF IInv

\* Consuming one SQE brings every published position one closer.
LEMMA ConsumeWindow ==
  ASSUME TypeOK, RingWindow, Consume, UNCHANGED <<sqe_head, sqe_tail, ktail, sb>>
  PROVE  /\ khead' \in Counter
         /\ taken' \in {<<s>> : s \in Sqe}
         /\ RingWindow'
         /\ Ahead(sqe_tail)' = Ahead(sqe_tail) - 1
         /\ Ahead(sqe_tail) > 0
<1>1. /\ khead \in Counter /\ ktail \in Counter
      /\ sqe_head \in Counter /\ sqe_tail \in Counter
      /\ sb \in Seq(Counter)
    BY DEF TypeOK
<1>2. /\ khead' \in Counter
      /\ Sub(ktail, khead') = Sub(ktail, khead) - 1
    BY <1>1, SubAddRear DEF Consume
<1>3. Sub(ktail, khead) > 0
    BY <1>1, SubZero, SubType DEF Consume, Counter
<1>4. \A c \in Counter : Sub(c, khead) \in Int /\ Sub(c, khead') \in Int
    BY <1>1, <1>2, SubType DEF Counter
<1>5. \A c \in Counter : Sub(c, khead) >= Sub(ktail, khead)
                           => Sub(c, khead') = Sub(c, khead) - 1
  <2> SUFFICES ASSUME NEW c \in Counter, Sub(c, khead) >= Sub(ktail, khead)
               PROVE  Sub(c, khead') = Sub(c, khead) - 1
      OBVIOUS
  <2>1. c # khead
      BY <1>1, <1>3, <1>4, SubZero
  <2> QED
      BY <2>1, <1>1, SubAddRear DEF Consume
<1>6. \A i \in 1 .. Len(sb) : /\ sb[i] \in Counter
                              /\ Sub(sb[i], khead') = Sub(sb[i], khead) - 1
  <2> SUFFICES ASSUME NEW i \in 1 .. Len(sb)
               PROVE  /\ sb[i] \in Counter
                      /\ Sub(sb[i], khead') = Sub(sb[i], khead) - 1
      OBVIOUS
  <2>1. sb[i] \in Counter
      BY <1>1
  <2>2. Sub(ktail, khead) < Sub(sb[i], khead)
      BY DEF RingWindow, Ahead
  <2>3. Sub(sb[i], khead) >= Sub(ktail, khead)
      BY <1>1, <1>4, <2>1, <2>2
  <2> QED
      BY <1>5, <2>1, <2>3
<1>7. /\ Sub(sqe_head, khead') = Sub(sqe_head, khead) - 1
      /\ Sub(sqe_tail, khead') = Sub(sqe_tail, khead) - 1
  <2>1. /\ Sub(ktail, khead) <= Sub(sqe_head, khead)
        /\ Sub(sqe_head, khead) <= Sub(sqe_tail, khead)
      BY DEF RingWindow, Ahead
  <2>2. /\ Sub(sqe_head, khead) >= Sub(ktail, khead)
        /\ Sub(sqe_tail, khead) >= Sub(ktail, khead)
      BY <1>1, <1>4, <2>1
  <2> QED
      BY <1>1, <1>5, <2>2
<1>8. RingWindow'
  <2>1. \A i \in 1 .. Len(sb) : Sub(ktail, khead') < Sub(sb[i], khead')
    <3> SUFFICES ASSUME NEW i \in 1 .. Len(sb)
                 PROVE  Sub(ktail, khead') < Sub(sb[i], khead')
        OBVIOUS
    <3>1. Sub(ktail, khead) < Sub(sb[i], khead)
        BY DEF RingWindow, Ahead
    <3>2. sb[i] \in Counter /\ Sub(sb[i], khead') = Sub(sb[i], khead) - 1
        BY <1>6
    <3>3. /\ Sub(ktail, khead) \in Int /\ Sub(sb[i], khead) \in Int
        BY <1>1, <1>4, <3>2
    <3> QED
        BY <1>2, <3>1, <3>2, <3>3
  <2>2. \A i, j \in 1 .. Len(sb) :
            i < j => Sub(sb[i], khead') < Sub(sb[j], khead')
    <3> SUFFICES ASSUME NEW i \in 1 .. Len(sb), NEW j \in 1 .. Len(sb), i < j
                 PROVE  Sub(sb[i], khead') < Sub(sb[j], khead')
        OBVIOUS
    <3>1. Sub(sb[i], khead) < Sub(sb[j], khead)
        BY DEF RingWindow, Ahead
    <3>2. /\ sb[i] \in Counter /\ Sub(sb[i], khead') = Sub(sb[i], khead) - 1
          /\ sb[j] \in Counter /\ Sub(sb[j], khead') = Sub(sb[j], khead) - 1
        BY <1>6
    <3>3. /\ Sub(sb[i], khead) \in Int /\ Sub(sb[j], khead) \in Int
        BY <1>4, <3>2
    <3> QED
        BY <3>1, <3>2, <3>3
  <2>3. /\ Sub(ktail, khead) <= Sub(sqe_head, khead)
        /\ Sub(sqe_head, khead) <= Sub(sqe_tail, khead)
        /\ Sub(sqe_tail, khead) <= Entries
      BY DEF RingWindow, Ahead, sq_ready
  <2>4. /\ Sub(ktail, khead') <= Sub(sqe_head, khead')
        /\ Sub(sqe_head, khead') <= Sub(sqe_tail, khead')
        /\ Sub(sqe_tail, khead') <= Entries
      BY <1>1, <1>2, <1>4, <1>7, <2>3, RingAssumption
  <2>5. sqe_head = IF sb = << >> THEN ktail ELSE sb[Len(sb)]
      BY DEF RingWindow
  <2> QED
      BY <2>1, <2>2, <2>4, <2>5 DEF RingWindow, Ahead, sq_ready
<1>9. taken' \in {<<s>> : s \in Sqe}
  <2>1. Slot(khead) \in 0 .. Entries - 1
      BY <1>1, SlotType
  <2>2. SqArray[Slot(khead)] \in 0 .. Entries - 1
      BY <2>1 DEF SqArray
  <2>3. sqes[SqArray[Slot(khead)]] \in Sqe
      BY <2>2 DEF TypeOK
  <2> QED
      BY <2>3 DEF Consume
<1>10. Ahead(sqe_tail) > 0
  <2>1. /\ Sub(ktail, khead) <= Sub(sqe_head, khead)
        /\ Sub(sqe_head, khead) <= Sub(sqe_tail, khead)
      BY DEF RingWindow, Ahead
  <2> QED
      BY <1>1, <1>3, <1>4, <2>1 DEF Ahead
<1> QED
    BY <1>2, <1>7, <1>8, <1>9, <1>10 DEF Ahead

-----------------------------------------------------------------------------
(* One step preserves the invariant: one lemma per group of actions.       *)

\* What the actions that only move the application along leave alone.
LEMMA WindowUnchanged ==
  ASSUME RingWindow, UNCHANGED <<sqe_head, sqe_tail, ktail, khead, sb>>
  PROVE  /\ RingWindow'
         /\ Ahead(sqe_tail)' = Ahead(sqe_tail)
BY DEF RingWindow, Ahead, sq_ready

\* get_sqe preserves the invariant: the full test (queue.cpp:66) leaves room
\* for the position it adds.
LEMMA GetSqeIInv ==
  ASSUME IInv, GetSqe
  PROVE  IInv'
<1> USE DEF IInv
<1>1. /\ khead \in Counter /\ sqe_tail \in Counter /\ sqe_head \in Counter
    BY DEF TypeOK
<1>2. Sub(sqe_tail, khead) \in Int /\ Sub(sqe_head, khead) \in Int
    BY <1>1, SubType DEF Counter
<1>3. Sub(sqe_tail, khead) < Entries
    BY DEF GetSqe, HasRoom, sq_ready
<1>4. /\ sqe_tail' \in Counter
      /\ Sub(sqe_tail', khead') = Sub(sqe_tail, khead) + 1
  <2>1. Sub(sqe_tail, khead) + 1 < Modulus
      BY <1>2, <1>3, RingAssumption, ModulusAssumption
  <2> QED
      BY <1>1, <2>1, SubAddFront DEF GetSqe
<1>5. sqes' \in [0 .. Entries - 1 -> Sqe]
    BY <1>1, SlotType DEF GetSqe, TypeOK, InitSqe, Sqe
<1>6. TypeOK'
    BY <1>4, <1>5 DEF GetSqe, TypeOK, args
<1>7. RingWindow'
  <2>1. UNCHANGED <<sqe_head, ktail, khead, sb>>
      BY DEF GetSqe
  <2>2. Sub(sqe_head, khead') <= Sub(sqe_tail', khead')
      BY <1>2, <1>4, <2>1 DEF RingWindow, Ahead
  <2>3. Sub(sqe_tail', khead') <= Entries
      BY <1>2, <1>3, <1>4, RingAssumption
  <2> QED
      BY <2>1, <2>2, <2>3 DEF RingWindow, Ahead, sq_ready
<1>8. Offered' /\ ThreadState'
    BY DEF GetSqe, Offered, ThreadState, args
<1> QED
    BY <1>6, <1>7, <1>8

\* prep_* preserves the invariant: it only writes the slot handed out last.
LEMMA PrepIInv ==
  ASSUME IInv, NEW r \in Reqs, Prep(r)
  PROVE  IInv'
<1> USE DEF IInv
<1>1. sqe_tail \in Counter
    BY DEF TypeOK
<1>2. Slot(Sub(sqe_tail, 1)) \in 0 .. Entries - 1
  <2>1. 1 < Modulus
      BY RingAssumption, ModulusAssumption
  <2> QED
      BY <1>1, <2>1, SubOneType, SlotType
<1>3. sqes' \in [0 .. Entries - 1 -> Sqe]
  <2> DEFINE s == sqes[Slot(Sub(sqe_tail, 1))]
             ext == s.ext \/ r \in Extended
  <2>1. s \in Sqe
      BY <1>2 DEF TypeOK
  <2>2. ext \in BOOLEAN
      OBVIOUS
  <2>3. [req |-> r, ext |-> ext] \in Sqe
      BY <2>2 DEF Sqe
  <2> HIDE DEF ext
  <2>4. sqes' = [sqes EXCEPT ![Slot(Sub(sqe_tail, 1))] = [req |-> r, ext |-> ext]]
      BY DEF Prep, ext
  <2> QED
      BY <1>2, <2>3, <2>4 DEF TypeOK
<1>4. TypeOK'
    BY <1>3 DEF Prep, TypeOK, args
<1>5. RingWindow'
    BY WindowUnchanged DEF Prep
<1>6. Offered' /\ ThreadState'
    BY DEF Prep, Offered, ThreadState, args
<1> QED
    BY <1>4, <1>5, <1>6

\* io_uring_sq::flush preserves the invariant: the store it makes is ahead of
\* every store still on its way to *ktail.
LEMMA FlushIInv ==
  ASSUME IInv, NEW c \in Calls, NEW w \in Waits(c), Flush(c, w)
  PROVE  IInv'
<1> USE DEF IInv
<1>1. /\ khead \in Counter /\ ktail \in Counter
      /\ sqe_head \in Counter /\ sqe_tail \in Counter
      /\ sb \in Seq(Counter)
    BY DEF TypeOK
<1>2. \A x \in Counter : Sub(x, khead) \in Int
    BY <1>1, SubType DEF Counter
<1>3. UNCHANGED <<sqe_tail, ktail, khead, sqes, needWakeup, thread, taken>>
    BY DEF Flush, rings
<1>4. w \in BOOLEAN /\ 0 \in 0 .. Entries
  <2>1. Waits(c) \subseteq BOOLEAN
      BY Zenon DEF Waits
  <2>2. 0 \in 0 .. Entries
      BY RingAssumption
  <2> QED
      BY <2>1, <2>2
<1>5. CASE sqe_head = sqe_tail
  <2>1. UNCHANGED <<sb, sqe_head>>
      BY <1>5 DEF Flush
  <2>2. RingWindow'
      BY <1>3, <2>1, WindowUnchanged
  <2>3. /\ call' = c /\ wait' = w /\ wake' = FALSE
        /\ submitted' = 0 /\ left' = 0 /\ pc' = "count"
      BY DEF Flush
  <2>4. TypeOK'
      BY <1>3, <1>4, <2>1, <2>3 DEF TypeOK
  <2> QED
      BY <1>3, <2>2, <2>3, <2>4 DEF Offered, ThreadState
<1>6. CASE sqe_head # sqe_tail
  <2>1. sb' = Append(sb, sqe_tail) /\ sqe_head' = sqe_tail /\ Len(sb) < SbDepth
      BY <1>6 DEF Flush
  <2>2. /\ sb' \in Seq(Counter)
        /\ Len(sb') = Len(sb) + 1
        /\ sb' # << >>
        /\ sb'[Len(sb')] = sqe_tail
        /\ \A i \in 1 .. Len(sb) : sb'[i] = sb[i]
      BY <1>1, <2>1
  <2>3. Sub(sqe_head, khead) < Sub(sqe_tail, khead)
    <3>1. Sub(sqe_head, khead) # Sub(sqe_tail, khead)
        BY <1>1, <1>6, ModulusAssumption DEF Counter, Sub
    <3>2. Sub(sqe_head, khead) <= Sub(sqe_tail, khead)
        BY DEF RingWindow, Ahead
    <3> QED
        BY <1>1, <1>2, <3>1, <3>2
  <2>4. \A i \in 1 .. Len(sb) : Sub(sb[i], khead) < Sub(sqe_tail, khead)
    <3> SUFFICES ASSUME NEW i \in 1 .. Len(sb)
                 PROVE  Sub(sb[i], khead) < Sub(sqe_tail, khead)
        OBVIOUS
    <3>1. sb[i] \in Counter /\ sb # << >> /\ Len(sb) \in 1 .. Len(sb) /\ sb[Len(sb)] \in Counter
        BY <1>1
    <3>2. sqe_head = sb[Len(sb)]
        BY <3>1 DEF RingWindow
    <3>3. i < Len(sb) => Sub(sb[i], khead) < Sub(sqe_head, khead)
        BY <3>1, <3>2 DEF RingWindow, Ahead
    <3>4. i = Len(sb) => Sub(sb[i], khead) = Sub(sqe_head, khead)
        BY <3>2
    <3>5. i < Len(sb) \/ i = Len(sb)
        BY <1>1
    <3>6. Sub(sb[i], khead) \in Int /\ Sub(sqe_head, khead) \in Int /\ Sub(sqe_tail, khead) \in Int
        BY <1>1, <1>2, <3>1
    <3> QED
        BY <2>3, <3>3, <3>4, <3>5, <3>6
  <2>5. Sub(ktail, khead) < Sub(sqe_tail, khead)
    <3>1. Sub(ktail, khead) <= Sub(sqe_head, khead)
        BY DEF RingWindow, Ahead
    <3> QED
        BY <1>1, <1>2, <2>3, <3>1
  <2>6. \A i \in 1 .. Len(sb') : i \in 1 .. Len(sb) \/ (i = Len(sb') /\ sb'[i] = sqe_tail)
      BY <1>1, <2>2
  <2>7. \A i \in 1 .. Len(sb') : Sub(ktail, khead) < Sub(sb'[i], khead)
      BY <2>2, <2>5, <2>6 DEF RingWindow, Ahead
  <2>8. \A i, j \in 1 .. Len(sb') : i < j => Sub(sb'[i], khead) < Sub(sb'[j], khead)
    <3> SUFFICES ASSUME NEW i \in 1 .. Len(sb'), NEW j \in 1 .. Len(sb'), i < j
                 PROVE  Sub(sb'[i], khead) < Sub(sb'[j], khead)
        OBVIOUS
    <3>1. i \in 1 .. Len(sb) /\ sb'[i] = sb[i]
        BY <1>1, <2>2
    <3>2. CASE j \in 1 .. Len(sb)
        BY <2>2, <3>1, <3>2 DEF RingWindow, Ahead
    <3>3. CASE sb'[j] = sqe_tail
        BY <2>4, <3>1, <3>3
    <3> QED
        BY <2>6, <3>2, <3>3
  <2>9. RingWindow'
    <3>1. /\ sqe_head' = sb'[Len(sb')]
          /\ Sub(ktail, khead) <= Sub(sqe_tail, khead)
          /\ Sub(sqe_tail, khead) <= Sub(sqe_tail, khead)
          /\ Sub(sqe_tail, khead) <= Entries
        BY <1>1, <1>2, <2>1, <2>2, <2>5 DEF RingWindow, sq_ready
    <3> QED
        BY <1>3, <2>1, <2>2, <2>7, <2>8, <3>1 DEF RingWindow, Ahead, sq_ready
  <2>10. Len(sb') <= SbDepth
      BY <1>1, <2>1, <2>2, RingAssumption
  <2>11. /\ call' = c /\ wait' = w /\ wake' = FALSE
         /\ submitted' = 0 /\ left' = 0 /\ pc' = "count"
      BY DEF Flush
  <2>12. TypeOK'
      BY <1>1, <1>3, <2>1, <2>2, <1>4, <2>10, <2>11 DEF TypeOK
  <2> QED
      BY <1>3, <2>9, <2>11, <2>12 DEF Offered, ThreadState
<1> QED
    BY <1>5, <1>6

\* The rest of a submission call preserves the invariant: the count it reads
\* covers everything not consumed (rings.cpp:92), until the kernel is entered.
LEMMA CallIInv ==
  ASSUME IInv, CallNext
  PROVE  IInv'
<1> USE DEF IInv
<1>1. /\ UNCHANGED <<sqe_head, sqe_tail, ktail, khead, sb, sqes, taken>>
    BY DEF CallNext, Count, NeedsEnter, PeekThenEnter, Enter, Return, rings
<1>2. RingWindow' /\ Ahead(sqe_tail)' = Ahead(sqe_tail)
    BY <1>1, WindowUnchanged
<1>3. Ahead(sqe_tail) \in 0 .. Entries
  <2>1. sqe_tail \in Counter /\ khead \in Counter
      BY DEF TypeOK
  <2>2. Sub(sqe_tail, khead) \in Nat
      BY <2>1, SubType DEF Counter
  <2> QED
      BY <2>2, RingAssumption DEF RingWindow, Ahead, sq_ready
<1>4. CASE Count
  <2>1. submitted' = Ahead(sqe_tail)
      BY <1>4 DEF Count, Pending, Ahead
  <2>2. TypeOK'
      BY <1>1, <1>3, <1>4, <2>1 DEF Count, TypeOK, rings
  <2>3. Offered' /\ ThreadState'
      BY <1>2, <1>3, <1>4, <2>1 DEF Count, Offered, ThreadState, rings
  <2> QED
      BY <1>2, <2>2, <2>3
<1>5. CASE NeedsEnter
  <2>1. TypeOK'
      BY <1>1, <1>5, RingAssumption DEF NeedsEnter, Return, Wakes, TypeOK, rings
  <2>2. Offered' /\ ThreadState'
      BY <1>2, <1>5 DEF NeedsEnter, Return, Offered, ThreadState, rings
  <2> QED
      BY <1>2, <2>1, <2>2
<1>6. CASE PeekThenEnter
  <2>1. TypeOK'
    <3>1. UNCHANGED <<sqe_head, sqe_tail, ktail, sb, rings>>
        BY <1>6 DEF PeekThenEnter
    <3>2. CASE Return
      <4>1. 0 \in 0 .. Entries
          BY RingAssumption
      <4> QED
          BY <3>1, <3>2, <4>1 DEF Return, TypeOK, rings
    <3>3. CASE pc' = "enter" /\ UNCHANGED args
        BY <3>1, <3>3 DEF TypeOK, args, rings
    <3> QED
        BY <1>6, <3>2, <3>3 DEF PeekThenEnter
  <2>2. Offered' /\ ThreadState'
      BY <1>2, <1>6 DEF PeekThenEnter, Return, Offered, ThreadState, args, rings
  <2> QED
      BY <1>2, <2>1, <2>2
<1>7. CASE Enter
  <2>1. TypeOK'
      BY <1>1, <1>7 DEF Enter, TypeOK
  <2>2. Offered' /\ ThreadState'
      BY <1>7 DEF Enter, Offered, ThreadState
  <2> QED
      BY <1>2, <2>1, <2>2
<1> QED
    BY <1>4, <1>5, <1>6, <1>7 DEF CallNext

\* The kernel consuming inside io_uring_enter, and returning, preserves the
\* invariant.
LEMMA KernelIInv ==
  ASSUME IInv, KernelTake \/ EnterReturn
  PROVE  IInv'
<1> USE DEF IInv
<1>1. CASE KernelTake
  <2>1. Consume /\ UNCHANGED <<sqe_head, sqe_tail, ktail, sb>>
      BY <1>1 DEF KernelTake
  <2>2. khead' \in Counter /\ taken' \in {<<s>> : s \in Sqe} /\ RingWindow'
      BY <2>1, ConsumeWindow
  <2>3. left' \in 0 .. Entries
      BY <1>1, RingAssumption DEF KernelTake, TypeOK
  <2>4. TypeOK'
      BY <1>1, <2>2, <2>3 DEF KernelTake, TypeOK
  <2>5. Offered' /\ ThreadState'
      BY <1>1 DEF KernelTake, Offered, ThreadState
  <2> QED
      BY <2>2, <2>4, <2>5
<1>2. CASE EnterReturn
  <2>1. UNCHANGED <<sqe_head, sqe_tail, ktail, khead, sb>>
      BY <1>2 DEF EnterReturn, Return, rings
  <2>2. RingWindow'
      BY <2>1, WindowUnchanged
  <2>3. TypeOK'
      BY <1>2, RingAssumption DEF EnterReturn, Return, TypeOK, args, rings
  <2>4. Offered' /\ ThreadState'
      BY <1>2 DEF EnterReturn, Return, Offered, ThreadState, args, rings
  <2> QED
      BY <2>2, <2>3, <2>4
<1> QED
    BY <1>1, <1>2

\* A buffered store of the tail reaching memory preserves the invariant.
LEMMA DrainIInv ==
  ASSUME IInv, Drain
  PROVE  IInv'
<1> USE DEF IInv
<1>1. /\ khead \in Counter /\ ktail \in Counter
      /\ sb \in Seq(Counter) /\ sb # << >>
      /\ sqe_head \in Counter
    BY DEF TypeOK, Drain
<1>2. /\ ktail' = sb[1] /\ sb' = Tail(sb)
      /\ UNCHANGED <<sqe_head, sqe_tail, khead, sqes, needWakeup, thread, taken>>
    BY <1>1 DEF Drain, rings
<1>3. /\ sb' \in Seq(Counter) /\ Len(sb') = Len(sb) - 1
      /\ Len(sb) \in Nat \ {0}
      /\ \A i \in 1 .. Len(sb') : i + 1 \in 1 .. Len(sb) /\ sb'[i] = sb[i + 1]
      /\ 1 \in 1 .. Len(sb) /\ sb[1] \in Counter
    BY <1>1, <1>2
<1>4. \A i \in 1 .. Len(sb') : Sub(sb[1], khead) < Sub(sb[i + 1], khead)
    BY <1>3 DEF RingWindow, Ahead
<1>5. \A i, j \in 1 .. Len(sb') : i < j => Sub(sb'[i], khead) < Sub(sb'[j], khead)
    BY <1>3 DEF RingWindow, Ahead
<1>6. sqe_head = IF sb' = << >> THEN ktail' ELSE sb'[Len(sb')]
  <2>1. sqe_head = sb[Len(sb)]
      BY <1>1 DEF RingWindow
  <2>2. CASE sb' = << >>
    <3>1. Len(sb) = 1
        BY <1>3, <2>2
    <3> QED
        BY <1>2, <2>1, <2>2, <3>1
  <2>3. CASE sb' # << >>
    <3>1. Len(sb') \in 1 .. Len(sb')
        BY <1>3, <2>3
    <3>2. sb'[Len(sb')] = sb[Len(sb') + 1]
        BY <1>3, <3>1
    <3> QED
        BY <1>3, <2>1, <2>3, <3>2
  <2> QED
      BY <2>2, <2>3
<1>7. Sub(ktail', khead) <= Sub(sqe_head, khead)
  <2>1. sqe_head = sb[Len(sb)] /\ Len(sb) \in 1 .. Len(sb)
      BY <1>1, <1>3 DEF RingWindow
  <2>2. CASE Len(sb) = 1
    <3>1. Sub(sb[1], khead) \in Int
        BY <1>1, <1>3, SubType DEF Counter
    <3> QED
        BY <1>2, <2>1, <2>2, <3>1
  <2>3. CASE 1 < Len(sb)
    <3>1. Sub(sb[1], khead) < Sub(sb[Len(sb)], khead)
        BY <1>3, <2>1, <2>3 DEF RingWindow, Ahead
    <3>2. Sub(sb[1], khead) \in Int /\ Sub(sqe_head, khead) \in Int
        BY <1>1, <1>3, SubType DEF Counter
    <3> QED
        BY <1>2, <2>1, <3>1, <3>2
  <2> QED
      BY <1>3, <2>2, <2>3
<1>8. RingWindow'
    BY <1>2, <1>3, <1>4, <1>5, <1>6, <1>7 DEF RingWindow, Ahead, sq_ready
<1>9. TypeOK'
  <2>1. Len(sb') <= SbDepth
      BY <1>3, RingAssumption DEF TypeOK
  <2> QED
      BY <1>2, <1>3, <2>1 DEF Drain, TypeOK, args
<1>10. Offered' /\ ThreadState'
    BY <1>2 DEF Drain, Offered, ThreadState, args, Ahead
<1> QED
    BY <1>8, <1>9, <1>10

\* The kernel's polling thread preserves the invariant.
LEMMA ThreadIInv ==
  ASSUME IInv, ThreadTake \/ ThreadIdle \/ ThreadRecheck
  PROVE  IInv'
<1> USE DEF IInv
<1>1. CASE ThreadTake
  <2>1. Consume /\ UNCHANGED <<sqe_head, sqe_tail, ktail, sb>>
      BY <1>1 DEF ThreadTake
  <2>2. /\ khead' \in Counter /\ taken' \in {<<s>> : s \in Sqe} /\ RingWindow'
        /\ Ahead(sqe_tail)' = Ahead(sqe_tail) - 1
      BY <2>1, ConsumeWindow
  <2>3. Ahead(sqe_tail) \in Int /\ submitted \in Int
      BY SubType DEF Counter, TypeOK, Ahead
  <2>4. TypeOK'
      BY <1>1, <2>2 DEF ThreadTake, TypeOK, args
  <2>5. Offered' /\ ThreadState'
      BY <1>1, <2>2, <2>3 DEF ThreadTake, Offered, ThreadState, args
  <2> QED
      BY <2>2, <2>4, <2>5
<1>2. CASE ThreadIdle \/ ThreadRecheck
  <2>1. UNCHANGED <<sqe_head, sqe_tail, ktail, khead, sb>>
      BY <1>2 DEF ThreadIdle, ThreadRecheck
  <2>2. RingWindow' /\ Ahead(sqe_tail)' = Ahead(sqe_tail)
      BY <2>1, WindowUnchanged
  <2>3. TypeOK'
      BY <1>2 DEF ThreadIdle, ThreadRecheck, TypeOK, args
  <2>4. Offered' /\ ThreadState'
      BY <1>2, <2>2 DEF ThreadIdle, ThreadRecheck, Offered, ThreadState, args
  <2> QED
      BY <2>2, <2>3, <2>4
<1> QED
    BY <1>1, <1>2

\* Every step preserves the invariant.
LEMMA NextIInv == IInv /\ [Next]_vars => IInv'
<1> SUFFICES ASSUME IInv, [Next]_vars PROVE IInv'
    OBVIOUS
<1>1. CASE GetSqe
    BY <1>1, GetSqeIInv
<1>2. ASSUME NEW r \in Reqs, Prep(r) PROVE IInv'
    BY <1>2, PrepIInv
<1>3. ASSUME NEW c \in Calls, NEW w \in Waits(c), Flush(c, w) PROVE IInv'
    BY <1>3, FlushIInv
<1>4. CASE CallNext
    BY <1>4, CallIInv
<1>5. CASE KernelTake \/ EnterReturn
    BY <1>5, KernelIInv
<1>6. CASE Drain
    BY <1>6, DrainIInv
<1>7. CASE ThreadTake \/ ThreadIdle \/ ThreadRecheck
    BY <1>7, ThreadIInv
<1>8. CASE UNCHANGED vars
    BY <1>8 DEF IInv, TypeOK, RingWindow, Offered, ThreadState, Ahead, sq_ready,
                vars, args, rings
<1> QED
    BY <1>1, <1>2, <1>3, <1>4, <1>5, <1>6, <1>7, <1>8 DEF Next

\* The inductive invariant holds in every reachable state, for every width,
\* ring size and program of submission calls.
THEOREM Invariance == Spec => []IInv
<1> QED
    BY InitIInv, NextIInv, PTL DEF Spec

-----------------------------------------------------------------------------
(* The theorems.                                                           *)

\* Every variable keeps its type: in particular no submission call ever
\* announces more SQEs than the ring holds (flush, rings.cpp:92).
THEOREM TypeCorrect == Spec => []TypeOK
<1>1. IInv => TypeOK
    BY DEF IInv
<1> QED
    BY <1>1, Invariance, PTL

\* The positions of get_sqe, flush and the kernel stay in ring order within
\* one ring length, whatever the width they wrap at.
THEOREM WindowHolds == Spec => []RingWindow
<1>1. IInv => RingWindow
    BY DEF IInv
<1> QED
    BY <1>1, Invariance, PTL

\* Without SQPOLL every io_uring_enter of a submission call is offered all
\* the SQEs not consumed yet, also after a submission that was cut short.
THEOREM OffersAll == Spec => []SubmitOffersAll
<1>1. IInv => SubmitOffersAll
    BY DEF IInv, Offered, SubmitOffersAll
<1> QED
    BY <1>1, Invariance, PTL

-----------------------------------------------------------------------------
(* No lost wakeup.                                                         *)

\* Only a call that has not passed the fence has a store to *ktail in flight.
SleepInv ==
  /\ SqPoll /\ sb # << >> => pc \in {"count", "needs"}
  /\ pc # "peek"
  /\ NoSleepOnWork

\* Every step preserves the strengthening of NoSleepOnWork, for a program that
\* does not call submit_and_wait_timeout.
LEMMA NextSleepInv ==
  ASSUME "submit_and_wait_timeout" \notin Calls,
         IInv, SleepInv, [Next]_vars
  PROVE  SleepInv'
<1> USE DEF SleepInv, NoSleepOnWork
<1>1. /\ khead \in Counter /\ ktail \in Counter
      /\ sqe_head \in Counter /\ sqe_tail \in Counter
      /\ sb \in Seq(Counter) /\ submitted \in Nat /\ needWakeup \in BOOLEAN
    BY RingAssumption DEF IInv, TypeOK
<1>2. thread # "running" => SqPoll /\ needWakeup
    BY DEF IInv, ThreadState
<1>3. sb = << >> => sqe_head = ktail
    BY DEF IInv, RingWindow
<1>4. CASE GetSqe \/ (\E r \in Reqs : Prep(r)) \/ EnterReturn
    BY <1>4 DEF GetSqe, Prep, EnterReturn, Return, args, rings
<1>5. ASSUME NEW c \in Calls, NEW w \in Waits(c), Flush(c, w)
      PROVE  SleepInv'
    BY <1>5 DEF Flush, rings
<1>6. CASE Count
  <2>1. call # "submit_and_wait_timeout"
      BY DEF IInv, TypeOK
  <2> QED
      BY <1>6, <2>1 DEF Count, rings
<1>7. CASE NeedsEnter
  <2>1. UNCHANGED <<sqe_head, khead, sb, thread>>
      BY <1>7 DEF NeedsEnter, Return, rings
  <2>2. pc = "needs" /\ pc' \in {"enter", "idle"}
      BY <1>7 DEF NeedsEnter, Return
  <2>3. Ahead(sqe_tail) <= submitted
      BY <2>2 DEF IInv, Offered
  <2>4. khead # sqe_head => submitted > 0
    <3>1. Sub(sqe_head, khead) \in Nat /\ Sub(sqe_tail, khead) \in Nat
        BY <1>1, SubType DEF Counter
    <3>2. Sub(sqe_head, khead) <= Sub(sqe_tail, khead)
        BY DEF IInv, RingWindow, Ahead
    <3>3. khead # sqe_head => Sub(sqe_head, khead) # 0
        BY <1>1, SubZero
    <3> QED
        BY <1>1, <2>3, <3>1, <3>2, <3>3 DEF Ahead
  <2>5. SqPoll => sb = << >>
    <3>1. SqPoll /\ submitted > 0 => sb = << >>
        BY <1>7 DEF NeedsEnter, Return, Fenced
    <3>2. ASSUME ~(submitted > 0), sb # << >> PROVE FALSE
      <4>1. sqe_head = khead
          BY <2>4, <3>2
      <4>2. 1 \in 1 .. Len(sb) /\ Len(sb) \in 1 .. Len(sb)
          BY <1>1, <3>2
      <4>3. sqe_head = sb[Len(sb)] /\ Sub(ktail, khead) < Sub(sb[Len(sb)], khead)
          BY <3>2, <4>2 DEF IInv, RingWindow, Ahead
      <4>4. Sub(sqe_head, khead) = 0 /\ Sub(ktail, khead) \in Nat
          BY <1>1, <4>1, SubZero, SubType DEF Counter
      <4> QED
          BY <4>3, <4>4
    <3> QED
        BY <3>1, <3>2
  <2>6. thread = "asleep" /\ khead # sqe_head => pc' = "enter" /\ wake'
      BY <1>2, <1>7, <2>4 DEF NeedsEnter, Return, Wakes
  <2> QED
      BY <2>1, <2>2, <2>5, <2>6
<1>8. CASE PeekThenEnter
    BY <1>8 DEF PeekThenEnter, Return
<1>9. CASE Enter
  <2>1. UNCHANGED <<sqe_head, khead, sb>> /\ pc = "enter" /\ pc' = "kernel"
      BY <1>9 DEF Enter
  <2>2. thread' = "asleep" => thread = "asleep" /\ (SqPoll => ~wake)
      BY <1>9 DEF Enter
  <2> QED
      BY <1>2, <2>1, <2>2
<1>10. CASE KernelTake \/ ThreadTake
  <2>1. Consume /\ UNCHANGED <<sqe_head, ktail, sb, thread, pc, wake>>
      BY <1>10 DEF KernelTake, ThreadTake, args
  <2>2. khead # ktail
      BY <2>1 DEF Consume
  <2>3. thread # "asleep"
    <3>1. CASE ThreadTake
        BY <3>1 DEF ThreadTake
    <3>2. CASE KernelTake
      <4>1. pc = "kernel"
          BY <3>2 DEF KernelTake
      <4> QED
          BY <1>2, <1>3, <2>2, <4>1
    <3> QED
        BY <1>10, <3>1, <3>2
  <2> QED
      BY <2>1, <2>3
<1>11. CASE Drain
  <2>1. sb # << >> /\ UNCHANGED <<sqe_head, khead, thread, pc, wake>>
      BY <1>11 DEF Drain, args, rings
  <2> QED
      BY <2>1
<1>12. CASE ThreadIdle
    BY <1>12 DEF ThreadIdle, args
<1>13. CASE ThreadRecheck
  <2>1. /\ thread = "flagged"
        /\ UNCHANGED <<sqe_head, khead, ktail, sb, pc, wake>>
        /\ thread' = "asleep" => khead = ktail
      BY <1>13 DEF ThreadRecheck, args
  <2> QED
      BY <1>2, <1>3, <2>1
<1>14. CASE UNCHANGED vars
    BY <1>14 DEF vars, args, rings
<1> QED
    BY <1>4, <1>5, <1>6, <1>7, <1>8, <1>9, <1>10, <1>11, <1>12, <1>13, <1>14
       DEF Next, CallNext

\* With SQPOLL the polling thread never sleeps on SQEs that a completed
\* submission call published: the fence in __sq_needs_enter and the thread's
\* second look at the tail between them leave no window.  For a program that
\* does not call submit_and_wait_timeout, which never looks at the flag.
THEOREM NoLostWakeup ==
  ASSUME "submit_and_wait_timeout" \notin Calls
  PROVE  Spec => []NoSleepOnWork
<1>1. Init => SleepInv
    BY DEF Init, SleepInv, NoSleepOnWork
<1>2. IInv /\ SleepInv /\ [Next]_vars => SleepInv'
    BY NextSleepInv
<1>3. SleepInv => NoSleepOnWork
    BY DEF SleepInv
<1> QED
    BY <1>1, <1>2, <1>3, Invariance, PTL DEF Spec

-----------------------------------------------------------------------------
(* The queue implements the bounded FIFO: what get_sqe resets and a prep_* *)
(* fills is no SQE still waiting for the kernel.                           *)

-----------------------------------------------------------------------------
(* Slots.                                                                  *)

\* Positions less than a ring length apart have different slots.
LEMMA SlotsDistinct ==
  ASSUME NEW h \in Counter,
         NEW i \in 0 .. Entries - 1, NEW j \in 0 .. Entries - 1,
         Slot(Add(h, i)) = Slot(Add(h, j))
  PROVE  i = j
BY RemaindersDistinct, RingAssumption DEF Slot

\* Stepping back from a position takes one from its distance.
LEMMA SubPred ==
  ASSUME NEW a \in Counter, NEW b \in Counter, a # b, 1 < Modulus
  PROVE  /\ Sub(a, 1) \in Counter
         /\ Sub(Sub(a, 1), b) = Sub(a, b) - 1
BY ModulusAssumption DEF Counter, Sub

-----------------------------------------------------------------------------
(* The SQEs waiting for the kernel.                                        *)

\* Between get_sqe and prep_* the newest slot has been reset and has not
\* been published.
FillInv ==
  pc = "fill" => /\ Ahead(sqe_head) < Ahead(sqe_tail)
                 /\ ~sqes[Slot(Sub(sqe_tail, 1))].ext

\* The i-th SQE after the kernel's head: sq.array names slot i at i.
Position(i) == sqes[Slot(Add(khead, i - 1))]

\* What is prepared lies between what is published and a ring length.
LEMMA PreparedWindow ==
  ASSUME IInv, FillInv
  PROVE  /\ PreparedTail \in Counter
         /\ Ahead(PreparedTail) \in 0 .. Entries
         /\ Ahead(ktail) <= Ahead(PreparedTail)
         /\ pc = "fill" => Ahead(PreparedTail) = Ahead(sqe_tail) - 1
         /\ PreparedTail = Add(khead, Ahead(PreparedTail))
<1>1. /\ khead \in Counter /\ sqe_tail \in Counter
      /\ sqe_head \in Counter /\ ktail \in Counter
    BY DEF IInv, TypeOK
<1>2. /\ Ahead(khead) = 0
      /\ Ahead(ktail) \in Nat /\ Ahead(sqe_head) \in Nat /\ Ahead(sqe_tail) \in Nat
    BY <1>1, SubType, SubZero DEF Ahead, Counter
<1>3. /\ Ahead(ktail) <= Ahead(sqe_head) /\ Ahead(sqe_head) <= Ahead(sqe_tail)
      /\ Ahead(sqe_tail) <= Entries
    BY DEF IInv, RingWindow, sq_ready, Ahead
<1>4. Entries \in Nat \ {0} /\ 1 < Modulus
    BY RingAssumption, ModulusAssumption
<1>5. CASE pc = "fill"
  <2>1. sqe_tail # khead
      BY <1>2, <1>5 DEF FillInv
  <2>2. /\ PreparedTail \in Counter
        /\ Ahead(PreparedTail) = Ahead(sqe_tail) - 1
      BY <1>1, <1>4, <1>5, <2>1, SubPred DEF PreparedTail, Ahead
  <2>3. PreparedTail = Add(khead, Ahead(PreparedTail))
      BY <1>1, <2>2, AddDistance DEF Ahead
  <2>4. Ahead(sqe_head) < Ahead(sqe_tail)
      BY <1>5 DEF FillInv
  <2> QED
      BY <1>2, <1>3, <1>4, <2>2, <2>3, <2>4
<1>6. CASE pc # "fill"
  <2>1. PreparedTail = sqe_tail
      BY <1>6 DEF PreparedTail
  <2>2. PreparedTail = Add(khead, Ahead(PreparedTail))
      BY <1>1, <2>1, AddDistance DEF Ahead
  <2> QED
      BY <1>1, <1>2, <1>3, <1>4, <1>6, <2>1, <2>2
<1> QED
    BY <1>5, <1>6

\* The abstract queue is a sequence of SQEs.
LEMMA WaitingType ==
  ASSUME IInv, FillInv
  PROVE  /\ Waiting \in Seq(Sqe)
         /\ Len(Waiting) = Ahead(PreparedTail)
         /\ \A i \in 1 .. Ahead(PreparedTail) : Waiting[i] = Position(i)
<1> DEFINE n == Ahead(PreparedTail)
<1>1. n \in Nat /\ n <= Entries
    BY PreparedWindow, RingAssumption
<1>2. \A i \in 1 .. n : Slot(Add(khead, i - 1)) \in 0 .. Entries - 1
  <2> SUFFICES ASSUME NEW i \in 1 .. n
               PROVE  Slot(Add(khead, i - 1)) \in 0 .. Entries - 1
      OBVIOUS
  <2>1. Add(khead, i - 1) \in Counter
      BY <1>1, RingAssumption, ModulusAssumption DEF IInv, TypeOK, Counter, Add
  <2> QED
      BY <2>1, SlotType
<1>3. \A i \in 1 .. n : SqArray[Slot(Add(khead, i - 1))] = Slot(Add(khead, i - 1))
    BY <1>2 DEF SqArray
<1>4. Waiting = [i \in 1 .. n |-> Position(i)]
    BY <1>3 DEF Waiting, Position
<1>5. \A i \in 1 .. n : Position(i) \in Sqe
    BY <1>2 DEF IInv, TypeOK, Position
<1>6. [i \in 1 .. n |-> Position(i)] \in [1 .. n -> Sqe]
    BY <1>5
<1>7. /\ [i \in 1 .. n |-> Position(i)] \in Seq(Sqe)
      /\ Len([i \in 1 .. n |-> Position(i)]) = n
  <2> HIDE DEF n
  <2> QED
      BY <1>1, <1>6, FunctionIsSeq
<1> QED
    BY <1>4, <1>7

\* No SQE, no consumed one: the abstract queue is empty at first.
LEMMA InitFifo == Init => Fifo!Init /\ FillInv
<1> SUFFICES ASSUME Init PROVE Fifo!Init /\ FillInv
    OBVIOUS
<1>1. FillInv
    BY DEF Init, FillInv
<1>2. Ahead(PreparedTail) = 0
    BY DEF Init, PreparedTail, Ahead, Sub
<1>3. Waiting = << >>
    BY <1>1, <1>2, InitIInv, WaitingType, EmptySeq
<1> QED
    BY <1>1, <1>3 DEF Fifo!Init, Init

\* A step that leaves the kernel's head, the slots and what is prepared
\* alone is no step of the abstract queue.
LEMMA Stutter ==
  ASSUME UNCHANGED <<khead, sqes, taken>>, PreparedTail' = PreparedTail
  PROVE  UNCHANGED Fifo!vars
BY DEF Fifo!vars, Waiting, Ahead

\* get_sqe resets a slot in which no SQE waits.
LEMMA GetSqeFifo ==
  ASSUME IInv, FillInv, GetSqe
  PROVE  UNCHANGED Fifo!vars /\ FillInv'
<1> DEFINE n == Ahead(sqe_tail)
<1>1. /\ khead \in Counter /\ sqe_tail \in Counter /\ sqe_head \in Counter
      /\ sqes \in [0 .. Entries - 1 -> Sqe]
    BY DEF IInv, TypeOK
<1>2. n \in Nat /\ n < Entries /\ Entries \in Nat \ {0} /\ Entries < Modulus
    BY <1>1, SubType, RingAssumption DEF GetSqe, HasRoom, sq_ready, Ahead, Counter
<1>3. /\ Add(sqe_tail, 1) \in Counter
      /\ Sub(Add(sqe_tail, 1), khead) = n + 1
      /\ Sub(Add(sqe_tail, 1), 1) = sqe_tail
    BY <1>1, <1>2, SubAddFront, ModulusAssumption DEF Ahead, Counter, Add, Sub
<1>4. PreparedTail' = sqe_tail /\ PreparedTail = sqe_tail
    BY <1>3 DEF GetSqe, PreparedTail
<1>5. n = Ahead(PreparedTail) /\ n = Ahead(PreparedTail)'
    BY <1>4 DEF Ahead, GetSqe
<1>6. \A i \in 1 .. n : Slot(Add(khead, i - 1)) # Slot(sqe_tail)
  <2> SUFFICES ASSUME NEW i \in 1 .. n, Slot(Add(khead, i - 1)) = Slot(sqe_tail)
               PROVE  FALSE
      OBVIOUS
  <2>1. sqe_tail = Add(khead, n)
      BY <1>1, AddDistance DEF Ahead
  <2>2. i - 1 \in 0 .. Entries - 1 /\ n \in 0 .. Entries - 1
      BY <1>2
  <2>3. i - 1 = n
      BY <1>1, <2>1, <2>2, SlotsDistinct
  <2> QED
      BY <1>2, <2>3
<1>7. /\ khead' = khead
      /\ sqes' = [sqes EXCEPT ![Slot(sqe_tail)] = InitSqe(@)]
    BY DEF GetSqe
<1>8. Waiting' = Waiting
  <2>1. \A i \in 1 .. n : SqArray[Slot(Add(khead, i - 1))] = Slot(Add(khead, i - 1))
    <3> SUFFICES ASSUME NEW i \in 1 .. n
                 PROVE  SqArray[Slot(Add(khead, i - 1))] = Slot(Add(khead, i - 1))
        OBVIOUS
    <3>1. Add(khead, i - 1) \in Counter
        BY <1>1, <1>2, ModulusAssumption DEF Counter, Add
    <3> QED
        BY <3>1, SlotType DEF SqArray
  <2>2. \A i \in 1 .. n : sqes'[SqArray[Slot(Add(khead', i - 1))]]
                           = sqes[SqArray[Slot(Add(khead, i - 1))]]
    <3> SUFFICES ASSUME NEW i \in 1 .. n
                 PROVE  sqes'[Slot(Add(khead, i - 1))] = sqes[Slot(Add(khead, i - 1))]
        BY <1>7, <2>1
    <3>1. Slot(Add(khead, i - 1)) # Slot(sqe_tail)
        BY <1>6
    <3>2. Add(khead, i - 1) \in Counter
        BY <1>1, <1>2, ModulusAssumption DEF Counter, Add
    <3>3. Slot(Add(khead, i - 1)) \in 0 .. Entries - 1
        BY <3>2, SlotType
    <3> QED
        BY <1>1, <1>7, <3>1, <3>3
  <2> QED
      BY <1>5, <2>2 DEF Waiting
<1>9. FillInv'
  <2>1. Ahead(sqe_head)' <= n
      BY <1>7 DEF IInv, RingWindow, Ahead, GetSqe
  <2>2. Ahead(sqe_tail)' = n + 1
      BY <1>3, <1>7 DEF GetSqe, Ahead
  <2>3. Ahead(sqe_head)' \in Nat
      BY <1>1, <1>7, SubType DEF GetSqe, Ahead, Counter
  <2>4. Sub(sqe_tail, 1)' = sqe_tail
      BY <1>3 DEF GetSqe
  <2>5. Slot(sqe_tail) \in 0 .. Entries - 1
      BY <1>1, SlotType
  <2>6. ~sqes'[Slot(sqe_tail)].ext
      BY <1>1, <1>7, <2>5 DEF InitSqe, Sqe
  <2> QED
      BY <1>2, <2>1, <2>2, <2>3, <2>4, <2>6 DEF FillInv
<1> QED
    BY <1>8, <1>9 DEF Fifo!vars, GetSqe

\* prep_* puts exactly what was meant at the end of the abstract queue.
LEMMA PrepFifo ==
  ASSUME IInv, FillInv, NEW r \in Reqs, Prep(r), IInv'
  PROVE  Fifo!Enqueue(Intended(r)) /\ FillInv'
<1> DEFINE n == Ahead(PreparedTail)
<1>1. /\ khead \in Counter /\ sqe_tail \in Counter
      /\ sqes \in [0 .. Entries - 1 -> Sqe]
    BY DEF IInv, TypeOK
<1>2. /\ pc = "fill" /\ pc' = "idle"
      /\ UNCHANGED <<khead, sqe_tail, taken>>
      /\ sqes' = [sqes EXCEPT ![Slot(Sub(sqe_tail, 1))] =
                    [req |-> r, ext |-> @.ext \/ r \in Extended]]
    BY DEF Prep
<1>3. FillInv'
    BY <1>2 DEF FillInv
<1>4. /\ PreparedTail = Sub(sqe_tail, 1) /\ PreparedTail' = sqe_tail
      /\ PreparedTail \in Counter
      /\ n \in Nat /\ n = Ahead(sqe_tail) - 1
      /\ PreparedTail = Add(khead, n)
    BY <1>2, PreparedWindow, RingAssumption DEF PreparedTail
<1>5. Ahead(PreparedTail)' = n + 1 /\ n + 1 <= Entries /\ Entries \in Nat
  <2>1. Ahead(PreparedTail)' = Ahead(sqe_tail)
      BY <1>2, <1>4 DEF Ahead
  <2>2. Ahead(sqe_tail) \in Nat
      BY <1>1, SubType DEF Ahead, Counter
  <2>3. Ahead(sqe_tail) <= Entries
      BY DEF IInv, RingWindow, sq_ready, Ahead
  <2> HIDE DEF n
  <2> QED
      BY <1>4, <2>1, <2>2, <2>3, RingAssumption
<1>6. /\ Waiting \in Seq(Sqe) /\ Len(Waiting) = n
      /\ \A i \in 1 .. n : Waiting[i] = Position(i)
    BY WaitingType
<1>7. /\ Waiting' \in Seq(Sqe) /\ Len(Waiting') = n + 1
      /\ \A i \in 1 .. n + 1 : Waiting'[i] = Position(i)'
  <2>1. /\ (Waiting \in Seq(Sqe))' /\ (Len(Waiting) = Ahead(PreparedTail))'
        /\ (\A i \in 1 .. Ahead(PreparedTail) : Waiting[i] = Position(i))'
      BY <1>3, WaitingType, PTL
  <2>2. Sqe' = Sqe
      BY DEF Sqe
  <2> QED
      BY <1>5, <2>1, <2>2
<1>8. \A i \in {n + 1} : Position(i)' = Intended(r)
  <2>1. Slot(PreparedTail) \in 0 .. Entries - 1
      BY <1>4, SlotType
  <2>2. sqes[Slot(PreparedTail)].ext = FALSE
    <3>1. sqes[Slot(PreparedTail)].ext \in BOOLEAN
        BY <1>1, <2>1 DEF Sqe
    <3> QED
        BY <1>2, <1>4, <3>1 DEF FillInv
  <2>3. sqes'[Slot(PreparedTail)] = Intended(r)
      BY <1>1, <1>2, <1>4, <2>1, <2>2 DEF Intended
  <2>4. \A i \in {n + 1} : Add(khead', i - 1) = PreparedTail
      BY <1>2, <1>4
  <2> QED
      BY <2>3, <2>4 DEF Position
<1>9. \A i \in 1 .. n : Position(i)' = Position(i)
  <2> SUFFICES ASSUME NEW i \in 1 .. n
               PROVE  Position(i)' = Position(i)
      OBVIOUS
  <2>1. i - 1 \in 0 .. Entries - 1 /\ n \in 0 .. Entries - 1 /\ i - 1 # n
      BY <1>4, <1>5
  <2>2. Slot(Add(khead, i - 1)) # Slot(Sub(sqe_tail, 1))
      BY <1>1, <1>4, <2>1, SlotsDistinct
  <2>3. Slot(Add(khead, i - 1)) \in 0 .. Entries - 1
    <3>1. Add(khead, i - 1) \in Counter
        BY <1>1, <2>1, RingAssumption, ModulusAssumption DEF Counter, Add
    <3> QED
        BY <3>1, SlotType
  <2> QED
      BY <1>1, <1>2, <2>2, <2>3 DEF Position
<1>10. Intended(r) \in Sqe
    BY DEF Intended, Sqe
<1>11. Waiting' = Append(Waiting, Intended(r))
  <2> DEFINE t == Append(Waiting, Intended(r))
             w == Waiting'
  <2>1. /\ t \in Seq(Sqe) /\ Len(t) = n + 1
        /\ \A i \in 1 .. n : t[i] = Waiting[i]
        /\ t[n + 1] = Intended(r)
    <3> HIDE DEF n
    <3> QED
        BY <1>6, <1>10, AppendProperties
  <2>2. \A i \in 1 .. n + 1 : w[i] = t[i]
    <3> SUFFICES ASSUME NEW i \in 1 .. n + 1
                 PROVE  w[i] = t[i]
        OBVIOUS
    <3>1. w[i] = Position(i)'
        BY <1>7
    <3> HIDE DEF n, w, t
    <3>2. CASE i = n + 1
        BY <1>8, <2>1, <3>1, <3>2
    <3>3. CASE i \in 1 .. n
        BY <1>6, <1>9, <2>1, <3>1, <3>3
    <3> QED
        BY <1>4, <3>2, <3>3
  <2>3. w \in Seq(Sqe) /\ Len(w) = n + 1
      BY <1>7
  <2> HIDE DEF t, w, n
  <2>4. w = t
      BY <2>1, <2>2, <2>3, SeqEqual
  <2> QED
      BY <2>4 DEF w, t
<1>12. Len(Waiting) < Entries
  <2> HIDE DEF n
  <2> QED
      BY <1>4, <1>5, <1>6
<1>13. Fifo!Enqueue(Intended(r))
    BY <1>2, <1>11, <1>12 DEF Fifo!Enqueue
<1> QED
    BY <1>3, <1>13

\* Whatever the kernel consumes is the first of the abstract queue.
LEMMA ConsumeFifo ==
  ASSUME IInv, FillInv, Consume, IInv', FillInv',
         UNCHANGED <<sqes, sqe_tail, ktail>>, PreparedTail' = PreparedTail
  PROVE  1 \in 0 .. Len(Waiting) /\ Fifo!Dequeue(1)
<1> DEFINE n == Ahead(PreparedTail)
           w == Waiting'
           t == SubSeq(Waiting, 2, n)
<1>1. /\ khead \in Counter /\ ktail \in Counter /\ PreparedTail \in Counter
      /\ n \in Nat /\ n <= Entries /\ Ahead(ktail) <= n
    BY PreparedWindow, RingAssumption DEF IInv, TypeOK
<1>2. /\ khead' = Add(khead, 1) /\ khead # ktail
      /\ taken' = <<sqes[SqArray[Slot(khead)]]>>
    BY DEF Consume
<1>3. n > 0 /\ PreparedTail # khead
  <2>1. Ahead(ktail) > 0
      BY <1>1, <1>2, SubZero, SubType DEF Ahead, Counter
  <2>2. n > 0
      BY <1>1, <2>1, SubType DEF Ahead, Counter
  <2> QED
      BY <1>1, <2>2, SubZero DEF Ahead
<1>4. Ahead(PreparedTail)' = n - 1
    BY <1>1, <1>2, <1>3, SubAddRear DEF Ahead
<1>5. /\ Waiting \in Seq(Sqe) /\ Len(Waiting) = n
      /\ \A i \in 1 .. n : Waiting[i] = Position(i)
    BY WaitingType
<1>6. /\ w \in Seq(Sqe) /\ Len(w) = n - 1
      /\ \A i \in 1 .. n - 1 : w[i] = Position(i)'
  <2>1. /\ (Waiting \in Seq(Sqe))' /\ (Len(Waiting) = Ahead(PreparedTail))'
        /\ (\A i \in 1 .. Ahead(PreparedTail) : Waiting[i] = Position(i))'
      BY WaitingType, PTL
  <2>2. Sqe' = Sqe
      BY DEF Sqe
  <2> QED
      BY <1>4, <2>1, <2>2
<1>7. \A i \in 1 .. n - 1 : Position(i)' = Waiting[i + 1]
  <2> SUFFICES ASSUME NEW i \in 1 .. n - 1
               PROVE  Position(i)' = Waiting[i + 1]
      OBVIOUS
  <2>1. Add(Add(khead, 1), i - 1) = Add(khead, i)
    <3>1. i - 1 \in Nat /\ (i - 1) + 1 < Modulus
        BY <1>1, RingAssumption, ModulusAssumption
    <3>2. Add(Add(khead, 1), i - 1) = Add(khead, (i - 1) + 1)
        BY <1>1, <3>1, AddNext
    <3> QED
        BY <1>1, <3>2
  <2>2. i + 1 \in 1 .. n /\ (i + 1) - 1 = i
      BY <1>1
  <2> HIDE DEF n
  <2> QED
      BY <1>2, <1>5, <2>1, <2>2 DEF Position
<1>8. /\ t \in Seq(Sqe) /\ Len(t) = n - 1
      /\ \A i \in 1 .. n - 1 : t[i] = Waiting[i + 1]
  <2> HIDE DEF n
  <2>1. \A i \in 2 .. n : Waiting[i] \in Sqe
      BY <1>1, <1>5, ElementOfSeq
  <2>2. /\ t \in Seq(Sqe)
        /\ Len(t) = IF 2 <= n THEN n - 2 + 1 ELSE 0
        /\ \A i \in 1 .. n - 2 + 1 : t[i] = Waiting[2 + i - 1]
      BY <1>1, <2>1, SubSeqProperties
  <2> HIDE DEF t
  <2> QED
      BY <1>1, <1>3, <2>2
<1>9. w = t
  <2> HIDE DEF w, t, n
  <2>1. \A i \in 1 .. Len(w) : w[i] = t[i]
      BY <1>6, <1>7, <1>8
  <2> QED
      BY <1>6, <1>8, <2>1, SeqEqual
<1>10. taken' = SubSeq(Waiting, 1, 1)
  <2>1. Waiting[1] = Position(1)
      BY <1>1, <1>3, <1>5
  <2>2. Add(khead, 0) = khead /\ 1 - 1 = 0
      BY <1>1, ModulusAssumption DEF Add, Counter
  <2>3. SqArray[Slot(khead)] = Slot(khead)
      BY <1>1, SlotType DEF SqArray
  <2>4. taken' = <<Waiting[1]>>
      BY <1>2, <2>1, <2>2, <2>3 DEF Position
  <2>5. Waiting[1] \in Sqe
      BY <1>1, <1>3, <1>5, ElementOfSeq
  <2>6. SubSeq(Waiting, 1, 1) = <<Waiting[1]>>
    <3> DEFINE u == SubSeq(Waiting, 1, 1)
               v == <<Waiting[1]>>
    <3>1. u \in Seq(Sqe) /\ Len(u) = 1 /\ u[1] = Waiting[1]
      <4>1. \A i \in 1 .. 1 : Waiting[i] \in Sqe
          BY <2>5
      <4>2. /\ u \in Seq(Sqe)
            /\ Len(u) = IF 1 <= 1 THEN 1 - 1 + 1 ELSE 0
            /\ \A i \in 1 .. 1 - 1 + 1 : u[i] = Waiting[1 + i - 1]
          BY <4>1, SubSeqProperties
      <4> HIDE DEF u
      <4> QED
          BY <4>2
    <3>2. v \in Seq(Sqe) /\ Len(v) = 1 /\ v[1] = Waiting[1]
        BY <2>5
    <3> HIDE DEF u, v
    <3>3. u = v
        BY <3>1, <3>2, SeqEqual
    <3> QED
        BY <3>3 DEF u, v
  <2> QED
      BY <2>4, <2>6
<1>11. Fifo!Dequeue(1)
    BY <1>5, <1>9, <1>10 DEF Fifo!Dequeue
<1>12. 1 \in 0 .. Len(Waiting)
  <2> HIDE DEF n
  <2> QED
      BY <1>1, <1>3, <1>5
<1> QED
    BY <1>11, <1>12

\* A step of the polling thread while the application fills an SQE leaves
\* that SQE unpublished.
LEMMA ConsumeFill ==
  ASSUME IInv, FillInv, Consume,
         UNCHANGED <<sqe_head, sqe_tail, ktail, sb, sqes, pc>>
  PROVE  FillInv'
<1>1. /\ khead \in Counter /\ ktail \in Counter
      /\ sqe_head \in Counter /\ sqe_tail \in Counter
    BY DEF IInv, TypeOK
<1>2. Ahead(sqe_tail)' = Ahead(sqe_tail) - 1
    BY ConsumeWindow DEF IInv
<1>3. sqe_head # khead
  <2>1. Ahead(ktail) > 0
      BY <1>1, SubZero, SubType DEF Consume, Ahead, Counter
  <2>2. Ahead(ktail) <= Ahead(sqe_head)
      BY DEF IInv, RingWindow
  <2> QED
      BY <1>1, <2>1, <2>2, SubZero, SubType DEF Ahead, Counter
<1>4. Ahead(sqe_head)' = Ahead(sqe_head) - 1
    BY <1>1, <1>3, SubAddRear DEF Consume, Ahead
<1>5. Ahead(sqe_head) \in Nat /\ Ahead(sqe_tail) \in Nat
    BY <1>1, SubType DEF Ahead, Counter
<1> QED
    BY <1>2, <1>4, <1>5 DEF FillInv

\* So it does inside io_uring_enter, where the application is in no call of
\* get_sqe.
LEMMA TakeFifo ==
  ASSUME IInv, FillInv, KernelTake, IInv'
  PROVE  1 \in 0 .. Len(Waiting) /\ Fifo!Dequeue(1) /\ FillInv'
<1>1. /\ Consume /\ UNCHANGED <<sqe_tail, ktail, sqes>>
      /\ pc # "fill" /\ pc' # "fill"
    BY DEF KernelTake
<1>2. PreparedTail' = PreparedTail
    BY <1>1 DEF PreparedTail
<1>3. FillInv'
    BY <1>1 DEF FillInv
<1> QED
    BY <1>1, <1>2, <1>3, ConsumeFifo

\* Publishing, announcing and looking around leave the queue alone.
Quiet == \/ \E c \in Calls : \E w \in Waits(c) : Flush(c, w)
         \/ CallNext \/ EnterReturn \/ Drain
         \/ ThreadIdle \/ ThreadRecheck \/ UNCHANGED vars

LEMMA QuietFifo ==
  ASSUME FillInv, Quiet
  PROVE  UNCHANGED Fifo!vars /\ FillInv'
<1>1. ASSUME NEW c \in Calls, NEW w \in Waits(c), Flush(c, w)
      PROVE  UNCHANGED Fifo!vars /\ FillInv'
  <2>1. /\ UNCHANGED <<khead, sqes, taken, sqe_tail>>
        /\ pc = "idle" /\ pc' = "count"
      BY <1>1 DEF Flush, rings
  <2>2. PreparedTail' = PreparedTail
      BY <2>1 DEF PreparedTail
  <2> QED
      BY <2>1, <2>2, Stutter DEF FillInv
<1>2. CASE CallNext
  <2>1. /\ UNCHANGED <<khead, sqes, taken, sqe_tail>>
        /\ pc # "fill" /\ pc' # "fill"
      BY <1>2 DEF CallNext, Count, NeedsEnter, PeekThenEnter, Enter, Return, rings
  <2>2. PreparedTail' = PreparedTail
      BY <2>1 DEF PreparedTail
  <2> QED
      BY <2>1, <2>2, Stutter DEF FillInv
<1>3. CASE EnterReturn \/ Drain \/ ThreadIdle \/ ThreadRecheck \/ UNCHANGED vars
  <2>1. /\ UNCHANGED <<khead, sqes, taken, sqe_tail, sqe_head>>
        /\ pc' = pc \/ (pc # "fill" /\ pc' # "fill")
      BY <1>3 DEF EnterReturn, Return, Drain, ThreadIdle, ThreadRecheck, vars, rings
  <2>2. PreparedTail' = PreparedTail
      BY <2>1 DEF PreparedTail
  <2>3. FillInv'
      BY <2>1 DEF FillInv, Ahead
  <2> QED
      BY <2>1, <2>2, <2>3, Stutter
<1> QED
    BY <1>1, <1>2, <1>3 DEF Quiet

\* Every step is a step of the abstract queue or none.
LEMMA NextFifo ==
  ASSUME IInv, FillInv, [Next]_vars, IInv'
  PROVE  [Fifo!Next]_Fifo!vars /\ FillInv'
<1>1. CASE GetSqe
    BY <1>1, GetSqeFifo
<1>2. ASSUME NEW r \in Reqs, Prep(r)
      PROVE  Fifo!Next /\ FillInv'
    BY <1>2, PrepFifo DEF Fifo!Next
<1>3. CASE KernelTake
    BY <1>3, TakeFifo DEF Fifo!Next
<1>4. CASE ThreadTake
  <2>1. /\ Consume
        /\ UNCHANGED <<sqe_head, sqe_tail, ktail, sb, sqes, pc>>
      BY <1>4 DEF ThreadTake
  <2>2. PreparedTail' = PreparedTail
      BY <2>1 DEF PreparedTail
  <2>3. FillInv'
      BY <2>1, ConsumeFill
  <2> QED
      BY <2>1, <2>2, <2>3, ConsumeFifo DEF Fifo!Next
<1>5. CASE Quiet
    BY <1>5, QuietFifo
<1> QED
    BY <1>1, <1>2, <1>3, <1>4, <1>5 DEF Next, Quiet

\* The submission queue implements the bounded FIFO: the kernel reads every
\* SQE once, in the order get_sqe gave them out, holding what its prep_* was
\* asked for and nothing else.
THEOREM ImplementsFifo == Spec => FifoSpec
<1>1. Init => Fifo!Init /\ FillInv
    BY InitFifo
<1>2. IInv /\ FillInv /\ [Next]_vars /\ IInv' => [Fifo!Next]_Fifo!vars /\ FillInv'
    BY NextFifo
<1> QED
    BY <1>1, <1>2, Invariance, PTL DEF Spec, FifoSpec, Fifo!Spec
=============================================================================
