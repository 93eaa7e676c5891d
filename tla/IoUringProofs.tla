--------------------------- MODULE IoUringProofs ----------------------------
(***************************************************************************)
(* Both rings in one program, for all widths, sizes and sets of requests.  *)
(* Each ring behaves as it does alone: a step of the whole is a step of    *)
(* either ring, of both, or of none, so what is proved of each ring holds  *)
(* here.  Across the rings, no request is ever in two places, and the      *)
(* whole implements Requests: each request goes round the circle from the  *)
(* program to the kernel and back once at a time.                          *)
(***************************************************************************)
EXTENDS IoUring, FiniteSetTheorems, SequenceTheorems, TLAPS

\* The two rings again, with what is proved of them.
SqP == INSTANCE SubmissionQueueProofs
         WITH Entries <- SqEntries, Extended <- {}, Calls <- SubmitCalls,
              SqPoll <- FALSE, IoPoll <- FALSE,
              ktail <- sq_ktail, khead <- sq_khead, pc <- sq_pc, call <- sq_call

CqP == INSTANCE CompletionQueueProofs
         WITH Cqes <- Reqs, Big <- {}, Timeouts <- {}, Calls <- AllReapCalls,
              ktail <- cq_ktail, khead <- cq_khead, pc <- cq_pc, call <- cq_call

-----------------------------------------------------------------------------
(* Sq and SqP are one module, as are Cq and CqP.                           *)

LEMMA SqSame ==
  /\ Sq!Init <=> SqP!Init
  /\ Sq!GetSqe <=> SqP!GetSqe
  /\ \A r \in Reqs : Sq!Prep(r) <=> SqP!Prep(r)
  /\ \A c, w : Sq!Flush(c, w) <=> SqP!Flush(c, w)
  /\ \A c : Sq!Waits(c) = SqP!Waits(c)
  /\ Sq!Count <=> SqP!Count
  /\ Sq!NeedsEnter <=> SqP!NeedsEnter
  /\ Sq!PeekThenEnter <=> SqP!PeekThenEnter
  /\ Sq!Enter <=> SqP!Enter
  /\ Sq!KernelTake <=> SqP!KernelTake
  /\ Sq!EnterReturn <=> SqP!EnterReturn
  /\ Sq!Drain <=> SqP!Drain
  /\ Sq!Waiting = SqP!Waiting /\ Sq!Waiting' = SqP!Waiting'
<1> USE DEF Sq!rings, Sq!args, Sq!Slot, Sq!Add, Sq!Sub, Sq!Return,
            SqP!rings, SqP!args, SqP!Slot, SqP!Add, SqP!Sub, SqP!Return
<1>1. Sq!Init <=> SqP!Init
  BY DEF Sq!Init, SqP!Init
<1>2. Sq!GetSqe <=> SqP!GetSqe
  BY DEF Sq!GetSqe, SqP!GetSqe, Sq!HasRoom, SqP!HasRoom, Sq!sq_ready, SqP!sq_ready,
         Sq!InitSqe, SqP!InitSqe
<1>3. \A r \in Reqs : Sq!Prep(r) <=> SqP!Prep(r)
  BY DEF Sq!Prep, SqP!Prep
<1>4. \A c, w : Sq!Flush(c, w) <=> SqP!Flush(c, w)
  BY DEF Sq!Flush, SqP!Flush
<1>5. \A c : Sq!Waits(c) = SqP!Waits(c)
  BY DEF Sq!Waits, SqP!Waits
<1>6. Sq!Count <=> SqP!Count
  BY DEF Sq!Count, SqP!Count, Sq!Pending, SqP!Pending
<1>7. Sq!NeedsEnter <=> SqP!NeedsEnter
  BY DEF Sq!NeedsEnter, SqP!NeedsEnter, Sq!Fenced, SqP!Fenced, Sq!Wakes, SqP!Wakes,
         Sq!CqEnter, SqP!CqEnter
<1>8. Sq!PeekThenEnter <=> SqP!PeekThenEnter
  BY DEF Sq!PeekThenEnter, SqP!PeekThenEnter
<1>9. Sq!Enter <=> SqP!Enter
  BY DEF Sq!Enter, SqP!Enter
<1>10. Sq!KernelTake <=> SqP!KernelTake
  BY DEF Sq!KernelTake, SqP!KernelTake, Sq!Consume, SqP!Consume, Sq!SqArray, SqP!SqArray
<1>11. Sq!EnterReturn <=> SqP!EnterReturn
  BY DEF Sq!EnterReturn, SqP!EnterReturn
<1>12. Sq!Drain <=> SqP!Drain
  BY DEF Sq!Drain, SqP!Drain
<1>13. Sq!Waiting = SqP!Waiting /\ Sq!Waiting' = SqP!Waiting'
  BY DEF Sq!Waiting, SqP!Waiting, Sq!SqArray, SqP!SqArray, Sq!Ahead, SqP!Ahead,
         Sq!PreparedTail, SqP!PreparedTail
<1> QED
  BY <1>1, <1>2, <1>3, <1>4, <1>5, <1>6, <1>7, <1>8, <1>9, <1>10, <1>11, <1>12, <1>13

LEMMA CqSame ==
  /\ Cq!Init <=> CqP!Init
  /\ \A c \in Reqs : Cq!Post(c) <=> CqP!Post(c)
  /\ \A n : Cq!StartPeek(n) <=> CqP!StartPeek(n)
  /\ \A n, s : Cq!StartSubmitAndWait(n, s) <=> CqP!StartSubmitAndWait(n, s)
  /\ \A n, s : Cq!StartGetEvents(n, s) <=> CqP!StartGetEvents(n, s)
  /\ Cq!LoadTail <=> CqP!LoadTail
  /\ Cq!Scan <=> CqP!Scan
  /\ Cq!KernelFlush <=> CqP!KernelFlush
  /\ Cq!EnterReturn <=> CqP!EnterReturn
  /\ Cq!EnterFail <=> CqP!EnterFail
  /\ Cq!CqeSeen <=> CqP!CqeSeen
  /\ Cq!Outstanding = CqP!Outstanding /\ Cq!Outstanding' = CqP!Outstanding'
<1> USE DEF Cq!kernel, Cq!locals, Cq!Slot, Cq!Add, Cq!Sub, Cq!Return, Cq!Begin,
            CqP!kernel, CqP!locals, CqP!Slot, CqP!Add, CqP!Sub, CqP!Return, CqP!Begin
<1>1. Cq!Init <=> CqP!Init
  BY DEF Cq!Init, CqP!Init
<1>2. \A c \in Reqs : Cq!Post(c) <=> CqP!Post(c)
  BY DEF Cq!Post, CqP!Post, Cq!Place, CqP!Place, Cq!Fits, CqP!Fits, Cq!Start, CqP!Start,
         Cq!Straddles, CqP!Straddles, Cq!Room, CqP!Room, Cq!Width, CqP!Width,
         Cq!Padded, CqP!Padded, Cq!Stored, CqP!Stored
<1>3. \A n : Cq!StartPeek(n) <=> CqP!StartPeek(n)
  BY DEF Cq!StartPeek, CqP!StartPeek
<1>4. \A n, s : Cq!StartSubmitAndWait(n, s) <=> CqP!StartSubmitAndWait(n, s)
  BY DEF Cq!StartSubmitAndWait, CqP!StartSubmitAndWait
<1>5. \A n, s : Cq!StartGetEvents(n, s) <=> CqP!StartGetEvents(n, s)
  BY DEF Cq!StartGetEvents, CqP!StartGetEvents
<1>6. Cq!LoadTail <=> CqP!LoadTail
  BY DEF Cq!LoadTail, CqP!LoadTail
<1>7. Cq!Scan <=> CqP!Scan
  BY DEF Cq!Scan, CqP!Scan, Cq!Skipped, CqP!Skipped, Cq!CqeAt, CqP!CqeAt,
         Cq!cqe_nr, CqP!cqe_nr
<1>8. Cq!GetEvents <=> CqP!GetEvents
  BY DEF Cq!GetEvents, CqP!GetEvents, Cq!Fits, CqP!Fits, Cq!Start, CqP!Start,
         Cq!Straddles, CqP!Straddles, Cq!Room, CqP!Room, Cq!Width, CqP!Width
<1>9. Cq!KernelFlush <=> CqP!KernelFlush
  BY <1>8 DEF Cq!KernelFlush, CqP!KernelFlush,
         Cq!Place, CqP!Place, Cq!Fits, CqP!Fits, Cq!Start, CqP!Start,
         Cq!Straddles, CqP!Straddles, Cq!Room, CqP!Room, Cq!Width, CqP!Width,
         Cq!Padded, CqP!Padded, Cq!Stored, CqP!Stored
<1>10. Cq!EnterReturn <=> CqP!EnterReturn
  BY <1>8 DEF Cq!EnterReturn, CqP!EnterReturn, Cq!Satisfied, CqP!Satisfied
<1>11. Cq!EnterFail <=> CqP!EnterFail
  BY <1>8 DEF Cq!EnterFail, CqP!EnterFail
<1>12. Cq!CqeSeen <=> CqP!CqeSeen
  BY DEF Cq!CqeSeen, CqP!CqeSeen, Cq!Given, CqP!Given, Cq!cqe_nr, CqP!cqe_nr
<1>13. Cq!Outstanding = CqP!Outstanding /\ Cq!Outstanding' = CqP!Outstanding'
  BY DEF Cq!Outstanding, CqP!Outstanding, Cq!InRing, CqP!InRing, Cq!CqeAt, CqP!CqeAt,
         Cq!Only, CqP!Only
<1> QED
  BY <1>1, <1>2, <1>3, <1>4, <1>5, <1>6, <1>7, <1>9, <1>10, <1>11, <1>12, <1>13

-----------------------------------------------------------------------------
(* Each ring behaves as it does alone.                                     *)

\* A step of the whole is a step of the submission queue or none.
LEMMA SqStep == [Next]_vars => [SqP!Next]_SqP!vars
<1> SUFFICES ASSUME [Next]_vars PROVE [SqP!Next]_SqP!vars
  OBVIOUS
<1> USE SqSame
<1>1. ASSUME UNCHANGED sq PROVE UNCHANGED SqP!vars
  BY <1>1 DEF sq, SqP!vars, SqP!args, SqP!rings
<1>2. CASE GetSqe
  BY <1>2 DEF GetSqe, SqP!Next
<1>3. ASSUME NEW r \in Reqs, Prep(r) PROVE SqP!Next
  BY <1>3 DEF Prep, SqP!Next
<1>4. ASSUME NEW c \in SubmitCalls, NEW w \in Sq!Waits(c), Flush(c, w) PROVE SqP!Next
  BY <1>4 DEF Flush, SqP!Next
<1>5. CASE Count \/ NeedsEnter \/ Enter
  BY <1>5 DEF Count, NeedsEnter, Enter, SqP!Next, SqP!CallNext
<1>6. CASE Scan
  BY <1>1, <1>6 DEF Scan, SqP!Next, SqP!CallNext
<1>7. CASE Take \/ Drain
  BY <1>7 DEF Take, Drain, SqP!Next
<1>8. CASE EnterReturn
  BY <1>1, <1>8 DEF EnterReturn, SqP!Next
<1>9. CASE \/ \E r \in Reqs : Post(r)
           \/ StartPeek(0) \/ StartPeek(1) \/ StartGetEvents \/ CqeSeen
           \/ LoadTail \/ KernelFlush \/ UNCHANGED vars
  BY <1>1, <1>9 DEF Post, StartPeek, StartGetEvents, CqeSeen, LoadTail, KernelFlush,
                    vars
<1> QED
  BY <1>2, <1>3, <1>4, <1>5, <1>6, <1>7, <1>8, <1>9 DEF Next, InCall

\* What CompletionQueue assumes of its constants.
LEMMA CqAssumptions ==
  /\ AllReapCalls \subseteq {"peek", "wait", "submit_and_wait_timeout", "batch",
                             "each", "get_events"}
  /\ "batch" \in AllReapCalls => {} = {}
  /\ {} \cap (Reqs \cup {}) = {} /\ Reqs \cap {} = {}
  /\ {Half, Filler, NoCqe} \cap ((Reqs \cup {}) \cup {}) = {}
BY CallsAssumption, ReqsAssumption DEF AllReapCalls

\* A step of the whole is a step of the completion queue or none, the calls
\* that submit and wait included.
LEMMA CqStep == [Next]_vars => [CqP!Next]_CqP!vars
<1> SUFFICES ASSUME [Next]_vars PROVE [CqP!Next]_CqP!vars
  OBVIOUS
<1> USE CqSame
<1>1. ASSUME UNCHANGED cq PROVE UNCHANGED CqP!vars
  BY <1>1 DEF cq, CqP!vars, CqP!kernel, CqP!locals
<1>2. /\ "submit_and_wait_timeout" \in AllReapCalls /\ "get_events" \in AllReapCalls
      /\ ReapCalls \subseteq AllReapCalls
      /\ 1 \in CqP!WaitNrs /\ 0 \in {0, 1} /\ 1 \in {0, 1}
  BY IoUringAssumption DEF AllReapCalls, CqP!WaitNrs
<1>3. \A w : WaitNr(w) \in {0, 1}
  BY DEF WaitNr
<1>4. ASSUME NEW r \in Reqs, Post(r) PROVE CqP!Next
  BY <1>4 DEF Post, CqP!Next, CqP!Posted
<1>5. CASE "peek" \in ReapCalls /\ StartPeek(0)
  BY <1>2, <1>5 DEF StartPeek, CqP!Next
<1>6. CASE "wait" \in ReapCalls /\ StartPeek(1)
  BY <1>2, <1>6 DEF StartPeek, CqP!Next
<1>7. CASE StartGetEvents
  BY <1>2, <1>7 DEF StartGetEvents, CqP!Next
<1>8. CASE CqeSeen \/ LoadTail \/ KernelFlush \/ Scan
  BY <1>8 DEF CqeSeen, LoadTail, KernelFlush, Scan, CqP!Next, CqP!InCall
<1>9. CASE Count
  <2>1. CASE Cq!StartSubmitAndWait(WaitNr(wait), submitted' > 0)
    <3>1. \E n \in {0} \cup CqP!WaitNrs, s \in BOOLEAN : CqP!StartSubmitAndWait(n, s)
      <4>1. (submitted' > 0) \in BOOLEAN /\ WaitNr(wait) \in {0} \cup CqP!WaitNrs
        BY <1>2, <1>3
      <4>2. CqP!StartSubmitAndWait(WaitNr(wait), submitted' > 0)
        BY <2>1, Zenon
      <4> QED BY <4>1, <4>2, Zenon
    <3> QED BY <1>2, <3>1 DEF CqP!Next
  <2>2. CASE UNCHANGED cq
    BY <1>1, <2>2
  <2> QED BY <1>9, <2>1, <2>2 DEF Count
<1>10. CASE Enter
  <2>1. CASE Cq!StartGetEvents(WaitNr(wait), submitted > 0)
    <3>1. \E n \in {0, 1}, s \in BOOLEAN : CqP!StartGetEvents(n, s)
      <4>1. (submitted > 0) \in BOOLEAN /\ WaitNr(wait) \in {0, 1}
        BY <1>3
      <4>2. CqP!StartGetEvents(WaitNr(wait), submitted > 0)
        BY <2>1, Zenon
      <4> QED BY <4>1, <4>2, Zenon
    <3> QED BY <1>2, <3>1 DEF CqP!Next
  <2>2. CASE UNCHANGED cq
    BY <1>1, <2>2
  <2> QED BY <1>10, <2>1, <2>2 DEF Enter
<1>11. CASE EnterReturn
  BY <1>1, <1>11 DEF EnterReturn, EndEvents, CqP!Next
<1>12. CASE \/ GetSqe \/ \E r \in Reqs : Prep(r)
            \/ \E c \in SubmitCalls : \E w \in Sq!Waits(c) : Flush(c, w)
            \/ NeedsEnter \/ Take \/ Drain \/ UNCHANGED vars
  BY <1>1, <1>12 DEF GetSqe, Prep, Flush, NeedsEnter, Take, Drain, vars
<1> QED
  BY <1>4, <1>5, <1>6, <1>7, <1>8, <1>9, <1>10, <1>11, <1>12 DEF Next, InCall

\* The submission side of the whole is a submission queue: whatever is
\* proved of flush, __sq_needs_enter and io_uring_enter by themselves holds in
\* a program that also reaps, through the same system calls.
THEOREM SqAlone == Spec => SqP!Spec
<1>1. Init => SqP!Init
  BY SqSame DEF Init
<1> QED BY <1>1, SqStep, PTL DEF Spec, SqP!Spec

\* The completion side of the whole is a completion queue: submit_and_wait_timeout
\* is in both rings at once, and does to this one what __get_cqe_ext does.
THEOREM CqAlone == Spec => CqP!Spec
<1>1. Init => CqP!Init
  BY CqSame DEF Init
<1> QED BY <1>1, CqStep, PTL DEF Spec, CqP!Spec

LEMMA FifoSame ==
  /\ CqP!Fifo!Init <=> Cq!Fifo!Init
  /\ [CqP!Fifo!Next]_CqP!Fifo!vars <=> [Cq!Fifo!Next]_Cq!Fifo!vars
<1>1. /\ Cq!Only(reaped, Cq!Posted) = CqP!Only(reaped, CqP!Posted)
      /\ Cq!Only(reaped', Cq!Posted) = CqP!Only(reaped', CqP!Posted)
  BY DEF Cq!Only, CqP!Only, Cq!Posted, CqP!Posted
<1>2. CqP!Fifo!Init <=> Cq!Fifo!Init
  BY <1>1, CqSame DEF CqP!Fifo!Init, Cq!Fifo!Init
<1>3. CqP!Fifo!Next <=> Cq!Fifo!Next
  <2>1. \A v : CqP!Fifo!Enqueue(v) <=> Cq!Fifo!Enqueue(v)
    BY <1>1, CqSame DEF CqP!Fifo!Enqueue, Cq!Fifo!Enqueue
  <2>2. \A k : CqP!Fifo!Dequeue(k) <=> Cq!Fifo!Dequeue(k)
    BY <1>1, CqSame DEF CqP!Fifo!Dequeue, Cq!Fifo!Dequeue
  <2> QED BY <2>1, <2>2, CqSame DEF CqP!Fifo!Next, Cq!Fifo!Next
<1>4. UNCHANGED CqP!Fifo!vars <=> UNCHANGED Cq!Fifo!vars
  BY <1>1, CqSame DEF CqP!Fifo!vars, Cq!Fifo!vars
<1> QED BY <1>2, <1>3, <1>4

\* The program is given completions in the order the kernel posted them, each
\* once and none lost, whatever submits in between and whichever call of
\* queue.cpp returns early.
THEOREM CompletionsInOrderHolds == Spec => CompletionsInOrder
<1>1. CqP!NoTimeoutsInBatches
  BY DEF CqP!NoTimeoutsInBatches
<1>2. CqP!Spec => CqP!FifoSpec
  BY <1>1, CqP!ImplementsFifo, IoUringAssumption, ReqsAssumption, CqAssumptions
<1>3. CqP!FifoSpec => Cq!FifoSpec
  BY FifoSame, PTL DEF CqP!FifoSpec, Cq!FifoSpec, CqP!Fifo!Spec, Cq!Fifo!Spec
<1> QED BY <1>2, <1>3, CqAlone DEF CompletionsInOrder

\* The rings keep in the whole what they keep alone: the positions of the
\* submission queue stay in ring order and every system call is offered all
\* that is prepared; no loop over completions overruns its tail, and no CQE the
\* program still holds is overwritten, although calls that submit now post
\* from the backlog in between.
THEOREM RingsSafe ==
  Spec => [](/\ SqP!TypeOK /\ SqP!RingWindow /\ SqP!SubmitOffersAll
             /\ CqP!TypeOK /\ CqP!LoopsStop /\ CqP!HeldIntact)
<1>1. /\ SqP!Spec => []SqP!TypeOK
      /\ SqP!Spec => []SqP!RingWindow
      /\ SqP!Spec => []SqP!SubmitOffersAll
  BY SqP!TypeCorrect, SqP!WindowHolds, SqP!OffersAll, IoUringAssumption,
     CallsAssumption, ReqsAssumption
<1>2. /\ CqP!Spec => []CqP!TypeOK
      /\ CqP!Spec => []CqP!LoopsStop
      /\ CqP!Spec => []CqP!HeldIntact
  BY CqP!TypeCorrect, CqP!LoopsStopHolds, CqP!HeldIntactHolds, IoUringAssumption,
     CqAssumptions, ReqsAssumption
<1> QED BY <1>1, <1>2, SqAlone, CqAlone, PTL

\* A wait for a completion returns with one in the whole as well, whichever
\* submissions and waits with timeout are mixed with it.
THEOREM WaitsDeliver == Spec => CqP!WaitDelivers
<1>1. CqP!Spec => CqP!WaitDelivers
  BY CqP!WaitDeliversHolds, IoUringAssumption, CqAssumptions, ReqsAssumption
<1> QED BY <1>1, CqAlone

-----------------------------------------------------------------------------
(* Each request is in one place.                                           *)

\* Of the requests prepared, done and taken, none occurs twice.
Distinct(queued, done, run) ==
  /\ queued \in Seq(Reqs) /\ done \in Seq(Reqs) /\ run \in SUBSET Reqs
  /\ IsInjective(queued) /\ IsInjective(done)
  /\ ToSet(queued) \cap ToSet(done) = {}
  /\ (ToSet(queued) \cup ToSet(done)) \cap run = {}

\* A sequence without repetition holds an element once or not at all.
LEMMA CountOnce ==
  ASSUME NEW q \in Seq(Reqs), IsInjective(q), NEW r
  PROVE  Cardinality({i \in DOMAIN q : q[i] = r}) = IF r \in ToSet(q) THEN 1 ELSE 0
<1>1. CASE r \in ToSet(q)
  <2>1. PICK i \in DOMAIN q : q[i] = r
    BY <1>1 DEF ToSet
  <2>2. {j \in DOMAIN q : q[j] = r} = {i}
    BY <2>1 DEF IsInjective
  <2> QED BY <1>1, <2>2, FS_Singleton
<1>2. CASE r \notin ToSet(q)
  <2>1. {i \in DOMAIN q : q[i] = r} = {}
    BY <1>2 DEF ToSet
  <2> QED BY <1>2, <2>1, FS_EmptySet
<1> QED BY <1>1, <1>2

\* Then the phase of a request is the place where it is.
Place(r, prepared, done, run) ==
  IF r \in run THEN "running" ELSE IF r \in prepared THEN "prepared"
  ELSE IF r \in done THEN "done" ELSE "idle"

LEMMA PhaseIsPlace ==
  ASSUME NEW q, NEW d, NEW run, Distinct(q, d, run), NEW r \in Reqs
  PROVE  PhaseOf(r, q, d, r \in run) = Place(r, ToSet(q), ToSet(d), run)
<1> DEFINE nq == Cardinality({i \in DOMAIN q : q[i] = r})
           nd == Cardinality({i \in DOMAIN d : d[i] = r})
           times == nq + nd + (IF r \in run THEN 1 ELSE 0)
<1>1. /\ nq = IF r \in ToSet(q) THEN 1 ELSE 0
      /\ nd = IF r \in ToSet(d) THEN 1 ELSE 0
  BY CountOnce DEF Distinct
<1>2. PhaseOf(r, q, d, r \in run)
        = IF times = 0 THEN "idle"
          ELSE IF times = 1
          THEN IF r \in run THEN "running"
               ELSE IF r \in ToSet(q) THEN "prepared" ELSE "done"
          ELSE "twice"
  BY DEF PhaseOf
<1> HIDE DEF nq, nd
<1>3. /\ r \in ToSet(q) => r \notin ToSet(d) /\ r \notin run
      /\ r \in ToSet(d) => r \notin run
  BY DEF Distinct
<1> QED BY <1>1, <1>2, <1>3 DEF Place

\* One that grows by a new element has that one besides.
LEMMA Grow ==
  ASSUME NEW q \in Seq(Reqs), IsInjective(q), NEW r \in Reqs, r \notin ToSet(q)
  PROVE  /\ Append(q, r) \in Seq(Reqs) /\ IsInjective(Append(q, r))
         /\ ToSet(Append(q, r)) = ToSet(q) \cup {r}
<1> DEFINE a == Append(q, r)
<1>1. /\ a \in Seq(Reqs) /\ Len(a) = Len(q) + 1 /\ a[Len(q) + 1] = r
      /\ \A i \in 1 .. Len(q) : a[i] = q[i]
  BY AppendProperties
<1>2. /\ Len(q) \in Nat /\ DOMAIN q = 1 .. Len(q) /\ DOMAIN a = 1 .. Len(q) + 1
  BY <1>1, LenProperties
<1> HIDE DEF a
<1>3. \A i \in 1 .. Len(q) : q[i] # r
  BY <1>2 DEF ToSet
<1>4. \A i \in DOMAIN a : i = Len(q) + 1 \/ i \in 1 .. Len(q)
  BY <1>2
<1>5. IsInjective(a)
  <2>1. ASSUME NEW i \in DOMAIN a, NEW j \in DOMAIN a, a[i] = a[j] PROVE i = j
    <3>1. CASE i = Len(q) + 1
      BY <1>1, <1>3, <1>4, <2>1, <3>1
    <3>2. CASE j = Len(q) + 1
      BY <1>1, <1>3, <1>4, <2>1, <3>2
    <3>3. CASE i \in 1 .. Len(q) /\ j \in 1 .. Len(q)
      BY <1>1, <1>2, <2>1, <3>3 DEF IsInjective
    <3> QED BY <1>4, <3>1, <3>2, <3>3
  <2> QED BY <2>1 DEF IsInjective
<1>6. ToSet(a) = ToSet(q) \cup {r}
  <2>1. ASSUME NEW x \in ToSet(a) PROVE x \in ToSet(q) \cup {r}
    BY <1>1, <1>2, <1>4 DEF ToSet
  <2>2. r \in ToSet(a)
    <3>1. Len(q) + 1 \in DOMAIN a
      BY <1>2
    <3> QED BY <1>1, <3>1 DEF ToSet
  <2>3. ASSUME NEW x \in ToSet(q) PROVE x \in ToSet(a)
    <3>1. PICK i \in 1 .. Len(q) : q[i] = x
      BY <1>2 DEF ToSet
    <3>2. i \in DOMAIN a /\ a[i] = x
      BY <1>1, <1>2, <3>1
    <3> QED BY <3>2 DEF ToSet
  <2> QED BY <2>1, <2>2, <2>3
<1> QED BY <1>1, <1>5, <1>6 DEF a

\* One that loses its front loses just the elements of that.
LEMMA Shorten ==
  ASSUME NEW q \in Seq(Reqs), IsInjective(q), NEW k \in 0 .. Len(q)
  PROVE  LET rest  == SubSeq(q, k + 1, Len(q))
             front == SubSeq(q, 1, k)
         IN  /\ rest \in Seq(Reqs) /\ IsInjective(rest)
             /\ ToSet(front) \subseteq ToSet(q)
             /\ ToSet(rest) = ToSet(q) \ ToSet(front)
<1> DEFINE rest  == SubSeq(q, k + 1, Len(q))
           front == SubSeq(q, 1, k)
           n == Len(q)
<1>1. n \in Nat /\ k \in Nat /\ k <= n /\ DOMAIN q = 1 .. n
  BY LenProperties
<1>2. \A i \in 1 .. n : q[i] \in Reqs
  BY ElementOfSeq
<1>3. /\ rest \in Seq(Reqs) /\ Len(rest) = n - k
      /\ \A i \in 1 .. n - k : rest[i] = q[k + i]
  <2>1. \A i \in k + 1 .. n : q[i] \in Reqs
    BY <1>1, <1>2
  <2>2. /\ rest \in Seq(Reqs)
        /\ Len(rest) = IF k + 1 <= n THEN n - (k + 1) + 1 ELSE 0
        /\ \A i \in 1 .. n - (k + 1) + 1 : rest[i] = q[(k + 1) + i - 1]
    BY <1>1, <2>1, SubSeqProperties
  <2> HIDE DEF rest, n
  <2>3. n - (k + 1) + 1 = n - k /\ \A i \in 1 .. n - k : (k + 1) + i - 1 = k + i
    BY <1>1
  <2> QED BY <1>1, <2>2, <2>3
<1>4. /\ front \in Seq(Reqs) /\ Len(front) = k
      /\ \A i \in 1 .. k : front[i] = q[i]
  <2>1. \A i \in 1 .. k : q[i] \in Reqs
    BY <1>1, <1>2
  <2>2. /\ front \in Seq(Reqs)
        /\ Len(front) = IF 1 <= k THEN k - 1 + 1 ELSE 0
        /\ \A i \in 1 .. k - 1 + 1 : front[i] = q[1 + i - 1]
    BY <1>1, <2>1, SubSeqProperties
  <2> HIDE DEF front, n
  <2>3. k - 1 + 1 = k /\ \A i \in 1 .. k : 1 + i - 1 = i
    BY <1>1
  <2> QED BY <1>1, <2>2, <2>3
<1>5. DOMAIN rest = 1 .. n - k /\ DOMAIN front = 1 .. k
  BY <1>3, <1>4, LenProperties
<1> HIDE DEF rest, front, n
<1>6. IsInjective(rest)
  <2>1. ASSUME NEW i \in DOMAIN rest, NEW j \in DOMAIN rest, rest[i] = rest[j]
        PROVE  i = j
    <3>1. k + i \in DOMAIN q /\ k + j \in DOMAIN q /\ i \in Int /\ j \in Int
      BY <1>1, <1>5
    <3>2. q[k + i] = q[k + j]
      BY <1>3, <1>5, <2>1
    <3>3. k + i = k + j
      BY <3>1, <3>2 DEF IsInjective
    <3> QED BY <1>1, <3>1, <3>3
  <2> QED BY <2>1 DEF IsInjective
<1>7. ASSUME NEW x \in ToSet(front) PROVE x \in ToSet(q) /\ x \notin ToSet(rest)
  <2>1. PICK i \in 1 .. k : q[i] = x
    BY <1>4, <1>5 DEF ToSet
  <2>2. i \in DOMAIN q /\ i \in Int
    BY <1>1
  <2>3. ASSUME NEW j \in DOMAIN rest, rest[j] = x PROVE FALSE
    <3>1. j \in Int /\ 1 <= j /\ k + j \in DOMAIN q /\ q[k + j] = x
      BY <1>1, <1>3, <1>5, <2>3
    <3>2. i = k + j
      BY <2>1, <2>2, <3>1 DEF IsInjective
    <3> QED BY <1>1, <2>1, <3>1, <3>2
  <2> QED BY <2>1, <2>2, <2>3 DEF ToSet
<1>8. ASSUME NEW x \in ToSet(rest) PROVE x \in ToSet(q)
  <2>1. PICK j \in 1 .. n - k : q[k + j] = x
    BY <1>3, <1>5 DEF ToSet
  <2>2. k + j \in DOMAIN q
    BY <1>1
  <2> QED BY <2>1, <2>2 DEF ToSet
<1>9. ASSUME NEW x \in ToSet(q), x \notin ToSet(front) PROVE x \in ToSet(rest)
  <2>1. PICK i \in 1 .. n : q[i] = x
    BY <1>1 DEF ToSet
  <2>2. CASE i <= k
    <3>1. i \in DOMAIN front /\ front[i] = x
      BY <1>1, <1>4, <1>5, <2>1, <2>2
    <3> QED BY <1>9, <3>1 DEF ToSet
  <2>3. CASE i > k
    <3>1. i - k \in DOMAIN rest /\ k + (i - k) = i
      BY <1>1, <1>5, <2>3
    <3>2. rest[i - k] = x
      BY <1>3, <1>5, <2>1, <3>1
    <3> QED BY <3>1, <3>2 DEF ToSet
  <2> QED BY <1>1, <2>2, <2>3
<1> QED BY <1>3, <1>6, <1>7, <1>8, <1>9 DEF rest, front, n

-----------------------------------------------------------------------------
(* What a step does to the places.                                         *)

\* The requests that a sequence of SQEs names.
Names(w) == [i \in DOMAIN w |-> w[i].req]

LEMMA NamesType ==
  ASSUME NEW w \in Seq(SqP!Sqe)
  PROVE  /\ Names(w) \in Seq(Reqs \cup {NoReq}) /\ Len(Names(w)) = Len(w)
         /\ \A i \in 1 .. Len(w) : Names(w)[i] = w[i].req
<1>1. DOMAIN w = 1 .. Len(w) /\ Len(w) \in Nat
  BY LenProperties
<1>2. \A i \in 1 .. Len(w) : w[i] \in SqP!Sqe
  BY ElementOfSeq
<1>3. Names(w) \in [1 .. Len(w) -> Reqs \cup {NoReq}]
  BY <1>1, <1>2 DEF Names, SqP!Sqe
<1>4. Names(w) \in Seq(Reqs \cup {NoReq}) /\ Len(Names(w)) = Len(w)
  BY <1>1, <1>3, SqP!FunctionIsSeq, IoUringAssumption
<1> QED BY <1>1, <1>4 DEF Names

\* They grow with the SQEs, and shrink with them.
LEMMA NamesAppend ==
  ASSUME NEW w \in Seq(SqP!Sqe), NEW x \in SqP!Sqe
  PROVE  Names(Append(w, x)) = Append(Names(w), x.req)
<1> DEFINE v == Append(w, x)
           a == Names(v)
           b == Append(Names(w), x.req)
           n == Len(w)
<1>1. v \in Seq(SqP!Sqe) /\ Len(v) = n + 1 /\ v[n + 1] = x /\ n \in Nat
      /\ \A i \in 1 .. n : v[i] = w[i]
  BY AppendProperties, LenProperties
<1>2. a \in Seq(Reqs \cup {NoReq}) /\ Len(a) = n + 1
      /\ \A i \in 1 .. n + 1 : a[i] = v[i].req
  BY <1>1, NamesType
<1>3. Names(w) \in Seq(Reqs \cup {NoReq}) /\ Len(Names(w)) = n
      /\ \A i \in 1 .. n : Names(w)[i] = w[i].req
  BY NamesType
<1>4. x.req \in Reqs \cup {NoReq}
  BY DEF SqP!Sqe
<1>5. b \in Seq(Reqs \cup {NoReq}) /\ Len(b) = n + 1 /\ b[n + 1] = x.req
      /\ \A i \in 1 .. n : b[i] = Names(w)[i]
  BY <1>3, <1>4, AppendProperties
<1> HIDE DEF v, a, b, n
<1>6. \A i \in 1 .. n + 1 : i = n + 1 \/ i \in 1 .. n
  BY <1>1
<1>7. \A i \in 1 .. n + 1 : a[i] = b[i]
  BY <1>1, <1>2, <1>3, <1>5, <1>6
<1>8. a = b
  BY <1>2, <1>5, <1>7, SeqEqual
<1> QED BY <1>8 DEF a, b, v

LEMMA NamesRest ==
  ASSUME NEW w \in Seq(SqP!Sqe), 1 <= Len(w)
  PROVE  Names(SubSeq(w, 2, Len(w))) = SubSeq(Names(w), 2, Len(w))
<1> DEFINE v == SubSeq(w, 2, Len(w))
           a == Names(v)
           m == Names(w)
           b == SubSeq(m, 2, Len(w))
           n == Len(w)
<1>1. n \in Nat /\ \A i \in 2 .. n : w[i] \in SqP!Sqe
  BY LenProperties, ElementOfSeq
<1>2. v \in Seq(SqP!Sqe) /\ Len(v) = (IF 2 <= n THEN n - 2 + 1 ELSE 0)
      /\ \A i \in 1 .. n - 2 + 1 : v[i] = w[2 + i - 1]
  BY <1>1, SubSeqProperties
<1>3. m \in Seq(Reqs \cup {NoReq}) /\ Len(m) = n
      /\ \A i \in 1 .. n : m[i] = w[i].req
  BY NamesType
<1>4. \A i \in 2 .. n : m[i] \in Reqs \cup {NoReq}
  BY <1>3, ElementOfSeq
<1> HIDE DEF m
<1>5. b \in Seq(Reqs \cup {NoReq}) /\ Len(b) = (IF 2 <= n THEN n - 2 + 1 ELSE 0)
      /\ \A i \in 1 .. n - 2 + 1 : b[i] = m[2 + i - 1]
  BY <1>1, <1>3, <1>4, SubSeqProperties
<1> HIDE DEF v
<1>6. a \in Seq(Reqs \cup {NoReq}) /\ Len(a) = Len(v)
      /\ \A i \in 1 .. Len(v) : a[i] = v[i].req
  BY <1>2, NamesType
<1> HIDE DEF a, b, n
<1>7. Len(v) = n - 1 /\ Len(b) = n - 1 /\ 1 <= n
  <2>1. 1 <= n
    BY DEF n
  <2> QED BY <1>1, <1>2, <1>5, <2>1
<1>8. \A i \in 1 .. n - 1 : a[i] = b[i]
  <2>1. ASSUME NEW i \in 1 .. n - 1 PROVE a[i] = b[i]
    <3>1. i \in 1 .. n - 2 + 1 /\ 2 + i - 1 = i + 1 /\ i + 1 \in 1 .. n
      BY <1>1
    <3>2. a[i] = w[i + 1].req
      BY <1>2, <1>6, <1>7, <3>1
    <3>3. b[i] = w[i + 1].req
      BY <1>3, <1>5, <3>1
    <3> QED BY <3>2, <3>3
  <2> QED BY <2>1
<1>9. a = b
  BY <1>5, <1>6, <1>7, <1>8, SeqEqual
<1> QED BY <1>9 DEF a, b, m, n, v

\* The places of IoUring as the proofs about the rings know them.
LEMMA QueuedIs ==
  Queued = Names(SqP!Waiting) /\ Queued' = Names(SqP!Waiting')
BY SqSame DEF Queued, Names

LEMMA DoneIs ==
  Done = CqP!Outstanding /\ Done' = CqP!Outstanding'
BY CqSame DEF Done

\* What is invariant of each ring by itself.
RingsInv == SqP!IInv /\ SqP!FillInv /\ CqP!FInv

\* A request that is prepared is queued behind the others.
LEMMA PrepMoves ==
  ASSUME RingsInv, RingsInv', NEW r \in Reqs, Prep(r)
  PROVE  Queued' = Append(Queued, r) /\ UNCHANGED <<Done, running>>
<1>1. SqP!Prep(r) /\ UNCHANGED <<cq, running>>
  BY SqSame DEF Prep
<1>2. SqP!Waiting' = Append(SqP!Waiting, SqP!Intended(r))
  <2>1. SqP!Fifo!Enqueue(SqP!Intended(r))
    BY <1>1, SqP!PrepFifo, IoUringAssumption, CallsAssumption, ReqsAssumption
       DEF RingsInv
  <2> QED BY <2>1 DEF SqP!Fifo!Enqueue
<1>3. SqP!Waiting \in Seq(SqP!Sqe)
  BY SqP!WaitingType, IoUringAssumption, CallsAssumption, ReqsAssumption DEF RingsInv
<1>4. SqP!Intended(r) \in SqP!Sqe /\ SqP!Intended(r).req = r
  BY DEF SqP!Intended, SqP!Sqe
<1>5. Queued' = Append(Queued, r)
  BY <1>2, <1>3, <1>4, NamesAppend, QueuedIs
<1>6. Done' = Done
  BY <1>1, CqP!OutstandingIs, DoneIs, IoUringAssumption, CqAssumptions, ReqsAssumption
     DEF cq
<1> QED BY <1>1, <1>5, <1>6
\* The kernel takes the first of them and runs it.
LEMMA TakeMoves ==
  ASSUME RingsInv, RingsInv', Take, Queued \in Seq(Reqs)
  PROVE  /\ 1 <= Len(Queued) /\ Queued' = SubSeq(Queued, 2, Len(Queued))
         /\ running' = running \cup {Queued[1]} /\ UNCHANGED Done
<1>1. SqP!KernelTake /\ running' = running \cup {taken'[1].req} /\ UNCHANGED cq
  BY SqSame DEF Take
<1> DEFINE w == SqP!Waiting
<1>2. 1 \in 0 .. Len(w) /\ taken' = SubSeq(w, 1, 1)
      /\ SqP!Waiting' = SubSeq(w, 2, Len(w))
  <2>1. 1 \in 0 .. Len(w) /\ SqP!Fifo!Dequeue(1)
    BY <1>1, SqP!TakeFifo, IoUringAssumption, CallsAssumption, ReqsAssumption
       DEF RingsInv
  <2>2. 1 + 1 = 2
    OBVIOUS
  <2> QED BY <2>1, <2>2 DEF SqP!Fifo!Dequeue
<1>3. w \in Seq(SqP!Sqe)
  BY SqP!WaitingType, IoUringAssumption, CallsAssumption, ReqsAssumption DEF RingsInv
<1>4. Queued = Names(w) /\ Queued' = Names(SqP!Waiting')
  BY QueuedIs
<1> HIDE DEF w
<1>5. Len(w) \in Nat /\ 1 <= Len(w)
  BY <1>2, <1>3, LenProperties
<1>6. Len(Queued) = Len(w) /\ Queued[1] = w[1].req
  BY <1>3, <1>4, <1>5, NamesType
<1>7. Queued' = SubSeq(Queued, 2, Len(Queued))
  BY <1>2, <1>3, <1>4, <1>5, <1>6, NamesRest
<1>8. taken'[1] = w[1]
  <2>1. \A i \in 1 .. 1 : w[i] \in SqP!Sqe
    BY <1>3, <1>5, ElementOfSeq
  <2>2. \A i \in 1 .. 1 - 1 + 1 : SubSeq(w, 1, 1)[i] = w[1 + i - 1]
    BY <2>1, SubSeqProperties
  <2>3. SubSeq(w, 1, 1)[1] = w[1]
    BY <2>2
  <2> QED BY <1>2, <2>3
<1>9. Done' = Done
  BY <1>1, CqP!OutstandingIs, DoneIs, IoUringAssumption, CqAssumptions, ReqsAssumption
     DEF cq
<1> QED BY <1>1, <1>5, <1>6, <1>7, <1>8, <1>9

\* A request completes: its CQE is behind those not consumed.
LEMMA PostMoves ==
  ASSUME RingsInv, RingsInv', NEW r \in Reqs, Post(r)
  PROVE  /\ r \in running /\ running' = running \ {r}
         /\ Done' = Append(Done, r) /\ UNCHANGED Queued
<1>1. CqP!Post(r) /\ r \in running /\ running' = running \ {r} /\ UNCHANGED sq
  BY CqSame DEF Post
<1>2. r \in CqP!Posted /\ r \in CqP!Value
  BY DEF CqP!Posted, CqP!Value
<1>3. CqP!Outstanding' = Append(CqP!Outstanding, r)
  <2>1. CqP!IInv /\ CqP!IInv'
    BY DEF RingsInv, CqP!FInv
  <2> QED BY <1>1, <1>2, <2>1, CqP!PostQueue, IoUringAssumption, CqAssumptions,
             ReqsAssumption
<1>4. Queued' = Queued
  <2>1. UNCHANGED SqP!vars
    BY <1>1 DEF sq, SqP!vars, SqP!args, SqP!rings
  <2>2. UNCHANGED SqP!Fifo!vars
    BY <2>1, SqP!QuietFifo, IoUringAssumption, CallsAssumption, ReqsAssumption
       DEF SqP!Quiet, RingsInv
  <2> QED BY <2>2, QueuedIs DEF SqP!Fifo!vars
<1> QED BY <1>1, <1>3, <1>4, DoneIs

\* cqe_seen consumes from the front.
LEMMA SeenMoves ==
  ASSUME RingsInv, CqeSeen
  PROVE  /\ \E k \in 0 .. Len(Done) : Done' = SubSeq(Done, k + 1, Len(Done))
         /\ UNCHANGED <<Queued, running>>
<1>1. CqP!CqeSeen /\ UNCHANGED <<sq, running>>
  BY CqSame DEF CqeSeen
<1>2. CqP!Leaves
  BY <1>1, CqP!SeenRefines, IoUringAssumption, CqAssumptions, ReqsAssumption
     DEF RingsInv
<1>3. \E k \in 0 .. Len(Done) : Done' = SubSeq(Done, k + 1, Len(Done))
  BY <1>2, DoneIs DEF CqP!Leaves, CqP!Fifo!Dequeue
<1>4. Queued' = Queued
  <2>1. UNCHANGED SqP!vars
    BY <1>1 DEF sq, SqP!vars, SqP!args, SqP!rings
  <2>2. UNCHANGED SqP!Fifo!vars
    BY <2>1, SqP!QuietFifo, IoUringAssumption, CallsAssumption, ReqsAssumption
       DEF SqP!Quiet, RingsInv
  <2> QED BY <2>2, QueuedIs DEF SqP!Fifo!vars
<1> QED BY <1>1, <1>3, <1>4

\* Nothing else moves a request.
LEMMA OtherMoves ==
  ASSUME RingsInv, RingsInv', [Next]_vars
  PROVE  \/ UNCHANGED <<Queued, Done, running>>
         \/ \E r \in Reqs : Prep(r) \/ Post(r)
         \/ Take \/ CqeSeen
<1>1. ASSUME SqP!Quiet \/ SqP!GetSqe PROVE Queued' = Queued
  <2>1. UNCHANGED SqP!Fifo!vars
    BY <1>1, SqP!QuietFifo, SqP!GetSqeFifo,
       IoUringAssumption, CallsAssumption, ReqsAssumption DEF RingsInv
  <2> QED BY <2>1, QueuedIs DEF SqP!Fifo!vars
<1>2. ASSUME UNCHANGED sq PROVE Queued' = Queued
  <2>1. UNCHANGED SqP!vars
    BY <1>2 DEF sq, SqP!vars, SqP!args, SqP!rings
  <2> QED BY <1>1, <2>1 DEF SqP!Quiet
<1>3. ASSUME UNCHANGED <<cq_khead, cq_ktail, cqes, backlog>> PROVE Done' = Done
  BY <1>3, CqP!OutstandingIs, DoneIs, IoUringAssumption, CqAssumptions, ReqsAssumption
<1>4. CASE GetSqe
  BY <1>1, <1>3, <1>4, SqSame DEF GetSqe, cq
<1>5. ASSUME NEW c \in SubmitCalls, NEW w \in Sq!Waits(c), Flush(c, w)
      PROVE  UNCHANGED <<Queued, Done, running>>
  BY <1>1, <1>3, <1>5, SqSame DEF Flush, cq, SqP!Quiet
<1>6. CASE StartPeek(0) \/ StartPeek(1) \/ StartGetEvents \/ LoadTail
  BY <1>2, <1>3, <1>6, CqSame DEF StartPeek, StartGetEvents, LoadTail,
     CqP!StartPeek, CqP!StartGetEvents, CqP!LoadTail, CqP!kernel
<1>7. CASE Count
  <2>1. UNCHANGED <<cq_khead, cq_ktail, cqes, backlog>>
    BY <1>7, CqSame DEF Count, cq, CqP!StartSubmitAndWait, CqP!kernel
  <2> QED BY <1>1, <1>3, <1>7, <2>1, SqSame DEF Count, SqP!Quiet, SqP!CallNext
<1>8. CASE Enter
  <2>1. UNCHANGED <<cq_khead, cq_ktail, cqes, backlog>>
    BY <1>8, CqSame DEF Enter, cq, CqP!StartGetEvents, CqP!kernel
  <2> QED BY <1>1, <1>3, <1>8, <2>1, SqSame DEF Enter, SqP!Quiet, SqP!CallNext
<1>9. CASE NeedsEnter \/ Drain
  BY <1>1, <1>3, <1>9, SqSame DEF NeedsEnter, Drain, cq, SqP!Quiet, SqP!CallNext
<1>10. CASE Scan
  <2>1. CqP!Scan
    BY <1>10, CqSame DEF Scan
  <2>2. UNCHANGED <<cq_khead, cq_ktail, cqes, backlog>>
    BY <2>1 DEF CqP!Scan, CqP!Skipped, CqP!kernel
  <2>3. Queued' = Queued
    BY <1>1, <1>2, <1>10, SqSame DEF Scan, SqP!Quiet, SqP!CallNext
  <2> QED BY <1>3, <1>10, <2>2, <2>3 DEF Scan
<1>11. CASE KernelFlush
  <2>1. CqP!KernelFlush /\ CqP!IInv /\ CqP!IInv'
    BY <1>11, CqSame DEF KernelFlush, RingsInv, CqP!FInv
  <2>2. CqP!Outstanding' = CqP!Outstanding
    BY <2>1, CqP!FlushQueue, IoUringAssumption, CqAssumptions, ReqsAssumption
  <2> QED BY <1>2, <1>11, <2>2, DoneIs DEF KernelFlush
<1>12. CASE EnterReturn
  <2>1. UNCHANGED <<cq_khead, cq_ktail, cqes, backlog>>
    BY <1>12, CqSame DEF EnterReturn, EndEvents, cq, CqP!EnterReturn, CqP!EnterFail,
       CqP!kernel
  <2>2. Queued' = Queued
    BY <1>1, <1>2, <1>12, SqSame DEF EnterReturn, SqP!Quiet
  <2> QED BY <1>3, <1>12, <2>1, <2>2 DEF EnterReturn
<1>13. CASE UNCHANGED vars
  BY <1>2, <1>3, <1>13 DEF vars, cq
<1> QED
  BY <1>4, <1>5, <1>6, <1>7, <1>8, <1>9, <1>10, <1>11, <1>12, <1>13 DEF Next, InCall

-----------------------------------------------------------------------------
(* The circle.                                                             *)

\* No request is in two places, nor twice in one.
Once == Distinct(Queued, Done, running)

IInv == RingsInv /\ Once

Places(prepared, done, run) == [r \in Reqs |-> Place(r, prepared, done, run)]

LEMMA PhaseIs ==
  /\ Once => phase = Places(ToSet(Queued), ToSet(Done), running)
  /\ Once' => phase' = Places(ToSet(Queued'), ToSet(Done'), running')
BY PhaseIsPlace DEF Once, phase, Places

\* user_data that names no request in progress is in no place.
LEMMA FreeIs ==
  ASSUME Once, NEW r \in Free
  PROVE  r \in Reqs /\ r \notin ToSet(Queued) /\ r \notin ToSet(Done) /\ r \notin running
<1>1. r \in Reqs /\ phase[r] = "idle"
  BY DEF Free
<1>2. Place(r, ToSet(Queued), ToSet(Done), running) = "idle"
  BY <1>1, PhaseIs DEF Places
<1> QED BY <1>1, <1>2 DEF Place

\* idle -> prepared.
LEMMA PrepStep ==
  ASSUME IInv, RingsInv', NEW r \in Reqs, Prep(r)
  PROVE  Once' /\ Life!Advance({r}, "idle", "prepared")
<1> DEFINE q == Queued
           d == Done
<1>1. Queued' = Append(q, r) /\ Done' = d /\ running' = running
  BY PrepMoves DEF IInv
<1>2. r \notin ToSet(q) /\ r \notin ToSet(d) /\ r \notin running
  BY FreeIs DEF IInv, Prep
<1>3. Distinct(q, d, running)
  BY DEF IInv, Once
<1> HIDE DEF q, d
<1>4. /\ Append(q, r) \in Seq(Reqs) /\ IsInjective(Append(q, r))
      /\ ToSet(Append(q, r)) = ToSet(q) \cup {r}
  BY <1>2, <1>3, Grow DEF Distinct
<1>5. Distinct(Append(q, r), d, running)
  BY <1>2, <1>3, <1>4 DEF Distinct
<1>6. Once'
  BY <1>1, <1>5 DEF Once
<1>7. /\ phase = Places(ToSet(q), ToSet(d), running)
      /\ phase' = Places(ToSet(q) \cup {r}, ToSet(d), running)
  BY <1>1, <1>4, <1>6, PhaseIs DEF IInv, q, d
<1>8. Life!Advance({r}, "idle", "prepared")
  BY <1>2, <1>7 DEF Life!Advance, Places, Place
<1> QED BY <1>6, <1>8

\* prepared -> running.
LEMMA TakeStep ==
  ASSUME IInv, RingsInv', Take
  PROVE  Once' /\ \E r \in Reqs : Life!Advance({r}, "prepared", "running")
<1> DEFINE q == Queued
           d == Done
           r == q[1]
           rest == SubSeq(q, 2, Len(q))
<1>1. Distinct(q, d, running) /\ q \in Seq(Reqs)
  BY DEF IInv, Once, Distinct
<1>2. /\ 1 <= Len(q) /\ Queued' = rest
      /\ running' = running \cup {r} /\ Done' = d
  BY <1>1, TakeMoves DEF IInv
<1> HIDE DEF q, d
<1>3. Len(q) \in Nat /\ 1 \in 0 .. Len(q) /\ 1 \in DOMAIN q /\ r \in Reqs
  BY <1>1, <1>2, LenProperties, ElementOfSeq
<1>4. /\ rest \in Seq(Reqs) /\ IsInjective(rest)
      /\ ToSet(rest) = ToSet(q) \ {r}
  <2>1. IsInjective(q) /\ 1 + 1 = 2
    BY <1>1 DEF Distinct
  <2>2. /\ rest \in Seq(Reqs) /\ IsInjective(rest)
        /\ ToSet(rest) = ToSet(q) \ ToSet(SubSeq(q, 1, 1))
    BY <1>1, <1>3, <2>1, Shorten
  <2>3. ToSet(SubSeq(q, 1, 1)) = {r}
    <3> DEFINE f == SubSeq(q, 1, 1)
    <3>1. \A i \in 1 .. 1 : q[i] \in Reqs
      BY <1>3
    <3>2. /\ f \in Seq(Reqs) /\ Len(f) = (IF 1 <= 1 THEN 1 - 1 + 1 ELSE 0)
          /\ \A i \in 1 .. 1 - 1 + 1 : f[i] = q[1 + i - 1]
      BY <3>1, SubSeqProperties
    <3> HIDE DEF f
    <3>3. DOMAIN f = 1 .. 1 /\ f[1] = r
      BY <3>2, LenProperties
    <3> QED BY <3>3 DEF ToSet, f
  <2> QED BY <2>2, <2>3
<1>5. r \in ToSet(q)
  BY <1>3 DEF ToSet
<1> HIDE DEF rest, r
<1>6. Distinct(rest, d, running \cup {r})
  BY <1>1, <1>3, <1>4, <1>5 DEF Distinct
<1>7. Once'
  BY <1>2, <1>6 DEF Once
<1>8. /\ phase = Places(ToSet(q), ToSet(d), running)
      /\ phase' = Places(ToSet(q) \ {r}, ToSet(d), running \cup {r})
  BY <1>2, <1>4, <1>7, PhaseIs DEF IInv, q, d
<1>9. Life!Advance({r}, "prepared", "running")
  <2>1. r \notin ToSet(d) /\ r \notin running
    BY <1>1, <1>5 DEF Distinct
  <2> QED BY <1>3, <1>5, <1>8, <2>1 DEF Life!Advance, Places, Place
<1> QED BY <1>3, <1>7, <1>9

\* running -> done.
LEMMA PostStep ==
  ASSUME IInv, RingsInv', NEW r \in Reqs, Post(r)
  PROVE  Once' /\ Life!Advance({r}, "running", "done")
<1> DEFINE q == Queued
           d == Done
<1>1. /\ r \in running /\ running' = running \ {r}
      /\ Done' = Append(d, r) /\ Queued' = q
  BY PostMoves DEF IInv
<1>2. Distinct(q, d, running)
  BY DEF IInv, Once
<1> HIDE DEF q, d
<1>3. r \notin ToSet(q) /\ r \notin ToSet(d)
  BY <1>1, <1>2 DEF Distinct
<1>4. /\ Append(d, r) \in Seq(Reqs) /\ IsInjective(Append(d, r))
      /\ ToSet(Append(d, r)) = ToSet(d) \cup {r}
  BY <1>2, <1>3, Grow DEF Distinct
<1>5. Distinct(q, Append(d, r), running \ {r})
  BY <1>2, <1>3, <1>4 DEF Distinct
<1>6. Once'
  BY <1>1, <1>5 DEF Once
<1>7. /\ phase = Places(ToSet(q), ToSet(d), running)
      /\ phase' = Places(ToSet(q), ToSet(d) \cup {r}, running \ {r})
  BY <1>1, <1>4, <1>6, PhaseIs DEF IInv, q, d
<1>8. Life!Advance({r}, "running", "done")
  BY <1>1, <1>3, <1>7 DEF Life!Advance, Places, Place
<1> QED BY <1>6, <1>8

\* done -> idle, of all that the call consumes.
LEMMA SeenStep ==
  ASSUME IInv, RingsInv', CqeSeen
  PROVE  /\ Once'
         /\ \/ \E S \in SUBSET Reqs : Life!Advance(S, "done", "idle")
            \/ UNCHANGED phase
<1> DEFINE q == Queued
           d == Done
<1>1. PICK k \in 0 .. Len(d) : Done' = SubSeq(d, k + 1, Len(d))
  BY SeenMoves DEF IInv
<1>2. Queued' = q /\ running' = running
  BY SeenMoves DEF IInv
<1>3. Distinct(q, d, running)
  BY DEF IInv, Once
<1> HIDE DEF q, d
<1> DEFINE rest == SubSeq(d, k + 1, Len(d))
           S == ToSet(SubSeq(d, 1, k))
<1>4. /\ rest \in Seq(Reqs) /\ IsInjective(rest)
      /\ S \subseteq ToSet(d) /\ ToSet(rest) = ToSet(d) \ S
  BY <1>3, Shorten DEF Distinct
<1> HIDE DEF rest, S
<1>5. Distinct(q, rest, running)
  BY <1>3, <1>4 DEF Distinct
<1>6. Once'
  BY <1>1, <1>2, <1>5 DEF Once, rest
<1>7. /\ phase = Places(ToSet(q), ToSet(d), running)
      /\ phase' = Places(ToSet(q), ToSet(d) \ S, running)
  BY <1>1, <1>2, <1>4, <1>6, PhaseIs DEF IInv, q, d, rest
<1>8. \A r \in S : r \in Reqs /\ r \in ToSet(d) /\ r \notin ToSet(q) /\ r \notin running
  <2>1. \A r \in ToSet(d) : r \in Reqs
    <3>1. d \in Seq(Reqs)
      BY <1>3 DEF Distinct
    <3>2. \A i \in DOMAIN d : d[i] \in Reqs
      BY <3>1, ElementOfSeq, LenProperties
    <3> QED BY <3>2 DEF ToSet
  <2> QED BY <1>3, <1>4, <2>1 DEF Distinct
<1>9. CASE S = {}
  BY <1>6, <1>7, <1>9
<1>10. CASE S # {}
  <2>1. Life!Advance(S, "done", "idle")
    BY <1>7, <1>8, <1>10 DEF Life!Advance, Places, Place
  <2>2. S \in SUBSET Reqs
    BY <1>8
  <2> QED BY <1>6, <2>1, <2>2
<1> QED BY <1>9, <1>10

\* Every step keeps the places apart and goes round the circle, or stays.
LEMMA NextOnce ==
  ASSUME IInv, RingsInv', [Next]_vars
  PROVE  Once' /\ [Life!Next]_phase
<1>1. CASE UNCHANGED <<Queued, Done, running>>
  <2>1. Once' /\ phase' = phase
    BY <1>1, PhaseIs DEF IInv, Once
  <2> QED BY <2>1
<1> QED
  BY <1>1, OtherMoves, PrepStep, TakeStep, PostStep, SeenStep DEF Life!Next, IInv

\* Every step keeps what is invariant of each ring.
LEMMA NextRings ==
  ASSUME RingsInv, [Next]_vars
  PROVE  RingsInv'
<1>1. SqP!IInv' /\ SqP!FillInv'
  BY SqStep, SqP!NextIInv, SqP!NextFifo,
     IoUringAssumption, CallsAssumption, ReqsAssumption DEF RingsInv
<1>2. CqP!FInv'
  <2>1. CqP!NoTimeoutsInBatches
    BY DEF CqP!NoTimeoutsInBatches
  <2> QED BY <2>1, CqStep, CqP!NextGiven, IoUringAssumption, CqAssumptions, ReqsAssumption
          DEF RingsInv
<1> QED BY <1>1, <1>2 DEF RingsInv

\* Empty rings: every request is idle.
LEMMA InitIInv == Init => IInv /\ Life!Init
<1> SUFFICES ASSUME Init PROVE IInv /\ Life!Init
  OBVIOUS
<1>1. SqP!Init /\ CqP!Init /\ running = {}
  BY SqSame, CqSame DEF Init
<1>2. SqP!IInv /\ SqP!FillInv /\ SqP!Fifo!Init
  BY <1>1, SqP!InitIInv, SqP!InitFifo, IoUringAssumption, CallsAssumption, ReqsAssumption
<1>3. CqP!FInv /\ CqP!Fifo!Init
  BY <1>1, CqP!InitGiven, CqP!InitRefines, IoUringAssumption, CqAssumptions, ReqsAssumption
<1>4. Queued = << >> /\ Done = << >>
  <2>1. Names(<< >>) = << >>
    <3>1. << >> \in Seq(SqP!Sqe) /\ Len(<< >>) = 0
      BY EmptySeq
    <3>2. Names(<< >>) \in Seq(Reqs \cup {NoReq}) /\ Len(Names(<< >>)) = 0
      BY <3>1, NamesType
    <3> QED BY <3>2, EmptySeq
  <2> QED BY <1>2, <1>3, <2>1, QueuedIs, DoneIs DEF SqP!Fifo!Init, CqP!Fifo!Init
<1>5. ToSet(<< >>) = {} /\ IsInjective(<< >>) /\ << >> \in Seq(Reqs)
  BY EmptySeq DEF ToSet, IsInjective
<1>6. Once
  BY <1>1, <1>4, <1>5 DEF Once, Distinct
<1>7. Life!Init
  BY <1>1, <1>4, <1>5, <1>6, PhaseIs DEF Life!Init, Places, Place
<1> QED BY <1>2, <1>3, <1>6, <1>7 DEF IInv, RingsInv

\* Each request is taken, run, completed and reaped exactly once, through
\* whatever mix of the calls of queue.cpp, however the kernel cuts submissions
\* short or holds completions back: the rings implement Requests.
THEOREM EachOnceHolds == Spec => EachOnce
<1>1. IInv /\ [Next]_vars => IInv' /\ [Life!Next]_phase
  BY NextRings, NextOnce DEF IInv
<1> QED BY <1>1, InitIInv, PTL DEF Spec, EachOnce, Life!Spec
=============================================================================
