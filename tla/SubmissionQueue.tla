-------------------------- MODULE SubmissionQueue ---------------------------
(***************************************************************************)
(* The submission side of io_uring: the ring of SQEs that the application  *)
(* fills (get_sqe, prep), publishes (io_uring_sq::flush) and announces     *)
(* (__sq_needs_enter, io_uring_enter), and that the kernel consumes,       *)
(* either inside the application's own io_uring_enter or, with             *)
(* IORING_SETUP_SQPOLL, from a polling thread that runs beside it.         *)
(*                                                                         *)
(* One action makes at most one access to memory the other side writes.    *)
(* The application's stores to *ktail go through a TSO store buffer `sb',  *)
(* which is the reason for the fence in __sq_needs_enter.  SQE contents    *)
(* are stored before the tail that publishes them, and TSO keeps that      *)
(* order, so they are written at once: nobody reads them earlier.          *)
(***************************************************************************)
EXTENDS Counters, Sequences

CONSTANTS
  Entries,     \* _sq.ring_entries
  Reqs,        \* what the application can ask for
  Extended,    \* the requests whose prep_* also writes a field init_sqe resets
  NoReq,       \* the contents of a slot never prepared
  SqPoll,      \* IORING_SETUP_SQPOLL
  IoPoll,      \* IORING_SETUP_IOPOLL
  Calls,       \* the submission calls the application makes
  SbDepth      \* bound: stores the processor may hold back

ASSUME RingAssumption ==
  /\ Entries \in Nat \ {0}
  /\ Entries < Modulus
  /\ Modulus % Entries = 0
  /\ SbDepth \in Nat \ {0}

ASSUME CallsAssumption ==
  /\ SqPoll \in BOOLEAN
  /\ IoPoll \in BOOLEAN
  /\ Extended \subseteq Reqs
  /\ NoReq \notin Reqs
  /\ Calls \subseteq {"submit", "submit_and_wait", "submit_and_get_events",
                      "submit_and_wait_timeout"}

VARIABLES
  sqe_head, sqe_tail,    \* the application's private positions
  ktail,                 \* *_sq.ktail, in memory
  khead,                 \* *_sq.khead, written by the kernel
  sqes,                  \* the slots
  sb,                    \* stores to *ktail not yet in memory, oldest first
  needWakeup,            \* IORING_SQ_NEED_WAKEUP in *_sq.kflags
  thread,                \* the kernel's polling thread
  pc,                    \* where the application is
  call, wait,            \* the call being executed, and whether wait_nr > 0
  submitted, wake,       \* the arguments it will pass to io_uring_enter
  left,                  \* what that system call may still consume
  taken                  \* the SQE the kernel consumed last

rings  == <<khead, sqes, needWakeup, thread, taken>>
args   == <<call, wait, submitted, wake, left>>
vars   == <<sqe_head, sqe_tail, ktail, sb, pc, args, rings>>

Sqe     == [req : Reqs \cup {NoReq}, ext : BOOLEAN]
Slot(c) == c % Entries

\* sq.array, written once by init(): position i of the ring names SQE i.
SqArray == [i \in 0 .. Entries - 1 |-> i]

\* INT_FLAG_CQ_ENTER
CqEnter == IoPoll /\ ~SqPoll

Init ==
  /\ sqe_head = 0 /\ sqe_tail = 0 /\ ktail = 0 /\ khead = 0
  /\ sqes = [i \in 0 .. Entries - 1 |-> [req |-> NoReq, ext |-> FALSE]]
  /\ sb = << >>
  /\ needWakeup = FALSE
  /\ thread = "running"
  /\ pc = "idle"
  /\ call = "none" /\ wait = FALSE
  /\ submitted = 0 /\ wake = FALSE /\ left = 0
  /\ taken = << >>

-----------------------------------------------------------------------------
(* get_sqe and prep_*.                                                     *)

sq_ready      == Sub(sqe_tail, khead)
sq_space_left == Entries - sq_ready

HasRoomOffByOne == sq_ready <= Entries
HasRoom         == sq_ready < Entries

KeepSqe(s)  == s
InitSqe(s)  == [s EXCEPT !.ext = FALSE]

\* The returned SQE keeps whatever init_sqe does not reset.
GetSqe ==
  /\ pc = "idle"
  /\ HasRoom
  /\ sqes' = [sqes EXCEPT ![Slot(sqe_tail)] = InitSqe(@)]
  /\ sqe_tail' = Add(sqe_tail, 1)
  /\ pc' = "fill"
  /\ UNCHANGED <<sqe_head, ktail, khead, sb, needWakeup, thread, taken, args>>

Intended(r) == [req |-> r, ext |-> r \in Extended]

\* prep_rw writes the common fields; only some requests write another one.
Prep(r) ==
  /\ pc = "fill"
  /\ sqes' = [sqes EXCEPT ![Slot(Sub(sqe_tail, 1))] =
                [req |-> r, ext |-> @.ext \/ r \in Extended]]
  /\ pc' = "idle"
  /\ UNCHANGED <<sqe_head, sqe_tail, ktail, khead, sb, needWakeup, thread,
                 taken, args>>

-----------------------------------------------------------------------------
(* io_uring_sq::flush, shared by the four submission calls.  Their local   *)
(* variables end with them.                                                *)

Return ==
  /\ pc' = "idle"
  /\ call' = "none" /\ wait' = FALSE /\ wake' = FALSE
  /\ submitted' = 0 /\ left' = 0

Waits(c) == IF c \in {"submit_and_wait", "submit_and_wait_timeout"}
            THEN BOOLEAN ELSE {FALSE}

Flush(c, w) ==
  /\ pc = "idle"
  /\ \/ /\ sqe_head # sqe_tail
        /\ Len(sb) < SbDepth
        /\ sb' = Append(sb, sqe_tail)
        /\ sqe_head' = sqe_tail
     \/ /\ sqe_head = sqe_tail
        /\ UNCHANGED <<sb, sqe_head>>
  /\ call' = c /\ wait' = w /\ wake' = FALSE
  /\ submitted' = 0 /\ left' = 0
  /\ pc' = "count"
  /\ UNCHANGED <<sqe_tail, ktail, rings>>

\* flush returns everything the kernel has not consumed, not only what this
\* call published: a submission the kernel cut short is offered again.
PublishedOnly == Sub(sqe_tail, ktail)
Pending       == Sub(sqe_tail, khead)

Count ==
  /\ pc = "count"
  /\ submitted' = Pending
  /\ pc' = IF call = "submit_and_wait_timeout" THEN "peek" ELSE "needs"
  /\ UNCHANGED <<sqe_head, sqe_tail, ktail, sb, call, wait, wake, left, rings>>

-----------------------------------------------------------------------------
(* __sq_needs_enter, __submit, submit_and_get_events.                      *)

Unfenced == TRUE
Fenced   == sb = << >>

\* The polling thread has to be woken; looking costs a fence.
Wakes == SqPoll /\ submitted > 0 /\ needWakeup

NeedsEnter ==
  /\ pc = "needs"
  /\ SqPoll /\ submitted > 0 => Fenced
  /\ LET needs == submitted > 0 /\ (~SqPoll \/ needWakeup)
     IN  \/ /\ needs \/ wait \/ CqEnter \/ call = "submit_and_get_events"
            /\ wake' = Wakes
            /\ pc' = "enter"
            /\ UNCHANGED <<call, wait, submitted, left>>
         \/ /\ ~(needs \/ wait \/ CqEnter \/ call = "submit_and_get_events")
            /\ Return
  /\ UNCHANGED <<sqe_head, sqe_tail, ktail, sb, rings>>

\* submit_and_wait_timeout goes through __get_cqe_ext, which looks for a
\* completion first and enters the kernel only if there is none.
PeekThenEnter ==
  /\ pc = "peek"
  /\ \/ Return
     \/ /\ submitted > 0 \/ wait
        /\ pc' = "enter"
        /\ UNCHANGED args
  /\ UNCHANGED <<sqe_head, sqe_tail, ktail, sb, rings>>

-----------------------------------------------------------------------------
(* io_uring_enter.  Without SQPOLL the kernel runs on the caller's own     *)
(* processor, which sees the caller's stores; it may stop at any SQE.      *)

Enter ==
  /\ pc = "enter"
  /\ \/ /\ ~SqPoll
        /\ sb = << >>
        /\ left' = submitted
        /\ UNCHANGED <<needWakeup, thread>>
     \/ /\ SqPoll
        /\ thread' = IF wake THEN "running" ELSE thread
        /\ needWakeup' = (needWakeup /\ ~wake)
        /\ UNCHANGED left
  /\ pc' = "kernel"
  /\ UNCHANGED <<sqe_head, sqe_tail, ktail, sb, khead, sqes, taken, call, wait,
                 submitted, wake>>

Consume ==
  /\ khead # ktail
  /\ taken' = <<sqes[SqArray[Slot(khead)]]>>
  /\ khead' = Add(khead, 1)

KernelTake ==
  /\ pc = "kernel"
  /\ left > 0
  /\ Consume
  /\ left' = left - 1
  /\ UNCHANGED <<sqe_head, sqe_tail, ktail, sb, sqes, needWakeup, thread, pc,
                 call, wait, submitted, wake>>

\* Success, a short count or an error: the calls return it to the caller.
EnterReturn ==
  /\ pc = "kernel"
  /\ Return
  /\ UNCHANGED <<sqe_head, sqe_tail, ktail, sb, rings>>

-----------------------------------------------------------------------------
(* The processor and the kernel's polling thread (io_sq_thread).           *)

Drain ==
  /\ sb # << >>
  /\ ktail' = Head(sb)
  /\ sb' = Tail(sb)
  /\ UNCHANGED <<sqe_head, sqe_tail, pc, args, rings>>

ThreadTake ==
  /\ SqPoll
  /\ thread = "running"
  /\ Consume
  /\ UNCHANGED <<sqe_head, sqe_tail, ktail, sb, sqes, needWakeup, thread, pc,
                 args>>

ThreadIdle ==
  /\ SqPoll
  /\ thread = "running"
  /\ khead = ktail
  /\ needWakeup' = TRUE
  /\ thread' = "flagged"
  /\ UNCHANGED <<sqe_head, sqe_tail, ktail, khead, sb, sqes, taken, pc, args>>

ThreadRecheck ==
  /\ thread = "flagged"
  /\ \/ /\ khead = ktail
        /\ thread' = "asleep"
        /\ UNCHANGED needWakeup
     \/ /\ khead # ktail
        /\ thread' = "running"
        /\ needWakeup' = FALSE
  /\ UNCHANGED <<sqe_head, sqe_tail, ktail, khead, sb, sqes, taken, pc, args>>

-----------------------------------------------------------------------------
CallNext == Count \/ NeedsEnter \/ PeekThenEnter \/ Enter

Next ==
  \/ GetSqe
  \/ \E r \in Reqs : Prep(r)
  \/ \E c \in Calls : \E w \in Waits(c) : Flush(c, w)
  \/ CallNext
  \/ KernelTake \/ EnterReturn
  \/ Drain \/ ThreadTake \/ ThreadIdle \/ ThreadRecheck

Spec == Init /\ [][Next]_vars

\* With SQPOLL: a call in progress goes on up to the system call, the
\* processor writes its stores back, and a thread that is awake runs.
\* Nothing is assumed of what the application does next, nor that a waiting
\* io_uring_enter returns.
PollSpec ==
  /\ Spec
  /\ WF_vars(CallNext)
  /\ WF_vars(Drain)
  /\ WF_vars(ThreadTake \/ ThreadRecheck)

\* Without SQPOLL: besides, the application prepares what it asked for and
\* calls submit() again and again, and the kernel does not refuse forever.
EnterSpec ==
  /\ Spec
  /\ WF_vars(CallNext)
  /\ WF_vars(Drain)
  /\ WF_vars(\E r \in Reqs : Prep(r))
  /\ WF_vars(EnterReturn)
  /\ SF_vars(Flush("submit", FALSE))
  /\ SF_vars(KernelTake)

-----------------------------------------------------------------------------
(* Properties.                                                             *)

TypeOK ==
  /\ sqe_head \in Counter /\ sqe_tail \in Counter
  /\ ktail \in Counter /\ khead \in Counter
  /\ sqes \in [0 .. Entries - 1 -> Sqe]
  /\ sb \in Seq(Counter) /\ Len(sb) <= SbDepth
  /\ needWakeup \in BOOLEAN
  /\ thread \in {"running", "flagged", "asleep"}
  /\ pc \in {"idle", "fill", "count", "needs", "peek", "enter", "kernel"}
  /\ call \in Calls \cup {"none"} /\ wait \in BOOLEAN
  /\ submitted \in 0 .. Entries /\ wake \in BOOLEAN /\ left \in 0 .. Entries
  /\ taken \in {<< >>} \cup {<<s>> : s \in Sqe}

\* Positions as distances from what the kernel has consumed.
Ahead(c) == Sub(c, khead)

\* The four positions and every store in flight stay in ring order within
\* one ring length, across wrap-around: khead, ktail, the buffered tails,
\* sqe_head, sqe_tail.  What get_sqe's full test, flush's return value and
\* sq_space_left rely on.
RingWindow ==
  /\ \A i \in 1 .. Len(sb) : Ahead(ktail) < Ahead(sb[i])
  /\ \A i, j \in 1 .. Len(sb) : i < j => Ahead(sb[i]) < Ahead(sb[j])
  /\ sqe_head = IF sb = << >> THEN ktail ELSE sb[Len(sb)]
  /\ Ahead(ktail) <= Ahead(sqe_head)
  /\ Ahead(sqe_head) <= Ahead(sqe_tail)
  /\ sq_ready <= Entries

\* io_uring_enter is always offered every SQE the kernel has not consumed,
\* the leftovers of a submission cut short included.
SubmitOffersAll ==
  pc = "enter" /\ ~SqPoll => submitted = Ahead(sqe_tail)

\* The polling thread never sleeps on published work, except while the call
\* that published it is still on its way to wake it.  Requires the calls
\* that look at IORING_SQ_NEED_WAKEUP.
NoSleepOnWork ==
  thread = "asleep" /\ khead # sqe_head =>
    \/ pc \in {"count", "needs"}
    \/ pc = "enter" /\ wake

\* Whatever was flushed is consumed: no lost wakeup with SQPOLL, no SQE
\* stranded by short submissions without it.
FlushedConsumed ==
  \A h \in Counter : (khead = h /\ sqe_head # h) ~> (khead # h)

\* The SQEs prepared and not consumed, as the kernel will read them.
PreparedTail == IF pc = "fill" THEN Sub(sqe_tail, 1) ELSE sqe_tail
Waiting      == [i \in 1 .. Ahead(PreparedTail) |->
                   sqes[SqArray[Slot(Add(khead, i - 1))]]]

Fifo == INSTANCE BoundedFifo
          WITH Value <- {Intended(r) : r \in Reqs}, Capacity <- Entries,
               queue <- Waiting, out <- taken

\* The ring is a bounded FIFO of exactly what the application meant to
\* submit: in order, once each, no slot overwritten early, no field left
\* over from the request that used the slot before.
FifoSpec == Fifo!Spec
=============================================================================
