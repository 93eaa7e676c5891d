------------------------------ MODULE IoUring -------------------------------
(***************************************************************************)
(* The two rings of one io_uring object at work together.  An application  *)
(* prepares requests, submits them, and reaps their completions; the       *)
(* kernel takes SQEs, runs requests, and posts CQEs in any order.          *)
(*                                                                         *)
(* The rings are the modules SubmissionQueue and CompletionQueue.  What    *)
(* they share is the application's thread, which is in one call at a time, *)
(* and io_uring_enter: one system call that first takes SQEs and then, if  *)
(* the call asked for events, moves the backlog and waits.                 *)
(* submit_and_wait_timeout is in both rings at once: it flushes, looks for *)
(* a completion, and enters the kernel only if there is none.  No polling  *)
(* thread takes part here, and no internal timeouts: SubmissionQueue and   *)
(* CompletionQueue have them.                                              *)
(***************************************************************************)
EXTENDS Integers, Sequences, SequencesExt, FiniteSets

CONSTANTS
  Modulus, SqEntries, CqEntries,
  Reqs,          \* user_data of the application's requests
  SubmitCalls, ReapCalls,
  SbDepth, MaxBacklog,
  NoReq, NoCqe, Half, Filler

ASSUME IoUringAssumption ==
  /\ Modulus \in Nat \ {0}
  /\ SqEntries \in Nat \ {0} /\ SqEntries < Modulus /\ Modulus % SqEntries = 0
  /\ CqEntries \in Nat \ {0} /\ CqEntries < Modulus /\ Modulus % CqEntries = 0
  /\ SbDepth \in Nat \ {0} /\ MaxBacklog \in Nat

ASSUME CallsAssumption ==
  /\ SubmitCalls \subseteq {"submit", "submit_and_wait", "submit_and_get_events",
                            "submit_and_wait_timeout"}
  /\ ReapCalls \subseteq {"peek", "wait", "get_events"}

ASSUME ReqsAssumption ==
  /\ {NoReq, NoCqe, Half, Filler} \cap Reqs = {}
  /\ Half \notin {Filler, NoCqe}

VARIABLES
  sqe_head, sqe_tail, sq_ktail, sq_khead, sqes, sb, needWakeup, thread,
  sq_pc, sq_call, wait, submitted, wake, left, taken,
  cq_khead, cq_ktail, cqes, backlog, cq_pc, cq_call, wait_nr, submit,
  tail, head, held, reaped,
  running        \* requests the kernel has taken and not completed

sq   == <<sqe_head, sqe_tail, sq_ktail, sq_khead, sqes, sb, needWakeup, thread,
          sq_pc, sq_call, wait, submitted, wake, left, taken>>
cq   == <<cq_khead, cq_ktail, cqes, backlog, cq_pc, cq_call, wait_nr, submit,
          tail, head, held, reaped>>
vars == <<sq, cq, running>>

Sq == INSTANCE SubmissionQueue
        WITH Entries <- SqEntries, Extended <- {}, Calls <- SubmitCalls,
             SqPoll <- FALSE, IoPoll <- FALSE,
             ktail <- sq_ktail, khead <- sq_khead, pc <- sq_pc, call <- sq_call

\* In the completion ring a submission that waits or asks for events is one
\* of two calls more.
AllReapCalls == ReapCalls \cup {"submit_and_wait_timeout", "get_events"}

Cq == INSTANCE CompletionQueue
        WITH Cqes <- Reqs, Big <- {}, Timeouts <- {}, Calls <- AllReapCalls,
             ktail <- cq_ktail, khead <- cq_khead, pc <- cq_pc, call <- cq_call

Init == Sq!Init /\ Cq!Init /\ running = {}

\* Where a request is: the SQEs not taken, the kernel, the CQEs not consumed.
Queued == LET waiting == Sq!Waiting
          IN  [i \in DOMAIN waiting |-> waiting[i].req]
Done   == Cq!Outstanding

PhaseOf(r, queued, done, inKernel) ==
  LET times == Cardinality({i \in DOMAIN queued : queued[i] = r})
                 + Cardinality({i \in DOMAIN done : done[i] = r})
                 + (IF inKernel THEN 1 ELSE 0)
      place == IF inKernel THEN "running"
               ELSE IF r \in ToSet(queued) THEN "prepared" ELSE "done"
  IN  IF times = 0 THEN "idle" ELSE IF times = 1 THEN place ELSE "twice"

phase == LET queued == Queued
             done   == Done
         IN  [r \in Reqs |-> PhaseOf(r, queued, done, r \in running)]

-----------------------------------------------------------------------------
(* The application between its calls.                                      *)

AppIdle == sq_pc = "idle" /\ cq_pc = "idle"

\* An SQE is taken for a request; user_data names it until its completion
\* is consumed.
Free == {r \in Reqs : phase[r] = "idle"}

GetSqe == AppIdle /\ Free # {} /\ Sq!GetSqe /\ UNCHANGED <<cq, running>>

Prep(r) ==
  /\ r \in Free
  /\ Sq!Prep(r)
  /\ UNCHANGED <<cq, running>>

\* A program waits without a timeout when there is something to wait for.
Expects(phases) == \E r \in Reqs : phase[r] \in phases

Flush(c, w) ==
  /\ AppIdle
  /\ c = "submit_and_wait_timeout" => held = << >>
  /\ w => \/ c = "submit_and_wait_timeout"
          \/ Expects({"prepared", "running", "done"})
  /\ Sq!Flush(c, w)
  /\ UNCHANGED <<cq, running>>

StartPeek(n) ==
  /\ AppIdle
  /\ n > 0 => Expects({"running", "done"})
  /\ Cq!StartPeek(n)
  /\ UNCHANGED <<sq, running>>

StartGetEvents ==
  /\ AppIdle
  /\ Cq!StartGetEvents(0, FALSE)
  /\ UNCHANGED <<sq, running>>

CqeSeen == AppIdle /\ Cq!CqeSeen /\ UNCHANGED <<sq, running>>

-----------------------------------------------------------------------------
(* A call on its way to the kernel.                                        *)

WaitNr(w) == IF w THEN 1 ELSE 0

\* What flush returned goes to __get_cqe_ext as the number to submit.
Count ==
  /\ Sq!Count
  /\ IF sq_call = "submit_and_wait_timeout"
     THEN Cq!StartSubmitAndWait(WaitNr(wait), submitted' > 0)
     ELSE UNCHANGED cq
  /\ UNCHANGED running

NeedsEnter == Sq!NeedsEnter /\ UNCHANGED <<cq, running>>

LoadTail == Cq!LoadTail /\ UNCHANGED <<sq, running>>

\* peek_cqe inside a wait; in submit_and_wait_timeout what it finds decides
\* whether the SQEs are submitted now.
Scan ==
  /\ Cq!Scan
  /\ IF sq_pc = "peek" /\ cq_pc' # "scan"
     THEN Sq!PeekThenEnter /\ sq_pc' = cq_pc'
     ELSE UNCHANGED sq
  /\ UNCHANGED running

\* IORING_ENTER_GETEVENTS in the flags of __submit, submit_and_get_events.
AsksEvents == wait \/ sq_call = "submit_and_get_events"

Enter ==
  /\ Sq!Enter
  /\ IF AsksEvents /\ cq_pc = "idle"
     THEN Cq!StartGetEvents(WaitNr(wait), submitted > 0)
     ELSE UNCHANGED cq
  /\ UNCHANGED running

-----------------------------------------------------------------------------
(* io_uring_enter and the kernel.                                          *)

Take ==
  /\ Sq!KernelTake
  /\ running' = running \cup {taken'[1].req}
  /\ UNCHANGED cq

\* Events come after the submission.
InEvents == sq_pc = "idle" \/ (sq_pc = "kernel" /\ left = 0)

KernelFlush == InEvents /\ Cq!KernelFlush /\ UNCHANGED <<sq, running>>

\* After a full submission the count is returned, whatever ended the wait;
\* after none, the error.
EndEvents ==
  \/ (left > 0 \/ ~Cq!GetEvents) /\ Cq!EnterReturn
  \/ left = submitted /\ Cq!EnterFail

EnterReturn ==
  /\ \/ sq_pc = "kernel" /\ Sq!EnterReturn
        /\ IF cq_pc = "enter" THEN EndEvents ELSE UNCHANGED cq
     \/ sq_pc = "idle" /\ (Cq!EnterReturn \/ Cq!EnterFail) /\ UNCHANGED sq
  /\ UNCHANGED running

\* The same, without counting on an error or a signal, and on a timeout only
\* where one was given.
Returns ==
  /\ cq_pc = "enter" => \/ left > 0 \/ Cq!Satisfied
                        \/ cq_call = "submit_and_wait_timeout"
  /\ EnterReturn

\* Requests complete in any order, at any moment.
Post(r) ==
  /\ r \in running
  /\ Cq!Post(r)
  /\ running' = running \ {r}
  /\ UNCHANGED sq

Drain == Sq!Drain /\ UNCHANGED <<cq, running>>

-----------------------------------------------------------------------------
InCall == Count \/ NeedsEnter \/ LoadTail \/ Scan \/ Enter \/ KernelFlush

Next ==
  \/ GetSqe
  \/ \E r \in Reqs : Prep(r) \/ Post(r)
  \/ \E c \in SubmitCalls : \E w \in Sq!Waits(c) : Flush(c, w)
  \/ "peek" \in ReapCalls /\ StartPeek(0)
  \/ "wait" \in ReapCalls /\ StartPeek(1)
  \/ "get_events" \in ReapCalls /\ StartGetEvents
  \/ CqeSeen
  \/ InCall
  \/ Take \/ EnterReturn
  \/ Drain

Spec == Init /\ [][Next]_vars

\* A program whose loop is submit_and_wait_timeout and cqe_seen, whatever
\* else it calls in between; a kernel that sometimes takes an SQE when it is
\* asked again and again, completes each request it runs, and returns from
\* a wait that is satisfied.
LoopSpec ==
  /\ Spec
  /\ WF_vars(InCall)
  /\ WF_vars(Drain)
  /\ WF_vars(\E r \in Reqs : Prep(r))
  /\ WF_vars(Returns)
  /\ \A r \in Reqs : WF_vars(Post(r))
  /\ SF_vars(Take)
  /\ SF_vars(CqeSeen)
  /\ SF_vars(Flush("submit_and_wait_timeout", TRUE))

-----------------------------------------------------------------------------
(* Properties.                                                             *)

Life == INSTANCE Requests

\* Each request is taken, run, completed and reaped exactly once, whatever
\* mix of calls submits and reaps, whichever of them returns early, and
\* however the kernel cuts submissions short or holds completions back.
EachOnce == Life!Spec

\* In a program that loops over submit_and_wait_timeout every request is
\* served, although that call returns without having submitted anything
\* whenever a completion happens to be there.
EachServed == \A r \in Reqs : phase[r] = "prepared" ~> phase[r] = "idle"

\* Completions reach the program once each and in the order posted.
CompletionsInOrder == Cq!FifoSpec
=============================================================================
