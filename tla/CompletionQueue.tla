-------------------------- MODULE CompletionQueue ---------------------------
(***************************************************************************)
(* The completion side of io_uring: the ring of CQEs the kernel fills and  *)
(* the application reaps, with every way the library offers to reap it:    *)
(* peek_cqe and cqe_seen, the waiting calls built on __get_cqe,            *)
(* peek_batch_cqe and cq_advance, for_each_cqe, and the completion half of *)
(* the calls that also submit.                                             *)
(*                                                                         *)
(* The kernel posts concurrently with all of it.  A completion that does   *)
(* not fit goes to a backlog in the kernel, which only an io_uring_enter   *)
(* with IORING_ENTER_GETEVENTS moves into the ring.  In a ring of mixed    *)
(* sizes a CQE may take two slots (IORING_CQE_F_32); one that would        *)
(* straddle the end of the ring is preceded by a filler.                   *)
(***************************************************************************)
EXTENDS Counters, Sequences, Selection

CONSTANTS
  CqEntries,    \* _cq.ring_entries
  Cqes,         \* completions of one slot
  Big,          \* completions of two slots
  Timeouts,     \* completions whose user_data is ~0, internal to a library
  Half,         \* the second slot of a big one
  Filler,       \* what the kernel puts before the end of the ring
  NoCqe,        \* a slot never written
  Calls,        \* the reaping calls the application makes
  MaxBacklog    \* bound: completions the kernel holds back

ASSUME CqAssumption ==
  /\ CqEntries \in Nat \ {0}
  /\ CqEntries < Modulus
  /\ Modulus % CqEntries = 0
  /\ MaxBacklog \in Nat

ASSUME CqCallsAssumption ==
  Calls \subseteq {"peek", "wait", "submit_and_wait_timeout", "batch", "each",
                   "get_events"}

\* peek_batch_cqe and cq_advance count slots: they are for rings whose CQEs
\* all take one.
ASSUME BatchAssumption == "batch" \in Calls => Big = {}

ASSUME CqesAssumption ==
  /\ Big \cap (Cqes \cup Timeouts) = {} /\ Cqes \cap Timeouts = {}
  /\ {Half, Filler, NoCqe} \cap (Cqes \cup Big \cup Timeouts) = {}
  /\ Half \notin {Filler, NoCqe}

VARIABLES
  khead,          \* *_cq.khead, written by the application
  ktail,          \* *_cq.ktail, written by the kernel
  cqes,           \* the slots
  backlog,        \* completions waiting in the kernel
  pc, call,       \* where the application is, and in which call
  wait_nr,        \* the completions the call still waits for
  submit,         \* whether the call still has SQEs for the kernel
  tail, head,     \* the call's local variables of these names
  held,           \* the CQEs the application was given a pointer to
  reaped          \* the completions its last call consumed

kernel == <<ktail, cqes, backlog>>
locals == <<call, wait_nr, submit, tail, head>>
vars   == <<khead, kernel, pc, locals, held, reaped>>

Posted  == Cqes \cup Big \cup Timeouts
Slot(c) == c % CqEntries
Pointer == [slot : 0 .. CqEntries - 1, cqe : Posted \cup {Filler}]

CqeAt(c) == cqes[Slot(c)]

\* cqe_nr
OneSlot(cqe)  == 1
EveryTwo(cqe) == 2
cqe_nr(cqe)   == IF cqe \in Big THEN 2 ELSE 1

Init ==
  /\ khead = 0 /\ ktail = 0 /\ tail = 0 /\ head = 0
  /\ cqes = [i \in 0 .. CqEntries - 1 |-> NoCqe]
  /\ backlog = << >>
  /\ pc = "idle" /\ call = "none" /\ wait_nr = 0 /\ submit = FALSE
  /\ held = << >> /\ reaped = << >>

\* A call begins and ends; its local variables end with it.
Begin(c, n, s) == /\ call' = c /\ wait_nr' = n /\ submit' = s
                  /\ reaped' = << >>
Return         == /\ pc' = "idle" /\ call' = "none"
                  /\ wait_nr' = 0 /\ submit' = FALSE
                  /\ tail' = 0 /\ head' = 0

-----------------------------------------------------------------------------
(* The kernel.                                                             *)

Room(t)         == CqEntries - Sub(t, khead)
Straddles(c)    == c \in Big /\ Slot(ktail) = CqEntries - 1 /\ Room(ktail) > 0
Start(c)        == IF Straddles(c) THEN Add(ktail, 1) ELSE ktail
Width(c)        == IF c \in Big THEN 2 ELSE 1
Fits(c)         == Width(c) <= Room(Start(c))

\* The ring with the filler, if one is due, and with c.
Padded(c) == IF Straddles(c) THEN [cqes EXCEPT ![Slot(ktail)] = Filler] ELSE cqes
Stored(c) == IF c \in Big
             THEN [Padded(c) EXCEPT ![Slot(Start(c))] = c,
                                    ![Slot(Add(Start(c), 1))] = Half]
             ELSE [cqes EXCEPT ![Slot(ktail)] = c]

Place(c) ==
  /\ Fits(c)
  /\ cqes' = Stored(c)
  /\ ktail' = Add(Start(c), Width(c))

\* A completion never overtakes the backlog.
Post(c) ==
  /\ \/ /\ backlog = << >>
        /\ Place(c)
        /\ UNCHANGED backlog
     \/ /\ backlog = << >> => ~Fits(c)
        /\ Len(backlog) < MaxBacklog
        /\ backlog' = Append(backlog, c)
        /\ IF backlog = << >>
           THEN cqes' = Padded(c) /\ ktail' = Start(c)
           ELSE UNCHANGED <<cqes, ktail>>
  /\ UNCHANGED <<khead, pc, locals, held, reaped>>

-----------------------------------------------------------------------------
(* peek_cqe, and the loop of __get_cqe and __get_cqe_ext around it.        *)

\* A wait for none is peek_cqe itself.
StartPeek(n) ==
  /\ pc = "idle" /\ held = << >>
  /\ Begin(IF n = 0 THEN "peek" ELSE "wait", n, FALSE)
  /\ pc' = "load"
  /\ UNCHANGED <<khead, kernel, tail, head, held>>

\* submit_and_wait_timeout has flushed, and looks for a completion first.
StartSubmitAndWait(n, s) ==
  /\ pc = "idle" /\ held = << >>
  /\ Begin("submit_and_wait_timeout", n, s)
  /\ pc' = "load"
  /\ UNCHANGED <<khead, kernel, tail, head, held>>

\* Each turn of the loop loads the tail again, once.
LoadTailStale ==
  /\ pc = "load"
  /\ tail' = IF call = "wait" /\ wait_nr = 0 THEN tail ELSE ktail
  /\ pc' = "scan"
  /\ UNCHANGED <<khead, kernel, call, wait_nr, submit, head, held, reaped>>

LoadTail ==
  /\ pc = "load"
  /\ tail' = ktail
  /\ pc' = "scan"
  /\ UNCHANGED <<khead, kernel, call, wait_nr, submit, head, held, reaped>>

ShowTimeouts(cqe) == FALSE
Skipped(cqe)      == cqe \in Timeouts

Scan ==
  /\ pc = "scan"
  /\ \/ /\ khead # tail /\ Skipped(CqeAt(khead))
        /\ khead' = Add(khead, cqe_nr(CqeAt(khead)))
        /\ UNCHANGED <<pc, locals, held>>
     \/ /\ khead # tail /\ ~Skipped(CqeAt(khead))
        /\ held' = <<[slot |-> Slot(khead), cqe |-> CqeAt(khead)]>>
        /\ Return
        /\ UNCHANGED khead
     \/ /\ khead = tail /\ (wait_nr > 0 \/ submit)
        /\ pc' = "enter"
        /\ UNCHANGED <<khead, locals, held>>
     \/ /\ khead = tail /\ ~(wait_nr > 0 \/ submit)
        /\ Return
        /\ UNCHANGED <<khead, held>>
  /\ UNCHANGED <<kernel, reaped>>

-----------------------------------------------------------------------------
(* io_uring_enter with IORING_ENTER_GETEVENTS.                             *)

\* get_events itself, or the system call of a submission that also waits
\* (submit_and_wait) or asks for events (submit_and_get_events).
StartGetEvents(n, s) ==
  /\ pc = "idle"
  /\ Begin("get_events", n, s)
  /\ pc' = "enter"
  /\ UNCHANGED <<khead, kernel, tail, head, held>>

\* Without IORING_ENTER_GETEVENTS the kernel leaves the backlog alone.
NoGetEvents == FALSE
GetEvents   == backlog # << >> /\ Fits(Head(backlog))

KernelFlush ==
  /\ pc = "enter"
  /\ GetEvents
  /\ Place(Head(backlog))
  /\ backlog' = Tail(backlog)
  /\ UNCHANGED <<khead, pc, locals, held, reaped>>

\* The kernel comes back from a submission that it cut short, or that
\* failed, before it looks at events.
Satisfied == ~GetEvents /\ wait_nr <= Sub(ktail, khead)

\* The waiting calls look at the ring again; the others just return.
EnterReturn ==
  /\ pc = "enter"
  /\ submit \/ Satisfied
  /\ \/ /\ call \in {"wait", "submit_and_wait_timeout"}
        /\ pc' = "load" /\ wait_nr' = 0 /\ submit' = FALSE
        /\ UNCHANGED <<call, tail, head>>
     \/ /\ call = "get_events"
        /\ Return
  /\ UNCHANGED <<khead, kernel, held, reaped>>

\* A signal or the timeout ends the wait; the error goes to the caller.
EnterFail ==
  /\ pc = "enter"
  /\ submit \/ ~GetEvents
  /\ Return
  /\ UNCHANGED <<khead, kernel, held, reaped>>

-----------------------------------------------------------------------------
(* cqe_seen, peek_batch_cqe, cq_advance.                                   *)

\* The first k CQEs the application was given.
Given(k) == [i \in 1 .. k |-> held[i].cqe]

\* Pointers beyond the ones consumed are dropped: they will be given again.
CqeSeen ==
  /\ pc = "idle" /\ held # << >>
  /\ khead' = Add(khead, cqe_nr(cqes[held[1].slot]))
  /\ reaped' = Given(1)
  /\ held' = << >>
  /\ UNCHANGED <<kernel, pc, locals>>

PeekBatchUnclamped(count) ==
  /\ pc = "idle" /\ held = << >>
  /\ held' = [i \in 1 .. count |-> [slot |-> Slot(Add(khead, i - 1)),
                                    cqe  |-> CqeAt(Add(khead, i - 1))]]
  /\ reaped' = << >>
  /\ UNCHANGED <<khead, kernel, pc, locals>>

PeekBatch(count) ==
  /\ pc = "idle" /\ held = << >>
  /\ LET ready == Sub(ktail, khead)
         n     == IF count > ready THEN ready ELSE count
     IN  held' = [i \in 1 .. n |-> [slot |-> Slot(Add(khead, i - 1)),
                                    cqe  |-> CqeAt(Add(khead, i - 1))]]
  /\ reaped' = << >>
  /\ UNCHANGED <<khead, kernel, pc, locals>>

CqAdvanceExtra(k) ==
  /\ pc = "idle"
  /\ khead' = Add(khead, k + 1)
  /\ reaped' = Given(k)
  /\ held' = << >>
  /\ UNCHANGED <<kernel, pc, locals>>

CqAdvance(k) ==
  /\ pc = "idle"
  /\ khead' = Add(khead, k)
  /\ reaped' = Given(k)
  /\ held' = << >>
  /\ UNCHANGED <<kernel, pc, locals>>

-----------------------------------------------------------------------------
(* for_each_cqe.  The callback may stop the loop; the CQE it was shown     *)
(* then counts as consumed.  Unlike peek_cqe the loop shows internal       *)
(* timeouts, which the program has no use for.                             *)

EachStart ==
  /\ pc = "idle" /\ held = << >>
  /\ Begin("each", 0, FALSE)
  /\ head' = khead
  /\ tail' = ktail
  /\ pc' = "each"
  /\ UNCHANGED <<khead, kernel, held>>

Show == /\ pc = "each" /\ head # tail
        /\ held' = IF CqeAt(head) \in Timeouts THEN held
                   ELSE Append(held, [slot |-> Slot(head), cqe |-> CqeAt(head)])
        /\ head' = Add(head, cqe_nr(CqeAt(head)))
        /\ pc' \in {"each", "stop"}
        /\ UNCHANGED <<kernel, call, wait_nr, submit, tail, reaped>>

EachVisitEager == Show /\ khead' = head'
EachVisit      == Show /\ UNCHANGED khead

EachEnd ==
  /\ pc = "stop" \/ (pc = "each" /\ head = tail)
  /\ khead' = head
  /\ reaped' = Given(Len(held))
  /\ held' = << >>
  /\ Return
  /\ UNCHANGED kernel

-----------------------------------------------------------------------------
WaitNrs == 1 .. CqEntries

InCall == LoadTail \/ Scan \/ KernelFlush \/ EachVisit \/ EachEnd

Next ==
  \/ \E c \in Posted : Post(c)
  \/ "peek" \in Calls /\ StartPeek(0)
  \/ "wait" \in Calls /\ \E n \in WaitNrs : StartPeek(n)
  \/ "submit_and_wait_timeout" \in Calls
     /\ \E n \in {0} \cup WaitNrs, s \in BOOLEAN : StartSubmitAndWait(n, s)
  \/ "get_events" \in Calls /\ \E n \in {0, 1}, s \in BOOLEAN : StartGetEvents(n, s)
  \/ EnterReturn \/ EnterFail
  \/ CqeSeen
  \/ "batch" \in Calls /\ \/ \E n \in 1 .. CqEntries : PeekBatch(n)
                           \/ \E k \in 1 .. Len(held) : CqAdvance(k)
  \/ "each" \in Calls /\ EachStart
  \/ InCall

Spec == Init /\ [][Next]_vars

\* The application goes on with the call it is in, consumes what it was
\* given, and comes back to wait for one completion again and again; the
\* kernel returns from a wait that is satisfied.  A wait for more than one,
\* which may never be, is made with a timeout (wait_cqes).
FairSpec ==
  /\ Spec
  /\ WF_vars(InCall)
  /\ WF_vars(EnterReturn)
  /\ WF_vars(wait_nr > 1 /\ EnterFail)
  /\ SF_vars(CqeSeen)
  /\ SF_vars(StartPeek(1))

-----------------------------------------------------------------------------
(* Properties.                                                             *)

TypeOK ==
  /\ khead \in Counter /\ ktail \in Counter
  /\ tail \in Counter /\ head \in Counter
  /\ cqes \in [0 .. CqEntries - 1 -> Posted \cup {Half, Filler, NoCqe}]
  /\ backlog \in Seq(Posted) /\ Len(backlog) <= MaxBacklog
  /\ pc \in {"idle", "load", "scan", "enter", "each", "stop"}
  /\ call \in Calls \cup {"none"}
  /\ wait_nr \in 0 .. CqEntries /\ submit \in BOOLEAN
  /\ held \in Seq(Pointer) /\ Len(held) <= CqEntries
  /\ reaped \in Seq(Posted \cup {Filler}) /\ Len(reaped) <= CqEntries

\* Every loop over the ring stops: the position it runs on never jumps past
\* the tail it compares with, and that tail never passes the kernel's.  The
\* loops test head != tail, and a CQE may take two slots.
LoopsStop ==
  /\ Sub(ktail, khead) <= CqEntries
  /\ pc = "scan" => Sub(tail, khead) <= Sub(ktail, khead)
  /\ pc \in {"each", "stop"} =>
       /\ Sub(head, khead) <= Sub(tail, khead)
       /\ Sub(tail, khead) <= Sub(ktail, khead)

\* A CQE the application holds a pointer to is not overwritten before it
\* says it has seen it.
HeldIntact ==
  \A i \in DOMAIN held : cqes[held[i].slot] = held[i].cqe

\* A wait for one or more completions that does not fail returns one.
\* Holds where no internal timeouts are posted.
WaitDelivers ==
  [][pc = "scan" /\ call = "wait" /\ pc' = "idle" => held' # << >>]_vars

\* What the program is still to be given: the ring, then the backlog.
InRing      == [i \in 1 .. Sub(ktail, khead) |-> CqeAt(Add(khead, i - 1))]
Outstanding == Only(InRing \o backlog, Cqes \cup Big)

\* An application that keeps waiting is given every completion: the backlog
\* is not stranded, whatever else was called between the waits.
AllReaped ==
  \A h \in Counter : (khead = h /\ Outstanding # << >>) ~> (khead # h)

Fifo == INSTANCE BoundedFifo
          WITH Value <- Cqes \cup Big, Capacity <- CqEntries + MaxBacklog,
               queue <- Outstanding, out <- Only(reaped, Posted)

\* Completions reach the program in the order they were posted, each once
\* and none lost, also through the backlog, also when they take two slots;
\* internal timeouts do not reach it.  Fillers are left aside: the library
\* hands them out as completions.
FifoSpec == Fifo!Spec
=============================================================================
