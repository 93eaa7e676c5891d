------------------------------ MODULE BufRing -------------------------------
(***************************************************************************)
(* A ring of provided buffers: setup_buf_ring and free_buf_ring, the       *)
(* application handing buffers to the kernel (buf_ring_add, then           *)
(* buf_ring_advance or buf_ring_cq_advance), the kernel picking them for   *)
(* its operations and giving them back with completions.                   *)
(*                                                                         *)
(* The tail is a u16 that lies over the reserved field of slot 0.  Nothing *)
(* in the code counts free slots: the application has no more buffers than *)
(* the ring has slots, and each buffer is in one place at a time.          *)
(***************************************************************************)
EXTENDS Counters, Sequences, SequencesExt, FiniteSets

CONSTANTS
  Entries,      \* nentries, a power of two
  Bids,         \* the application's buffers
  NoBid,        \* an empty slot
  MaxCqes       \* bound: completions not yet consumed

ASSUME BufAssumption ==
  /\ Entries \in Nat \ {0}
  /\ Entries < Modulus
  /\ Modulus % Entries = 0
  /\ IsFiniteSet(Bids) /\ Cardinality(Bids) <= Entries
  /\ NoBid \notin Bids
  /\ MaxCqes \in Nat

VARIABLES
  pc,           \* where the application is
  user_mem,     \* the ring is memory of the application, not of the kernel
  mapped,       \* the application has the ring mapped
  registered,   \* the kernel knows the ring
  bufs, tail,   \* the shared ring
  khead,        \* the kernel's position in it
  added,        \* buf_ring_add calls not yet published: the next buf_offset
  mine,         \* buffers in the application's hands
  inflight,     \* buffers an operation of the kernel is using
  cqes, seen,   \* completions, and how many the application has handled
  picked        \* the buffer the kernel took last

setup == <<pc, user_mem, mapped, registered>>
data  == <<bufs, tail, khead, added, mine, inflight, cqes, seen, picked>>
vars  == <<setup, data>>

mask    == Entries - 1
Slot(c) == c % Entries

Init ==
  /\ pc = "none" /\ user_mem = FALSE /\ mapped = FALSE /\ registered = FALSE
  /\ bufs = [i \in 0 .. mask |-> NoBid]
  /\ tail = 0 /\ khead = 0 /\ added = 0
  /\ mine = Bids /\ inflight = {} /\ cqes = << >> /\ seen = 0
  /\ picked = << >>

-----------------------------------------------------------------------------
(* setup_buf_ring and free_buf_ring: one action per system call.           *)

Empty ==
  /\ bufs' = [i \in 0 .. mask |-> NoBid]
  /\ tail' = 0 /\ khead' = 0 /\ added' = 0
  /\ UNCHANGED <<mine, inflight, cqes, seen, picked>>

\* Without IOU_PBUF_RING_MMAP: map first, then register.
MapUser ==
  /\ pc = "none"
  /\ user_mem' = TRUE /\ mapped' = TRUE
  /\ pc' = "register"
  /\ Empty
  /\ UNCHANGED registered

\* With it: register first, then map what the kernel allocated.
BeginKernel ==
  /\ pc = "none"
  /\ user_mem' = FALSE
  /\ pc' = "register"
  /\ UNCHANGED <<mapped, registered, data>>

Register ==
  /\ pc = "register"
  /\ registered' = TRUE
  /\ pc' = IF user_mem THEN "ready" ELSE "map"
  /\ Empty
  /\ UNCHANGED <<user_mem, mapped>>

RegisterFailKeeps ==
  /\ pc = "register"
  /\ pc' = "none"
  /\ UNCHANGED <<user_mem, mapped, registered, data>>

RegisterFail ==
  /\ pc = "register"
  /\ mapped' = FALSE
  /\ pc' = "none"
  /\ UNCHANGED <<user_mem, registered, data>>

MapKernel ==
  /\ pc = "map"
  /\ mapped' = TRUE
  /\ pc' = "ready"
  /\ UNCHANGED <<user_mem, registered, data>>

MapKernelFail ==
  /\ pc = "map"
  /\ registered' = FALSE
  /\ pc' = "none"
  /\ UNCHANGED <<user_mem, mapped, data>>

\* The buffers in the ring, published or not, and their owner afterwards.
InRing == [i \in 1 .. Sub(tail, khead) + added |-> bufs[Slot(Add(khead, i - 1))]]

Unregister ==
  /\ pc = "ready" /\ added = 0
  /\ registered' = FALSE
  /\ mine' = mine \cup ToSet(InRing)
  /\ tail' = khead
  /\ pc' = "unmap"
  /\ UNCHANGED <<user_mem, mapped, bufs, khead, added, inflight, cqes, seen,
                 picked>>

UnmapRing ==
  /\ pc = "unmap"
  /\ mapped' = FALSE
  /\ pc' = "none"
  /\ UNCHANGED <<user_mem, registered, data>>

-----------------------------------------------------------------------------
(* Handing buffers over.                                                   *)

\* buf_ring_add(br, addr, len, bid, mask, buf_offset)
NoOffset(b) == bufs' = [bufs EXCEPT ![Slot(tail)] = b]
StoreBuf(b) == bufs' = [bufs EXCEPT ![Slot(Add(tail, added))] = b]

\* Writing a whole io_uring_buf to slot 0 would write the tail too; the code
\* writes addr, len and bid.
WholeSlot(b) == IF Slot(Add(tail, added)) = 0 THEN 0 ELSE tail
TailKept(b)  == tail

BufRingAdd(b) ==
  /\ StoreBuf(b)
  /\ tail' = TailKept(b)
  /\ added' = added + 1

Provide(b) ==
  /\ pc = "ready" /\ b \in mine
  /\ BufRingAdd(b)
  /\ mine' = mine \ {b}
  /\ UNCHANGED <<setup, khead, inflight, cqes, seen, picked>>

\* The application has handled the next completion and puts its buffer back.
Recycle ==
  /\ pc = "ready" /\ seen < Len(cqes)
  /\ BufRingAdd(cqes[seen + 1])
  /\ seen' = seen + 1
  /\ UNCHANGED <<setup, khead, mine, inflight, cqes, picked>>

\* ... or keeps it.
Keep ==
  /\ pc \in {"none", "ready"} /\ seen < Len(cqes)
  /\ mine' = mine \cup {cqes[seen + 1]}
  /\ seen' = seen + 1
  /\ UNCHANGED <<setup, bufs, tail, khead, added, inflight, cqes, picked>>

BufRingAdvance ==
  /\ pc = "ready" /\ added > 0
  /\ tail' = Add(tail, added)
  /\ added' = 0
  /\ UNCHANGED <<setup, bufs, khead, mine, inflight, cqes, seen, picked>>

CqAdvance ==
  /\ pc \in {"none", "ready", "cq_advance"} /\ seen > 0
  /\ cqes' = SubSeq(cqes, seen + 1, Len(cqes))
  /\ seen' = 0
  /\ pc' = IF pc = "cq_advance" THEN "ready" ELSE pc
  /\ UNCHANGED <<user_mem, mapped, registered, bufs, tail, khead, added, mine,
                 inflight, picked>>

\* buf_ring_cq_advance publishes as many buffers as it consumes completions:
\* the tail first, the completions in the next step.
BufRingCqAdvance ==
  /\ pc = "ready" /\ added > 0 /\ added = seen
  /\ tail' = Add(tail, added)
  /\ added' = 0
  /\ pc' = "cq_advance"
  /\ UNCHANGED <<user_mem, mapped, registered, bufs, khead, mine, inflight,
                 cqes, seen, picked>>

\* buf_ring_available
Available == Sub(tail, khead)

-----------------------------------------------------------------------------
(* The kernel.                                                             *)

KernelPick ==
  /\ registered /\ khead # tail
  /\ picked' = <<bufs[Slot(khead)]>>
  /\ inflight' = inflight \cup {bufs[Slot(khead)]}
  /\ khead' = Add(khead, 1)
  /\ UNCHANGED <<setup, bufs, tail, added, mine, cqes, seen>>

KernelComplete(b) ==
  /\ b \in inflight
  /\ Len(cqes) < MaxCqes
  /\ inflight' = inflight \ {b}
  /\ cqes' = Append(cqes, b)
  /\ UNCHANGED <<setup, bufs, tail, khead, added, mine, seen, picked>>

Next ==
  \/ MapUser \/ BeginKernel \/ Register \/ RegisterFail
  \/ MapKernel \/ MapKernelFail \/ Unregister \/ UnmapRing
  \/ \E b \in Bids : Provide(b) \/ KernelComplete(b)
  \/ Recycle \/ Keep
  \/ BufRingAdvance \/ CqAdvance \/ BufRingCqAdvance
  \/ KernelPick

Spec == Init /\ [][Next]_vars

-----------------------------------------------------------------------------
(* Properties.                                                             *)

TypeOK ==
  /\ pc \in {"none", "register", "map", "ready", "cq_advance", "unmap"}
  /\ user_mem \in BOOLEAN /\ mapped \in BOOLEAN /\ registered \in BOOLEAN
  /\ bufs \in [0 .. mask -> Bids \cup {NoBid}]
  /\ tail \in Counter /\ khead \in Counter
  /\ added \in 0 .. Entries /\ Available \in 0 .. Entries
  /\ mine \subseteq Bids /\ inflight \subseteq Bids
  /\ cqes \in Seq(Bids) /\ Len(cqes) <= MaxCqes
  /\ seen \in 0 .. Len(cqes)
  /\ picked \in {<< >>} \cup {<<b>> : b \in Bids}

\* Every buffer is in exactly one place: with the application, in the ring,
\* with an operation, or in a completion nobody has handled.  The kernel so
\* never writes into a buffer the application reads, and none is lost.
BuffersConserved ==
  LET unseen == SubSeq(cqes, seen + 1, Len(cqes))
  IN  /\ mine \cup ToSet(InRing) \cup inflight \cup ToSet(unseen) = Bids
      /\ Cardinality(mine) + Len(InRing) + Cardinality(inflight) + Len(unseen)
           = Cardinality(Bids)

\* The kernel never knows a ring whose application memory is gone, and
\* a setup that failed, like a ring that was freed, leaves neither a mapping
\* nor a registration.
SetupBalanced ==
  /\ registered /\ user_mem => mapped
  /\ pc = "none" => ~mapped /\ ~registered

Fifo == INSTANCE BoundedFifo
          WITH Value <- Bids, Capacity <- Entries,
               queue <- InRing, out <- picked

\* While one ring is set up, the kernel picks the buffers in the order they
\* were added, each once, whatever the tail wraps at.
FifoSpec == [][registered /\ registered' => Fifo!Next \/ UNCHANGED Fifo!vars]_vars
=============================================================================
