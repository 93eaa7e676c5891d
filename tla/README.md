# Verification of nostd

nostd is a C++ library without the C library: an io_uring wrapper written
against the system calls, sockets, memory mapping, atomics. This directory
holds TLA+ models of its stateful parts, TLC runs over small instances of them,
and proofs checked by TLAPS. Paths below are relative to `src/`.

## The system

| Component | State it keeps | Operations | Module |
|---|---|---|---|
| Submission queue (`io_uring_sq`; `queue.cpp`, `rings.cpp`, `syscall.cpp`) | `sqe_head`, `sqe_tail`, the SQE array; `*khead`, `*ktail`, `*kflags` shared with the kernel | `get_sqe`, `flush`, `submit`, `submit_and_wait`, `submit_and_get_events`, `submit_and_wait_timeout` | `SubmissionQueue` |
| SQE preparation (`prep_*` in `io_uring.hpp`, `init_sqe`) | the bytes of one SQE | 108 helpers | `SqeHelpers`, `SqePrep` |
| Completion queue (`io_uring_cq`; `queue.cpp`) | `*khead`, `*ktail`, the CQE array | `peek_cqe`, `wait_cqe*`, `cqe_seen`, `peek_batch_cqe`, `cq_advance`, `for_each_cqe`, `get_events` | `CompletionQueue` |
| Set-up and tear-down (`setup.cpp`, `rings.cpp`) | mappings, sizes, descriptor, flags | constructor (`init`, `no_mmap`, `map_rings`), destructor, `get_probe_ring` | `RingSetup` |
| The two rings together (`io_uring`) | both rings | `submit_and_wait_timeout`, `submit_and_get_events`, and every mix of the calls above | `IoUring`, `Requests` |
| Ring descriptor registration (`register.cpp`) | `_ringfd`, `_enterfd`, two flags | `register_ring_fd`, `unregister_ring_fd`, `close_ring_fd`, `do_register` | `RingSetup`, `RingRegistry` |
| Provided buffers (`buffer.cpp`, `buf_ring_*`) | the ring shared with the kernel | `setup_buf_ring`, `free_buf_ring`, `buf_ring_add`, `buf_ring_advance`, `buf_ring_cq_advance` | `BufRing`, `RingRegistry` |
| `Socket` (`net/socket.cpp`) | `_fd` | constructors, move, `open`, `close`, `accept`, destructor | `Socket` |
| `register_*` wrappers (`register.cpp`) | none of their own; tables in the kernel | register, update and unregister files or buffers, `register_clone_buffers` | `RingRegistry` |
| Memory layout (`no_mmap`, `map_rings`, `roundup_pow2`, `align_up`) | sizes and offsets | computed once, before or after `io_uring_setup` | `RingLayout` |
| `recvmsg_*` helpers | a received buffer | validate, first and next control message, payload | `RecvMsg` |
| VMA, memory, errors, types, system-call stubs | none | stateless | only as the others use them |

**How they interact.** The application, the kernel and (with SQPOLL) the
kernel's polling thread share two rings of memory. The application is the only
writer of the SQ tail and the CQ head, the kernel of the SQ head and the CQ
tail; everything else is learnt through `io_uring_enter`, which `__submit`,
`__get_cqe`, `__get_cqe_ext` and `get_events` call with different flags. The
rings exist between the constructor and the destructor of `io_uring`, and which
number the system calls carry depends on the registration of the descriptor.
Provided buffers are a third shared ring, set up through `do_register` and fed
from completions. Several `io_uring` objects of a program share its descriptor numbers and
registered indexes, and `register_clone_buffers` reads one through another.
`for_each_cqe` calls back into the application. `Socket` is independent of the
rest.

**What is hard.** Two sides reading and writing the rings at once, with stores
delayed in the processor; positions that wrap; a kernel that may consume less
than it was offered, fail any call, and hold completions back; slots that are
reused with old contents; pointers into the ring kept while it moves on;
constructors that fail half-way; numbers and addresses reused by the rest of
the process as soon as they are released. `PROJECT.json` lists each of these at
its line under `hazards`, with the property that would notice it.

**What makes each component correct.**

- SQ: it is a bounded FIFO of what the application meant to submit, and what is
  flushed is consumed.
- SQE preparation: the kernel reads what was said for this request, all of it
  and nothing else.
- CQ: completions are delivered once each, in order, untouched while held; a
  program that waits gets them all.
- Both together: each request is taken, run and reaped once, and a program that
  loops over `submit_and_wait_timeout` has every request served.
- Set-up: everything acquired is released once, on each path; the areas lie in
  the memory held for them, without overlapping.
- Registration: system calls made on an object reach its own ring, whichever
  numbers it still has.
- `recvmsg`: the walk finds the messages the kernel wrote and nothing else.
- Buffers: each buffer is in one place; they are picked in the order added.
- Socket: each descriptor has one owner, which alone closes it.

## Modules

`Counters` (u32 positions), `Selection` (the elements of a sequence that are in
a set) and `BoundedFifo` (the abstract queue) are shared. `MC*` modules give
constants to TLC; `*Proofs` modules hold the theorems, and `RingLemmas` what they
share: the arithmetic of positions and slots, induction, and facts about sequences.
The theorems of `RingLayout` are in `RingSetupProofs`, those of `RecvMsg` and
`SqePrep` in `BufRingProofs`.

### `BoundedFifo`: what a ring promises

A bounded queue and the batch that left it last. `SubmissionQueue`,
`CompletionQueue` and `BufRing` each instantiate it with a refinement mapping,
and have its specification as the property `FifoSpec`.

### `SubmissionQueue`

`GetSqe` is `get_sqe` with `init_sqe`; `Prep` is any `prep_*`, some of which
write a field that others leave alone. `Flush` and `Count` are the two halves of
`io_uring_sq::flush`: the store of the tail, then the load of the kernel's head
from which it computes its result. `NeedsEnter` is `__sq_needs_enter` and the
conditions of `__submit` around it; `PeekThenEnter` the different path of
`submit_and_wait_timeout`; `Enter`, `KernelTake`, `EnterReturn` the system call,
in which the kernel consumes any number of SQEs and returns. `ThreadTake`,
`ThreadIdle`, `ThreadRecheck` are the kernel's polling thread, which raises
`IORING_SQ_NEED_WAKEUP`, looks once more, and sleeps.

Each action makes at most one access to shared memory. The application's stores
to `*ktail` go through a TSO store buffer `sb`, emptied by `Drain`; the fence in
`__sq_needs_enter` waits for it. On x86, where the library runs (`arch/x86` is
its only architecture), this is the reordering that exists. The weaker orders of
other processors, which the acquire and release annotations also serve, are not
modelled.

### `SqeHelpers` and `SqePrep`

`SqeHelpers` translates the 108 helpers as sequences of writes. The unions of
`io_uring_sqe` are cut into cells, so that `addr` is two cells, one of which is
`level`; values are the names of the arguments they come from. Helpers built
from helpers concatenate. `SqePrep` runs one slot through requests: `GetSqe`
resets the fields of `init_sqe`, `Prep` applies any helper, the application sets
`user_data` and flags before the helper or after it and other fields after it, and
`Consume` leaves everything in the slot as "old". `said` is what the slot should
hold, kept for the properties only. Some helpers document by assigning `flags` that
they replace what was there (`Replaced`: provided buffers, direct descriptors,
the zero-copy flags in `ioprio`); with these, flags set before are lost, and with all others
`AllSaid` demands that they survive. `SqePrep` is about any set of `Helpers` that
meet its `HelpersAssumption`, what `init_sqe` and the helpers owe each other: a
helper assigns every cell `init_sqe` does not reset, leaves `user_data` alone and,
of the flags, assigns only those it replaces, and in a slot of zeroes what it is
given, and nothing else, ends up whole in its fields. TLC evaluates it for each of
the 108 before it runs. Numeric conversions (a `u32` cut
to `u16`, the `+ 1` of `set_target_fixed_file`) are left out: a value is followed
by where it came from.

### `CompletionQueue`

The kernel posts at any moment (`Post`) into the ring or, when that is full, a
backlog that only `KernelFlush` (inside `io_uring_enter` with
`IORING_ENTER_GETEVENTS`) drains. `StartPeek`, `LoadTail`, `Scan`, `EnterReturn`
and `EnterFail` are the loop of `__get_cqe`/`__get_cqe_ext` with `peek_cqe`
inside it: the tail is loaded once a turn and worked with as a stale copy.
`CqeSeen`, `PeekBatch`, `CqAdvance` are the calls of these names; `EachStart`,
`EachVisit`, `EachEnd` are `for_each_cqe`, which stores the head once at the end
and whose callback may stop it. CQEs may take two slots, with a filler before
the end of the ring, and some are internal timeouts.

### `IoUring` and `Requests`

The two ring modules composed, each instantiated with the variables renamed; in
the completion ring a submission that waits or asks for events is one call more
(`AllReapCalls`). The
application's thread is in one call at a time (`AppIdle`). `Enter` is the system
call of `__submit` or `submit_and_get_events`: it puts the submission half into
the kernel and, if the call asked for events, the completion half too, which goes
on only after the submission (`InEvents`). `submit_and_wait_timeout` is in both
halves from `Count` on: `Scan` finds a completion and returns, or enters. What
the kernel does at the end is taken from how its return value is used: a
submission cut short returns its count at once, a full one returns its count
whatever ended the wait, and only a call that submitted nothing returns the
wait's error. `Take` moves a request to `running`, `Post` completes one, in any
order.

`Requests` is what a program may expect of the whole: every request goes from
idle to prepared, running, done and back, one step at a time. `phase` is the
refinement mapping: where the `user_data` of a request is found, "twice" if in
two places.

### `RingRegistry`

Several objects, the descriptor numbers and indexes of the process, and what
each ring has in the kernel. `RegisterTarget`, `EnterTarget` and `SourceTarget`
are the choices of number in `do_register`, in the `io_uring_enter` callers, and
in `register_clone_buffers`; what they name is looked up in the tables at that
moment, so a stale number reaches another ring or a stranger. `SetTable` is
any wrapper around `do_register` that changes a table: files and buffers are not
told apart. `meant` is a history variable, what the program asked for on each
object. `SetupKernel`, `MapKernel` and `MapFail` are the three steps of
`setup_buf_ring` with `IOU_PBUF_RING_MMAP`. Construction and destruction are one
step each here; `RingSetup` has their steps.

### `RingLayout`

From what the program asks for, `NoMmap` computes `no_mmap`'s sizes with its
constants and its refusals; `LayOut` is the kernel, with its own counts and
offsets; `MapRings` computes the lengths `map_rings` maps. `LeastPow2`, a choice
among powers of two, is the reference for `roundup_pow2`, which shifts by
`__builtin_clz`. `Pow2` is the shift, a recursive function because `^` means
nothing to the prover. Sizes are the real ones, in bytes; only `Width` is smaller
than 32, because TLC's integers are, and the values rounded are at most 65536, for
which `LayoutAssumption` asks for 17 bits.

### `RecvMsg`

`PutCmsg` is the kernel storing a control message at the next padded offset, the
last one cut off when the field ends. `Validate`, `FirstHdr` and `NextHdr` are the
helpers called in the loop they are made for. What the walk should hand out is
`Only` those of the offsets whose message fits (`Whole`).

### `RingSetup`

One action per system call of the constructor, with its failure as an action of
its own, and `unmap_rings` in its three steps with the place it returns to in
`then`. `register_ring_fd`, `unregister_ring_fd` and `close_ring_fd` happen in
any order while the ring is ready, `get_probe_ring` too. `Others` is the rest of
the process, which takes any address, descriptor or index that is free: a
release of something not held therefore shows as a change to a stranger's
resource. The sizes computed by `no_mmap` are reduced to the question whether
the rings fit into the mapping of the SQEs (`packed`); `RingLayout` has them.

### `BufRing`

Set-up in both orders (map then register, or register then map), failures,
tear-down; `Provide`/`Recycle` are `buf_ring_add`, which stores at the published
tail plus an offset; `BufRingCqAdvance` publishes the buffers and consumes the
completions in two steps. The kernel picks and completes at any time. The
application has at most as many buffers as the ring has slots, since nothing in
the code checks it.

### `Socket`

Objects that may be alive or not, and the table of descriptors. A call that
closes first (`open`, `operator=`, the destructor) is `CallClose`, then
`CloseCall`, then its own step, because other threads may be given the number in
between. Failures leave the negative error number in `_fd`, as the code does.

## Runs

| Run | Instance | Shows |
|---|---|---|
| `sq_enter` | ring of 2, width 4, 2 requests, 2 buffered stores, all calls, no SQPOLL | `SubmitOffersAll` (leftovers of a short submission are offered again), refinement `FifoSpec`, `FlushedConsumed` |
| `sq_poll` | the same with SQPOLL, without `submit_and_wait_timeout` | `RingWindow`, `NoSleepOnWork`, `FlushedConsumed` (no lost wakeup); that the queue is a FIFO here too is proved |
| `sqe_prep` | all 108 helpers, any number of requests | `NothingInherited`, `AllSaid`; that every helper meets `HelpersAssumption` |
| `cq_plain` | ring of 2, width 4, 2 CQEs, backlog 2, all calls | `HeldIntact`, `FifoSpec`, `AllReaped`, `WaitDelivers` |
| `cq_mixed` | ring of 4, width 8, a small and a big CQE and an internal timeout, backlog 1; `peek_cqe`, waits, `for_each_cqe` | `LoopsStop`, `FifoSpec`, `AllReaped` with two-slot CQEs, fillers and skipped timeouts |
| `io_uring` | SQ of 2, CQ of 1, width 4, 2 requests, backlog 2, all submission calls, peek, wait, `get_events` | `EachOnce` (refinement of `Requests`), `EachServed`, `CompletionsInOrder` |
| `ring_setup` | 4 places, 2 descriptors, 2 indexes | `NothingLeaks`, `OthersUntouched`, `PointersLive` |
| `ring_registry` | 2 rings, 3 descriptors, 2 indexes, 2 buffer groups, 2 tables | `NumbersOwned`, `CallsReach`, `TablesMeant`, `BufRingWhole` |
| `layout` | 18 sizes of the SQ, 9 of the CQ, every flag, without a buffer and with buffers of 6 sizes; name and control fields up to 72 bytes, 4 messages | `CountsAgree`, `AreasFit`, `WalkFindsAll` |
| `ring_fd_only` | the same with `IORING_SETUP_REGISTERED_FD_ONLY` | a violation of `OthersUntouched`: the finding below |
| `socket` | 3 objects, 3 descriptors | `Ownership`, `OthersUntouched` |
| `buf_ring` | ring of 4, width 8, 4 buffers, 2 completions | `BuffersConserved`, `SetupBalanced`, `FifoSpec` |

One run of each module with a state machine of its own also checks its `TypeOK`.

**Bounds.** Positions are only added to, subtracted and reduced to a slot, so
what matters is that the ring wraps and that the word wraps at another moment:
width 4 for a ring of 2 gives two turns per wrap, and a mixed ring has 4 slots so
that a two-slot CQE can lie at, before and across the end. Two requests
distinguish a swap, a repetition and a loss. `SbDepth` (stores held back),
`MaxBacklog` and `MaxCqes` are bounds of the model only, in the guards of
`Flush`, `Post` and `KernelComplete`; two is enough for two entries to be
reordered or to be merged. Four places for mappings are one more than a ring
uses at once. In `io_uring` a CQ of one makes the backlog fill with two requests;
with two, `MaxBacklog` never refuses a `Post`. `ring_registry` has as many
descriptors as its rings and a stranger can hold, and fewer indexes, so that each
can be handed from any to any. The sizes of `layout` are those at which an
area reaches a page, a huge page or a limit, with their neighbours; between them
all quantities are linear. The buffers are a byte short of what `no_mmap` asks for,
just that size, and larger by 63, 64, 127039 and 127040 bytes, which is one less than an
array of 1024 entries and one of 32768 need, and just that. `SqePrep` has no bound: a slot can only hold "old" or zero when it
is reused. Symmetry is used where values are only compared, and in no run that
checks liveness.

**Fairness.** `PollSpec`: a call that has begun goes on to the system call, the
processor writes its stores back, an awake polling thread runs. Nothing is
assumed of the application, nor that a wait ends. `EnterSpec` adds what
non-SQPOLL progress really needs: the application prepares the SQE it took and
calls `submit()` again and again, and the kernel, asked again and again,
sometimes accepts (strong fairness of `KernelTake`; a kernel that always returns
`-EBUSY` consumes nothing). `FairSpec` of the completion queue: calls go on, the
application consumes what it was given and comes back to wait for one
completion, a satisfied wait returns, and a wait for several has a timeout. No
fairness is assumed of the kernel posting. `LoopSpec` of `IoUring` is a program
that calls `submit_and_wait_timeout` with a `wait_nr` of one and `cqe_seen` again
and again, whatever it calls in between: it fills the SQEs it takes, calls go on,
and the system call returns when it is satisfied or has a timeout; a wait without
one is made only while something is expected. The kernel completes every request
it runs and accepts an SQE sometimes when it is asked again and again.

## Finding

`ring_fd_only`: `init` accepts `IORING_SETUP_REGISTERED_FD_ONLY` with
`IORING_SETUP_NO_MMAP` (`setup.cpp:49`), but stores the returned index in
`_ringfd` as if it were a descriptor (`setup.cpp:86`) and sets neither flag of
registered addressing. `io_uring_enter` and `io_uring_register` then address
whatever descriptor has that number, and the destructor closes it while the
index stays registered.

These behaviours are true of the code and worth knowing although no statement of
the repository contradicts them. The runs leave them out by the constant `Calls`
or a case of the property, or state the property for programs that do not depend
on them.

- `submit_and_wait_timeout` never looks at `IORING_SQ_NEED_WAKEUP`, so with SQPOLL
  it can leave work with a sleeping thread. Without SQPOLL it returns the number
  it flushed without having submitted anything whenever a completion is there
  already; `EachServed` holds because its next call announces them again.
- A program that only peeks never receives what went to the overflow list,
  because `peek_cqe` does not enter the kernel. `for_each_cqe` and
  `peek_batch_cqe` show internal timeouts, which `peek_cqe` skips.
- `peek_batch_cqe`/`cq_advance` count slots, so they are not for rings of mixed
  sizes.
- `no_mmap` adds the SQ array to the SQEs' area (`setup.cpp:127`), but `setup_ptrs`
  and the kernel have it behind the CQEs. With a buffer of exactly the size
  `no_mmap` accepts, the array ends behind the buffer from 1024 entries on (an
  array of a page). In the mappings `no_mmap` makes itself there is always room.
  `AreasFit` states how many bytes larger the buffer has to be: the array fits if
  and only if the excess is at least `Shortfall`.
- A wait whose system call brought nothing but an internal timeout does not go
  back to wait: `wait_nr` is zero by then (`queue.cpp:120`), so it skips the timeout
  and returns `AGAIN`. `WaitDelivers` is checked and proved for programs without
  internal timeouts.
- `free_buf_ring` on a ring without any number left cannot unregister, and then
  keeps the memory mapped. `register_sync_msg` goes to descriptor -1 whatever the
  ring, and `register_wait_reg` and `register_iowq_aff` only return `NOSYS`.

## Proofs

`SubmissionQueueProofs`, for every width, ring size, store-buffer depth and set
of requests, from `ModulusAssumption`, `RingAssumption` (the ring is smaller than
the width, which is a multiple of it) and `CallsAssumption`:

- `TypeCorrect`: types; `submitted` never exceeds the number of slots.
- `WindowHolds`: `khead`, `ktail`, the stores in flight, `sqe_head` and
  `sqe_tail` stay in order within one ring length.
- `OffersAll`: without SQPOLL, `io_uring_enter` is offered everything pending.
- `NoLostWakeup`: with SQPOLL the thread does not sleep on published work,
  assuming `submit_and_wait_timeout` is not used.

The inductive invariant is `TypeOK /\ RingWindow /\ Offered /\ ThreadState`.
`TypeOK` alone is not inductive because `flush`'s result is bounded only if the
positions are in order; `RingWindow` is not because a step of the kernel keeps
the order only for positions that are words; `Offered` carries the count from
`flush` to the system call. The lemmas about wrapping distances in
`RingLemmas` are what makes the argument independent of the width.
`NoLostWakeup` needs `SleepInv`, which also says what a call holds in each state
between its store and its system call: once past the fence the store buffer is
empty, so a thread that went to sleep afterwards saw the new tail.

In the same module and from the same assumptions, `ImplementsFifo`: every
behaviour of the queue is one of `BoundedFifo` under the refinement mapping
(`queue` is what is prepared and not consumed, `out` the last SQE consumed).
`IInv` is strengthened by `FillInv`: between `get_sqe` and `prep_*` the newest
slot is reset and not published. The step that carries it is `SlotsDistinct`:
positions less than a ring length apart have different slots, also when the word
wraps between them, because the width is a multiple of the ring
(`RemaindersDistinct`). So `get_sqe`
and `prep_*` touch no SQE that waits, `Prep(r)` maps to `Enqueue(Intended(r))`
and a step of the kernel to `Dequeue(1)`; all other steps stutter.

`CompletionQueueProofs`, for every width, ring size, backlog and set of CQEs of
one or two slots, from `CqAssumption`, `CqCallsAssumption`, `CqesAssumption`
(which tell the kinds of CQEs apart) and `BatchAssumption` (`peek_batch_cqe` is
used only where all CQEs take one slot): `TypeCorrect`, `LoopsStopHolds`,
`HeldIntactHolds` and `WaitDeliversHolds`. The loops compare positions with `!=`, so they stop only if
they never step over the tail. None of the first three properties says why they do
not; the inductive invariant `TypeOK /\ Paired /\ LoopInv /\ HeldInv` does. `Paired`:
the two slots of a big CQE stand together, below the tail, in every ring the
kernel can leave. `LoopInv`: the local positions of a loop are *edges*,
positions between two CQEs. `HeldInv`: pointers lead to CQEs between head and
tail. Three lemmas carry it: `NextEdge` (`cqe_nr` leads from an edge to the next
and not beyond one ahead), `Advance` (the head may move to any edge, and the
edges beyond it stay), `EdgeStays` (what the kernel adds makes no edge into the
middle of a CQE). That the kernel overwrites nothing that is held is again
`RemaindersDistinct`. `WaitDeliversHolds` supposes that no internal timeouts are
posted, and adds `WaitInv`: a wait that has been to the kernel knows that head and
tail differ until `peek_cqe` compares them.

In the same module and from the same assumptions, `ImplementsFifo`: the
completion side is the bounded FIFO under the mapping that reads the ring as a
sequence of slots, appends the backlog, and leaves aside second halves, fillers
and internal timeouts (`Outstanding`). It supposes that a program with
`peek_batch_cqe` posts no internal timeouts (`NoTimeoutsInBatches`), since that
call hands them out. What the kernel does is described by `PostQueue` (a
completion is appended, in the ring or in the backlog, filler or not) and
`FlushQueue` (moving the head of the backlog into the ring changes nothing). What the
application does is one lemma, `ConsumedRefines`: moving the head on by `d`
slots is `Dequeue` if the call consumed exactly what is selected from these
slots. That it did is the invariant `GivenInv`, next to `IInv`: the pointer of
`peek_cqe` is to the CQE at the head, those of a batch to the ones that follow it,
and what `for_each_cqe` has shown is all it has gone past.

What `Only` selects is defined by recursion on the length. The library's induction
theorems take an operator and cannot be used; `RingLemmas` derives
`NumbersByInduction` and `SequencesByInduction`, which take a set, from
`WFMin`, and from these what `Only` does to an appended element, to a
concatenation and to two sets that agree (`OnlyAppend`, `OnlyConcat`, `OnlySame`).

`IoUringProofs`, for all widths and ring sizes, any set of requests and any of
the calls, from `IoUringAssumption`, `CallsAssumption` and `ReqsAssumption`. It
instantiates the two proof modules under the renaming of `IoUring` and shows
first that each ring behaves as it does alone: `SqAlone` and `CqAlone` map every
step of the whole to a step of that ring or to none (`SqStep`, `CqStep`). So all
that is proved of the rings holds of the whole, and `CompletionsInOrderHolds`
follows from `ImplementsFifo`. What neither ring says is that a request is in
one place only: `EachOnceHolds`, the refinement of `Requests`. Its
invariant is `RingsInv /\ Once`: `Once` says that the SQEs not taken, the requests
the kernel runs and the completions not consumed have no request in common
and none twice, and makes the count in `phase` a matter of membership
(`PhaseIsPlace`); `RingsInv`, what is invariant of each ring, makes each ring hand on what it was
given. With these five lemmas say all that moves a request: `PrepMoves` (appended to
the SQEs), `TakeMoves` (the first of them, to the kernel), `PostMoves` (from there
behind the completions), `SeenMoves` (from their front to the program),
`OtherMoves` (nothing else). The program is supposed to name a request in
progress by `user_data` of its own (`Free`). `RingsSafe` and `WaitsDeliver` draw the
other conclusion from `SqAlone` and `CqAlone`: in any mix of the calls both rings keep
their types, `RingWindow`, `SubmitOffersAll`, `LoopsStop`, `HeldIntact` and
`WaitDelivers`.

`SocketProofs`, for any objects and descriptors: `TypeCorrect`, `EachOwnedOnce`
and the action property `NeverForeign`. The invariant is
`TypeOK /\ Ownership /\ InProgress`; `InProgress` says that a call that has closed
its object finds it without a descriptor when it goes on, which is why `open` and
`operator=` do not leak what they overwrite.

`RingRegistryProofs`, for any number of rings, descriptors, indexes and groups,
from `RegistryAssumption`: `TypeCorrect`, `EachNumberOwned`,
`CallsReachTheirRing`, `TablesAreMeant`, `BufRingsAreWhole`. The inductive
invariant is `Numbers` (types, `NumbersOwned`, and which number each flag goes
with), `table = meant`, and the state of the one `setup_buf_ring` that may be
between its steps (`InSetup`, `WholeElsewhere`). `NumbersOwned` alone is not
inductive: that `_enterfd` is an index exactly under `INT_FLAG_REG_RING` and
equals `_ringfd` otherwise is what lets `unregister_ring_fd` and the destructor
free the right one. `CallsReach` follows from `Numbers` in every state; it then
carries the other two.

`RingSetupProofs`, for any pages, descriptors and indexes, from
`SetupAssumption`. Which mapping is held is a matter of the fields alone, and the
theorems about it hold for any flags: `TypeCorrect`, `MemoryConsistent`,
`PointersStayLive`. The descriptor is not: `ring_fd_only` shows a ring created
with `IORING_SETUP_REGISTERED_FD_ONLY` closing what is not its own, so
`Consistent`, `LeaksNothing` and `LeavesOthersAlone` suppose `FdOnly = FALSE`.
Neither `NothingLeaks` nor `OthersUntouched` is inductive: both speak of the
kernel's tables, and the code frees by its fields. `IInv` says of each stage of
construction and destruction that the two agree: a page is the ring's exactly
while a field of known size points to it (`PagesHeld`), no two fields
point to one (`Apart`), a mapping step finds what the steps before it left
(`Stages`), and `_ringfd`, `_enterfd` and the flags name exactly the descriptor and the
index in the kernel's tables (`Descriptors`, `Registered`).

`BufRingProofs`, for every ring size, width of the tail and set of buffers with
`BufAssumption`: there are no more buffers than slots. `buf_ring_add` does not
look at the head, so nothing in the code stops it from overwriting a slot; that it
does not is the argument of the proof, which is circular: each buffer is in one
place (`Partition`), hence what is in the ring and what is added are together no
more than the slots (`Fits`), hence the slot `buf_ring_add` writes is free
(`RemaindersDistinct`), hence the ring read as a queue is only appended to and
taken from, hence each buffer stays in one place. So the invariant is proved whole:
`TypeOK /\ Stage /\ Fits /\ Partition(...)`, where `Stage` says what is mapped and
registered at each step of `setup_buf_ring`. `TypeCorrect`, `Conserved`,
`SetUpIsBalanced` and `RingIsFifo` follow.

`RingSetupProofs` also has the theorems of `RingLayout`, from `LayoutAssumption`
(`Width > 16`), for every size asked for and every flag. `KernelAgrees` rests on
`Rounded`: the number whose highest bit is `k` has `Width - 1 - k` leading zeros
(`HighestBit`, `LeadingZeros`), so that the shift by `clz(d - 1)` gives the one
power of two that is `LeastPow2`; the facts about powers are induction over
numbers, which `RingLemmas` states for a set. `AreasFitHolds` rests on the invariant
`LayoutInv` (which step has put what where) and three facts of arithmetic that are
no accident: an array of less than a page fits behind the CQEs, where the kernel
puts it, although `no_mmap` counted it with the SQEs (`ArrayBehindCqes`), in a
large page shared by all three areas any array does (`ArrayInLargePage`), and an
array of a page or more in a buffer fits only if the buffer is larger by
`Shortfall` than what was asked for (`ArrayBeyondPage`). The first two
need that counts are powers of two and no larger than `KERN_MAX_CQ`: 1023 entries
would break the first.

`BufRingProofs` also has the theorem of `RecvMsg`, `WalkFinds`, for fields, data and
numbers of messages without bound. `Chained` says what the kernel leaves: each
message begins where the padding of the one before ends, and only the last may
lack padding, and then the field is full. `Walked` says how far the walk is, and
why it stopped: behind the last message, or before it if its padding is missing.

The last part of `BufRingProofs` is about one slot of the SQE array, for any set of
helpers, under `HelpersAssumption`: `SlotTypeCorrect`, `NothingInheritedHolds`,
`AllSaidHolds`. The assumption is about one helper in a slot of zeroes. The
theorems are about slots full of older requests, any number of them, each with
what the application sets before and after the helper. `ApplySplit`, by induction
over the writes, leads from the one to the other: after any writes a cell holds
what they put there and, unless one of them assigns it, what was there before
(`Onto`). So a helper leaves what it leaves in a slot of zeroes, except that the
reset cells it does not assign keep what was in them (`HelperOn`): the flags and
`user_data` set early. The invariant `SlotInv` adds to the properties what they need
of the time between two requests: nothing but old names is in the slot, after
`get_sqe` the cells it resets hold zero or what has been said since, and only flags
and `user_data` have.

**Only model-checked.** All liveness (`FlushedConsumed`, `AllReaped`,
`EachServed`), which the prover does not do. And that each of the 108 helpers meets
`HelpersAssumption`: they are a finite table, over which TLC evaluates it.

## Not modelled

- The other `register_*` wrappers (eventfd, NAPI, personality, clock, region,
  restrictions): each fills an argument and calls `do_register` like those of
  `RingRegistry`; what they change is the kernel's.
- The second half of 128-byte SQEs: `init_sqe` does not reset it (its TODO says
  so) and no helper writes it.
- `dontfork`: private and never called. VMA's other wrappers, errors, types,
  address structures, system-call stubs, the data and option calls of `Socket`:
  no state.
- The operations of `atomic.hpp` the rings do not use, and the weaker memory
  orders of other processors.
- Concurrent use of one `io_uring` by several threads, and reaping from inside a
  `for_each_cqe` callback: the code has no protection against either.
