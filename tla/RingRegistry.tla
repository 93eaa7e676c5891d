---------------------------- MODULE RingRegistry ----------------------------
(***************************************************************************)
(* Several io_uring objects of one program, the numbers they are known by  *)
(* (a descriptor, and an index of the table of registered rings), and what *)
(* their register_* calls leave in the kernel: tables of files or buffers, *)
(* also cloned from one ring into another, and buffer rings, which         *)
(* IOU_PBUF_RING_MMAP maps through the descriptor.                         *)
(*                                                                         *)
(* A call reaches whatever ring its number names at that moment, and       *)
(* numbers that are given back are handed out again at once, to another of *)
(* these rings or to the rest of the process.                              *)
(***************************************************************************)
EXTENDS Integers

CONSTANTS
  Rings,       \* the io_uring objects, and the kernel's rings behind them
  Fds,         \* descriptor numbers
  Indexes,     \* slots of the table of registered rings
  Groups,      \* buffer group ids
  Contents,    \* what a table may hold
  Empty,       \* an unregistered table
  NoRing,      \* a free number
  Stranger     \* a number of the rest of the process

ASSUME RegistryAssumption ==
  /\ Fds \subseteq Nat
  /\ Indexes \subseteq Nat
  /\ NoRing \notin Rings
  /\ Stranger \notin Rings
  /\ Stranger # NoRing
  /\ Empty \notin Contents

VARIABLES
  reg_reg,                  \* IORING_FEAT_REG_REG_RING
  live,                     \* the objects constructed
  ringfd, enterfd,          \* their _ringfd and _enterfd
  reg_ring, reg_reg_ring,   \* those with INT_FLAG_REG_RING, .._REG_REG_RING
  fds, regs,                \* kernel: the ring behind each number
  table,                    \* kernel: the table registered with each ring
  meant,                    \* the table the program registered on each object
  groups,                   \* kernel: the buffer rings of each ring
  maps,                     \* whose memory each object has mapped for a group
  pc, this, group           \* a setup_buf_ring between its system calls

fields  == <<ringfd, enterfd, reg_ring, reg_reg_ring>>
numbers == <<fields, fds, regs>>
tables  == <<table, meant>>
buffers == <<groups, maps, pc, this, group>>
vars    == <<reg_reg, live, numbers, tables, buffers>>

Init ==
  /\ reg_reg \in BOOLEAN
  /\ live = {} /\ reg_ring = {} /\ reg_reg_ring = {}
  /\ ringfd = [r \in Rings |-> -1] /\ enterfd = [r \in Rings |-> -1]
  /\ fds = [f \in Fds |-> NoRing] /\ regs = [i \in Indexes |-> NoRing]
  /\ table = [r \in Rings |-> Empty] /\ meant = [r \in Rings |-> Empty]
  /\ groups = [r \in Rings |-> {}]
  /\ maps = [r \in Rings |-> [g \in Groups |-> NoRing]]
  /\ pc = "idle" /\ this \in Rings /\ group \in Groups

\* The program is between two calls.
Idle(r) == pc = "idle" /\ r \in live

-----------------------------------------------------------------------------
(* What a call reaches.                                                    *)

FdRing(f)  == IF f \in Fds THEN fds[f] ELSE NoRing
RegRing(i) == IF i \in Indexes THEN regs[i] ELSE NoRing

\* do_register
AlwaysRingFd(r)   == FdRing(ringfd[r])
RegisterTarget(r) == IF r \in reg_reg_ring THEN RegRing(enterfd[r])
                                           ELSE FdRing(ringfd[r])

\* io_uring_enter
EnterTarget(r) == IF r \in reg_ring THEN RegRing(enterfd[r])
                                    ELSE FdRing(enterfd[r])

\* register_clone_buffers' name for its source; `flag' is
\* IORING_REGISTER_SRC_REGISTERED as the caller gave it.
SourceByFlag(s, flag) == IF flag THEN RegRing(enterfd[s]) ELSE FdRing(ringfd[s])
SourceTarget(s, flag) == IF flag /\ s \in reg_reg_ring
                         THEN RegRing(enterfd[s]) ELSE FdRing(ringfd[s])

-----------------------------------------------------------------------------
(* The objects and their numbers.  RingSetup has the details.              *)

Open(r, f) ==
  /\ pc = "idle" /\ r \notin live
  /\ fds[f] = NoRing
  /\ fds' = [fds EXCEPT ![f] = r]
  /\ live' = live \cup {r}
  /\ ringfd' = [ringfd EXCEPT ![r] = f]
  /\ enterfd' = [enterfd EXCEPT ![r] = f]
  /\ UNCHANGED <<reg_reg, reg_ring, reg_reg_ring, regs, tables, buffers>>

\* The descriptor travels as an argument, beside the number of the call.
RegisterRingFd(r, i) ==
  /\ Idle(r) /\ r \notin reg_ring
  /\ RegisterTarget(r) \in Rings /\ FdRing(ringfd[r]) \in Rings
  /\ regs[i] = NoRing
  /\ regs' = [regs EXCEPT ![i] = FdRing(ringfd[r])]
  /\ enterfd' = [enterfd EXCEPT ![r] = i]
  /\ reg_ring' = reg_ring \cup {r}
  /\ reg_reg_ring' = IF reg_reg THEN reg_reg_ring \cup {r} ELSE reg_reg_ring
  /\ UNCHANGED <<reg_reg, live, ringfd, fds, tables, buffers>>

Freed(holders, n) == [m \in DOMAIN holders |-> IF m = n THEN NoRing ELSE holders[m]]

UnregisterKeepsFlag(r) ==
  /\ Idle(r) /\ r \in reg_ring
  /\ RegisterTarget(r) \in Rings
  /\ regs' = Freed(regs, enterfd[r])
  /\ enterfd' = [enterfd EXCEPT ![r] = ringfd[r]]
  /\ reg_ring' = reg_ring \ {r}
  /\ UNCHANGED <<reg_reg, live, ringfd, reg_reg_ring, fds, tables, buffers>>

UnregisterRingFd(r) ==
  /\ Idle(r) /\ r \in reg_ring
  /\ RegisterTarget(r) \in Rings
  /\ regs' = Freed(regs, enterfd[r])
  /\ enterfd' = [enterfd EXCEPT ![r] = ringfd[r]]
  /\ reg_ring' = reg_ring \ {r}
  /\ reg_reg_ring' = reg_reg_ring \ {r}
  /\ UNCHANGED <<reg_reg, live, ringfd, fds, tables, buffers>>

CloseKeepsNumber(r) ==
  /\ Idle(r) /\ reg_reg /\ r \in reg_ring /\ ringfd[r] >= 0
  /\ fds' = Freed(fds, ringfd[r])
  /\ UNCHANGED <<reg_reg, live, fields, regs, tables, buffers>>

CloseRingFd(r) ==
  /\ Idle(r) /\ reg_reg /\ r \in reg_ring /\ ringfd[r] >= 0
  /\ fds' = Freed(fds, ringfd[r])
  /\ ringfd' = [ringfd EXCEPT ![r] = -1]
  /\ UNCHANGED <<reg_reg, live, enterfd, reg_ring, reg_reg_ring, regs, tables,
                 buffers>>

\* The kernel's ring goes with its last number and mapping, and its tables
\* with it.
Destroy(r) ==
  /\ Idle(r)
  /\ regs' = IF r \in reg_ring /\ RegisterTarget(r) \in Rings
             THEN Freed(regs, enterfd[r]) ELSE regs
  /\ fds' = Freed(fds, ringfd[r])
  /\ live' = live \ {r}
  /\ ringfd' = [ringfd EXCEPT ![r] = -1]
  /\ enterfd' = [enterfd EXCEPT ![r] = -1]
  /\ reg_ring' = reg_ring \ {r} /\ reg_reg_ring' = reg_reg_ring \ {r}
  /\ table' = [table EXCEPT ![r] = Empty] /\ meant' = [meant EXCEPT ![r] = Empty]
  /\ groups' = [groups EXCEPT ![r] = {}]
  /\ maps' = [maps EXCEPT ![r] = [g \in Groups |-> NoRing]]
  /\ UNCHANGED <<reg_reg, pc, this, group>>

Others ==
  /\ \/ /\ UNCHANGED regs
        /\ \E f \in Fds : \/ fds[f] = NoRing /\ fds' = [fds EXCEPT ![f] = Stranger]
                          \/ fds[f] = Stranger /\ fds' = [fds EXCEPT ![f] = NoRing]
     \/ /\ UNCHANGED fds
        /\ \E i \in Indexes :
             \/ regs[i] = NoRing /\ regs' = [regs EXCEPT ![i] = Stranger]
             \/ regs[i] = Stranger /\ regs' = [regs EXCEPT ![i] = NoRing]
  /\ UNCHANGED <<reg_reg, live, fields, tables, buffers>>

-----------------------------------------------------------------------------
(* The wrappers around do_register.  A call that reaches no ring, or that  *)
(* the kernel refuses, changes nothing.                                    *)

\* Object r's call leaves c in the ring it reaches, one whose table was in
\* `from'.
SetTable(r, from, c) ==
  /\ Idle(r)
  /\ RegisterTarget(r) \in Rings
  /\ table[RegisterTarget(r)] \in from
  /\ table' = [table EXCEPT ![RegisterTarget(r)] = c]
  /\ UNCHANGED <<reg_reg, live, numbers, buffers>>

Register(r, c) ==
  /\ SetTable(r, {Empty}, c)
  /\ meant' = [meant EXCEPT ![r] = c]

Update(r, c) ==
  /\ SetTable(r, Contents, c)
  /\ meant' = [meant EXCEPT ![r] = c]

Unregister(r) ==
  /\ SetTable(r, Contents, Empty)
  /\ meant' = [meant EXCEPT ![r] = Empty]

CloneBuffers(r, s, flag) ==
  /\ s \in live
  /\ SourceTarget(s, flag) \in Rings
  /\ table[SourceTarget(s, flag)] # Empty
  /\ SetTable(r, {Empty}, table[SourceTarget(s, flag)])
  /\ meant' = [meant EXCEPT ![r] = meant[s]]

-----------------------------------------------------------------------------
(* setup_buf_ring and free_buf_ring.                                       *)

AddGroup(r, g) ==
  /\ Idle(r)
  /\ RegisterTarget(r) \in Rings
  /\ g \notin groups[RegisterTarget(r)]
  /\ groups' = [groups EXCEPT ![RegisterTarget(r)] = @ \cup {g}]

DropGroup(r, g) ==
  IF RegisterTarget(r) \in Rings
  THEN groups' = [groups EXCEPT ![RegisterTarget(r)] = @ \ {g}]
  ELSE UNCHANGED groups

\* In the application's memory: mapped before it is registered.
SetupUser(r, g) ==
  /\ AddGroup(r, g)
  /\ maps' = [maps EXCEPT ![r][g] = r]
  /\ UNCHANGED <<reg_reg, live, numbers, tables, pc, this, group>>

\* In the kernel's memory: registered, then mapped through the descriptor.
SetupKernel(r, g) ==
  /\ AddGroup(r, g)
  /\ pc' = "map" /\ this' = r /\ group' = g
  /\ UNCHANGED <<reg_reg, live, numbers, tables, maps>>

MapKernel ==
  /\ pc = "map"
  /\ FdRing(ringfd[this]) \in Rings
  /\ group \in groups[FdRing(ringfd[this])]
  /\ maps' = [maps EXCEPT ![this][group] = FdRing(ringfd[this])]
  /\ pc' = "idle"
  /\ UNCHANGED <<reg_reg, live, numbers, tables, groups, this, group>>

MapFailKeeps ==
  /\ pc = "map"
  /\ pc' = "idle"
  /\ UNCHANGED <<reg_reg, live, numbers, tables, groups, maps, this, group>>

MapFail ==
  /\ pc = "map"
  /\ DropGroup(this, group)
  /\ pc' = "idle"
  /\ UNCHANGED <<reg_reg, live, numbers, tables, maps, this, group>>

\* Nothing is unmapped if the kernel could not be told.
FreeBufRing(r, g) ==
  /\ Idle(r) /\ maps[r][g] # NoRing
  /\ RegisterTarget(r) \in Rings /\ g \in groups[RegisterTarget(r)]
  /\ DropGroup(r, g)
  /\ maps' = [maps EXCEPT ![r][g] = NoRing]
  /\ UNCHANGED <<reg_reg, live, numbers, tables, pc, this, group>>

-----------------------------------------------------------------------------
NumberNext ==
  \/ \E r \in Rings : \/ \E f \in Fds : Open(r, f)
                      \/ \E i \in Indexes : RegisterRingFd(r, i)
                      \/ UnregisterRingFd(r) \/ CloseRingFd(r) \/ Destroy(r)
  \/ Others

TableNext ==
  \E r \in Rings : \/ \E c \in Contents : Register(r, c) \/ Update(r, c)
                   \/ Unregister(r)
                   \/ \E s \in Rings, flag \in BOOLEAN : CloneBuffers(r, s, flag)

BufferNext ==
  \/ \E r \in Rings, g \in Groups : \/ SetupUser(r, g) \/ SetupKernel(r, g)
                                    \/ FreeBufRing(r, g)
  \/ MapKernel \/ MapFail

Next == NumberNext \/ TableNext \/ BufferNext

Spec == Init /\ [][Next]_vars

-----------------------------------------------------------------------------
(* Properties.                                                             *)

Holder == Rings \cup {NoRing, Stranger}

TypeOK ==
  /\ reg_reg \in BOOLEAN
  /\ live \subseteq Rings
  /\ reg_reg_ring \subseteq reg_ring /\ reg_ring \subseteq live
  /\ ringfd \in [Rings -> Fds \cup {-1}]
  /\ enterfd \in [Rings -> Fds \cup Indexes \cup {-1}]
  /\ fds \in [Fds -> Holder] /\ regs \in [Indexes -> Holder]
  /\ table \in [Rings -> Contents \cup {Empty}]
  /\ meant \in [Rings -> Contents \cup {Empty}]
  /\ groups \in [Rings -> SUBSET Groups]
  /\ maps \in [Rings -> [Groups -> Rings \cup {NoRing}]]
  /\ pc \in {"idle", "map"} /\ this \in Rings /\ group \in Groups
  /\ pc = "map" => this \in live

\* Each number belongs to the ring whose object stores it and to no other:
\* across registering, closing and destroying in any order, numbers being
\* handed out again at once, none leaks and none is stale.
NumbersOwned ==
  \A r \in Rings :
    /\ \A f \in Fds : fds[f] = r <=> ringfd[r] = f
    /\ \A i \in Indexes : regs[i] = r <=> r \in reg_ring /\ enterfd[r] = i

\* Whichever of its numbers a ring still has, all system calls made on the
\* object reach it, and they reach no other ring once it has none.  As the
\* source of a clone it is found by its descriptor, and without one only if
\* the caller allows the index.
CallsReach ==
  \A r \in live :
    LET Expect(reachable) == IF reachable THEN r ELSE NoRing
        number            == ringfd[r] # -1 \/ r \in reg_ring
    IN  /\ EnterTarget(r) = Expect(number)
        /\ RegisterTarget(r) = Expect(number)
        /\ \A flag \in BOOLEAN :
             SourceTarget(r, flag) =
               Expect(ringfd[r] # -1 \/ (flag /\ r \in reg_reg_ring))

\* What the kernel holds for a ring is what the program registered on that
\* object: no call lands on another ring, and a clone copies its source.
TablesMeant == \A r \in live : table[r] = meant[r]

\* Between calls a group is known to the kernel exactly if the program has
\* the memory of that very ring for it, although a ring whose descriptor is
\* closed can register a kernel-side ring and then not map it.
BufRingWhole ==
  pc = "idle" =>
    \A r \in live, g \in Groups :
      maps[r][g] = IF g \in groups[r] THEN r ELSE NoRing
=============================================================================
