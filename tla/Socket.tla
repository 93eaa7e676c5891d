------------------------------- MODULE Socket -------------------------------
(***************************************************************************)
(* The Socket objects of a program and the descriptors they own: default   *)
(* and move construction, move assignment, open, close, accept and the     *)
(* destructor.  A Socket keeps in _fd whatever the last system call gave   *)
(* it, an error number included.                                           *)
(*                                                                         *)
(* The kernel hands out a number again as soon as it is closed, to this    *)
(* thread or to another, so closing twice closes a stranger's descriptor.  *)
(* One action makes at most one system call.                               *)
(***************************************************************************)
EXTENDS Integers

CONSTANTS
  Objs,     \* places where a Socket may live
  Fds       \* descriptor numbers

ASSUME SocketAssumption == Fds \subseteq Nat

VARIABLES
  alive,      \* the objects constructed and not destroyed
  fd,         \* the _fd of each
  table,      \* who holds each descriptor
  pc,         \* the call in progress ...
  then,       \* ... where it goes on after close() ...
  this,       \* ... on this object ...
  other       \* ... with this operand

call == <<then, this, other>>
vars == <<alive, fd, table, pc, call>>

\* E::BADF stands for every error number.
BadfPositive == 9
Badf         == -9

Init ==
  /\ alive = {} /\ fd = [o \in Objs |-> -1]
  /\ table = [f \in Fds |-> "free"]
  /\ pc = "idle" /\ then = "idle"
  /\ this \in Objs /\ other \in Objs

Alive(o)     == o \in alive
Set(o, f)    == fd' = [fd EXCEPT ![o] = f]

\* The new owner takes the number and the old one forgets it.
MoveShares(o, p) == fd' = [fd EXCEPT ![o] = fd[p]]
Move(o, p)       == fd' = [fd EXCEPT ![o] = fd[p], ![p] = -1]

\* A call of close() on behalf of open, operator=, the destructor or the
\* program, and where it goes on.
CallClose(o, p, where) ==
  /\ pc = "idle"
  /\ pc' = "close" /\ then' = where
  /\ this' = o /\ other' = p
  /\ UNCHANGED <<alive, fd, table>>

-----------------------------------------------------------------------------
Construct(o) ==
  /\ pc = "idle" /\ ~Alive(o)
  /\ alive' = alive \cup {o}
  /\ Set(o, -1)
  /\ UNCHANGED <<table, pc, call>>

MoveConstruct(o, p) ==
  /\ pc = "idle" /\ ~Alive(o) /\ Alive(p)
  /\ alive' = alive \cup {o}
  /\ Move(o, p)
  /\ UNCHANGED <<table, pc, call>>

\* A descriptor, or an error number; accept4 on a bad one always fails.
Accept(o, p) ==
  /\ pc = "idle" /\ Alive(o) /\ ~Alive(p)
  /\ alive' = alive \cup {p}
  /\ \/ Set(p, Badf) /\ UNCHANGED table
     \/ /\ fd[o] >= 0
        /\ \E f \in Fds : /\ table[f] = "free"
                          /\ table' = [table EXCEPT ![f] = "socket"]
                          /\ Set(p, f)
  /\ UNCHANGED <<pc, call>>

MoveAssign(o, p) == Alive(o) /\ Alive(p) /\ o # p /\ CallClose(o, p, "take")
Open(o)          == Alive(o) /\ CallClose(o, o, "open")
Close(o)         == Alive(o) /\ CallClose(o, o, "idle")
Destroy(o)       == Alive(o) /\ CallClose(o, o, "die")

CloseForgets ==
  /\ pc = "close"
  /\ IF fd[this] >= 0
     THEN table' = [table EXCEPT ![fd[this]] = "free"]
     ELSE UNCHANGED table
  /\ pc' = then
  /\ UNCHANGED <<alive, fd, call>>

\* close(): the system call and the reset of _fd; nobody else sees it in
\* between, so they are one step.
CloseCall ==
  /\ pc = "close"
  /\ IF fd[this] >= 0
     THEN /\ table' = [table EXCEPT ![fd[this]] = "free"]
          /\ Set(this, -1)
     ELSE UNCHANGED <<fd, table>>
  /\ pc' = then
  /\ UNCHANGED <<alive, call>>

Take ==
  /\ pc = "take"
  /\ Move(this, other)
  /\ pc' = "idle"
  /\ UNCHANGED <<alive, table, call>>

OpenCall ==
  /\ pc = "open"
  /\ \/ Set(this, Badf) /\ UNCHANGED table
     \/ \E f \in Fds : /\ table[f] = "free"
                       /\ table' = [table EXCEPT ![f] = "socket"]
                       /\ Set(this, f)
  /\ pc' = "idle"
  /\ UNCHANGED <<alive, call>>

Die ==
  /\ pc = "die"
  /\ alive' = alive \ {this}
  /\ pc' = "idle"
  /\ UNCHANGED <<fd, table, call>>

\* The rest of the process opens and closes descriptors of its own.
Others ==
  /\ \E f \in Fds : \/ /\ table[f] = "free"
                       /\ table' = [table EXCEPT ![f] = "other"]
                    \/ /\ table[f] = "other"
                       /\ table' = [table EXCEPT ![f] = "free"]
  /\ UNCHANGED <<alive, fd, pc, call>>

Next ==
  \/ \E o \in Objs : \/ Construct(o) \/ Open(o) \/ Close(o) \/ Destroy(o)
                     \/ \E p \in Objs : \/ MoveConstruct(o, p)
                                        \/ MoveAssign(o, p)
                                        \/ Accept(o, p)
  \/ CloseCall \/ Take \/ OpenCall \/ Die
  \/ Others

Spec == Init /\ [][Next]_vars

-----------------------------------------------------------------------------
(* Properties.                                                             *)

\* -1, or an error number of the kernel.
Errors == -4095 .. -1

TypeOK ==
  /\ alive \subseteq Objs
  /\ fd \in [Objs -> Fds \cup Errors]
  /\ table \in [Fds -> {"free", "socket", "other"}]
  /\ pc \in {"idle", "take", "open", "close", "die"}
  /\ then \in {"idle", "take", "open", "die"}
  /\ this \in Objs /\ other \in Objs

\* Every descriptor that Socket's calls opened and did not close is held by
\* exactly one object, and every number an object holds is one of these:
\* nothing leaks, nothing is shared, nothing stale is used, across moves,
\* self-contained failures and reuse of numbers by the kernel.
Ownership ==
  /\ \A f \in Fds : table[f] = "socket" => \E o \in alive : fd[o] = f
  /\ \A o \in Objs : fd[o] \in Fds => table[fd[o]] = "socket"
  /\ \A o, p \in Objs : fd[o] \in Fds /\ fd[o] = fd[p] => o = p

\* No call closes a descriptor that belongs to another part of the process.
OthersUntouched ==
  [][\A f \in Fds : table[f] = "other" =>
       table'[f] = "other" \/ UNCHANGED <<fd, pc>>]_vars
=============================================================================
