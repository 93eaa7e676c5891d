---------------------------- MODULE SocketProofs -----------------------------
(***************************************************************************)
(* Ownership of descriptors by Socket objects, for any number of objects   *)
(* and descriptors.                                                        *)
(***************************************************************************)
EXTENDS Socket, TLAPS

\* What is in _fd is a number, and it is a descriptor exactly if it is not
\* negative: the test of close() (socket.cpp:39) is right.
LEMMA FdSign ==
  ASSUME NEW x \in Fds \cup Errors
  PROVE  x \in Int /\ (x >= 0 <=> x \in Fds)
<1>1. CASE x \in Fds
  <2>1. x \in Nat
      BY <1>1, SocketAssumption
  <2> QED
      BY <1>1, <2>1
<1>2. CASE x \in Errors
  <2>1. x \in Int /\ x < 0
      BY <1>2 DEF Errors
  <2>2. x \notin Nat
      BY <2>1
  <2>3. x \notin Fds
      BY <2>2, SocketAssumption
  <2> QED
      BY <2>1, <2>3
<1> QED
    BY <1>1, <1>2

\* The numbers that stand for no descriptor.
LEMMA ErrorsAreNone ==
  Badf \in Errors /\ -1 \in Errors /\ Badf \notin Fds /\ -1 \notin Fds
<1>1. Badf \in Errors /\ -1 \in Errors
    BY DEF Badf, Errors
<1>2. Badf \notin Nat /\ -1 \notin Nat
    BY DEF Badf
<1> QED
    BY <1>1, <1>2, SocketAssumption

-----------------------------------------------------------------------------
(* The inductive invariant.                                                *)

\* What a call in progress knows: its object is alive, the operand of a move
\* assignment is another one, and after close() the object holds nothing, so
\* that overwriting _fd drops no descriptor.
InProgress ==
  /\ pc # "idle" => Alive(this)
  /\ pc = "take" \/ (pc = "close" /\ then = "take") =>
       Alive(other) /\ this # other
  /\ pc \in {"take", "open", "die"} => fd[this] \notin Fds

IInv == TypeOK /\ Ownership /\ InProgress

\* No object, no descriptor: the invariant holds at first.
LEMMA InitIInv == Init => IInv
<1> SUFFICES ASSUME Init PROVE IInv
    OBVIOUS
<1>1. TypeOK
    BY ErrorsAreNone DEF Init, TypeOK
<1> QED
    BY <1>1, ErrorsAreNone DEF Init, IInv, Ownership, InProgress

\* Moving a descriptor to an object that holds none keeps its single owner.
LEMMA MoveKeepsOwner ==
  ASSUME TypeOK, Ownership, NEW o \in Objs, NEW p \in Objs, o # p,
         fd[o] \notin Fds, Move(o, p), UNCHANGED table,
         alive \subseteq alive', o \in alive'
  PROVE  /\ fd' \in [Objs -> Fds \cup Errors]
         /\ Ownership'
<1>1. fd' = [fd EXCEPT ![o] = fd[p], ![p] = -1] /\ fd \in [Objs -> Fds \cup Errors]
    BY DEF Move, TypeOK
<1>2. /\ fd'[o] = fd[p]
      /\ fd'[p] = -1
      /\ \A q \in Objs : q # o /\ q # p => fd'[q] = fd[q]
    BY <1>1
<1>3. fd' \in [Objs -> Fds \cup Errors]
    BY <1>1, ErrorsAreNone
<1>4. ASSUME NEW f \in Fds, table'[f] = "socket"
      PROVE  \E q \in alive' : fd'[q] = f
  <2>1. PICK q \in alive : fd[q] = f
      BY <1>4 DEF Ownership
  <2>2. q \in Objs /\ q # o
      BY <2>1 DEF TypeOK
  <2>3. CASE q = p
      BY <1>2, <2>1, <2>3
  <2>4. CASE q # p
      BY <1>2, <2>1, <2>2, <2>4
  <2> QED
      BY <2>3, <2>4
<1>5. ASSUME NEW q \in Objs, fd'[q] \in Fds PROVE table'[fd'[q]] = "socket"
    BY <1>2, <1>5, ErrorsAreNone DEF Ownership
<1>6. ASSUME NEW q \in Objs, NEW r \in Objs, fd'[q] \in Fds, fd'[q] = fd'[r]
      PROVE  q = r
    BY <1>2, <1>6, ErrorsAreNone DEF Ownership
<1> QED
    BY <1>3, <1>4, <1>5, <1>6 DEF Ownership

\* A system call that gave a new descriptor, or an error, to an object that
\* held none keeps the owners.
LEMMA ResultKeepsOwner ==
  ASSUME TypeOK, Ownership, NEW o \in Objs, fd[o] \notin Fds,
         alive \subseteq alive', o \in alive',
         \/ Set(o, Badf) /\ UNCHANGED table
         \/ \E f \in Fds : /\ table[f] = "free"
                           /\ table' = [table EXCEPT ![f] = "socket"]
                           /\ Set(o, f)
  PROVE  /\ fd' \in [Objs -> Fds \cup Errors]
         /\ table' \in [Fds -> {"free", "socket", "other"}]
         /\ Ownership'
<1>1. fd \in [Objs -> Fds \cup Errors] /\ alive \subseteq Objs
    BY DEF TypeOK
<1>2. CASE Set(o, Badf) /\ UNCHANGED table
  <2>1. /\ fd' \in [Objs -> Fds \cup Errors]
        /\ fd'[o] = Badf
        /\ \A q \in Objs : q # o => fd'[q] = fd[q]
      BY <1>1, <1>2, ErrorsAreNone DEF Set
  <2> QED
      BY <1>1, <1>2, <2>1, ErrorsAreNone DEF TypeOK, Ownership
<1>3. ASSUME NEW f \in Fds, table[f] = "free",
             table' = [table EXCEPT ![f] = "socket"], Set(o, f)
      PROVE  /\ fd' \in [Objs -> Fds \cup Errors]
             /\ table' \in [Fds -> {"free", "socket", "other"}]
             /\ Ownership'
  <2>1. /\ fd' \in [Objs -> Fds \cup Errors]
        /\ fd'[o] = f
        /\ \A q \in Objs : q # o => fd'[q] = fd[q]
      BY <1>1, <1>3 DEF Set
  <2>2. /\ table' \in [Fds -> {"free", "socket", "other"}]
        /\ table'[f] = "socket"
        /\ \A g \in Fds : g # f => table'[g] = table[g]
      BY <1>3 DEF TypeOK
  <2>3. \A q \in Objs : fd[q] # f
      BY <1>3 DEF Ownership
  <2> QED
      BY <1>1, <2>1, <2>2, <2>3 DEF Ownership
<1> QED
    BY <1>2, <1>3

\* An object that is dead holds nothing, so constructing there drops no
\* descriptor.
LEMMA DeadHoldNone ==
  ASSUME TypeOK, Ownership, NEW o \in Objs, ~Alive(o)
  PROVE  fd[o] \notin Fds
<1>1. SUFFICES ASSUME fd[o] \in Fds PROVE FALSE
    OBVIOUS
<1>2. PICK p \in alive : fd[p] = fd[o]
    BY <1>1 DEF Ownership
<1> QED
    BY <1>1, <1>2 DEF Ownership, TypeOK, Alive

-----------------------------------------------------------------------------
(* One lemma per group of actions.                                         *)

\* A constructor makes an object that holds nothing, or that takes over what
\* the moved-from object held.
LEMMA ConstructIInv ==
  ASSUME IInv, NEW o \in Objs, NEW p \in Objs,
         Construct(o) \/ MoveConstruct(o, p)
  PROVE  IInv'
<1>1. TypeOK /\ Ownership /\ InProgress
    BY DEF IInv
<1>2. fd[o] \notin Fds /\ o \notin alive /\ pc = "idle"
    BY <1>1, DeadHoldNone DEF Construct, MoveConstruct, Alive
<1>3. /\ alive' = alive \cup {o}
      /\ UNCHANGED <<table, pc, then, this, other>>
    BY DEF Construct, MoveConstruct, call
<1>4. InProgress'
    BY <1>2, <1>3 DEF InProgress
<1>5. fd' \in [Objs -> Fds \cup Errors] /\ Ownership'
  <2>1. CASE Construct(o)
    <3>1. /\ fd' \in [Objs -> Fds \cup Errors]
          /\ fd'[o] = -1
          /\ \A q \in Objs : q # o => fd'[q] = fd[q]
        BY <2>1, <1>1, ErrorsAreNone DEF Construct, Set, TypeOK
    <3> QED
        BY <1>1, <1>2, <1>3, <3>1, ErrorsAreNone DEF TypeOK, Ownership
  <2>2. CASE MoveConstruct(o, p)
    <3>1. o # p /\ Move(o, p)
        BY <2>2 DEF MoveConstruct
    <3> QED
        BY <1>1, <1>2, <1>3, <3>1, MoveKeepsOwner
  <2> QED
      BY <2>1, <2>2
<1>6. TypeOK'
    BY <1>1, <1>3, <1>5 DEF TypeOK
<1> QED
    BY <1>4, <1>5, <1>6 DEF IInv

\* accept gives a descriptor nobody held to an object that held none.
LEMMA AcceptIInv ==
  ASSUME IInv, NEW o \in Objs, NEW p \in Objs, Accept(o, p)
  PROVE  IInv'
<1>1. TypeOK /\ Ownership /\ InProgress
    BY DEF IInv
<1>2. fd[p] \notin Fds /\ pc = "idle"
    BY <1>1, DeadHoldNone DEF Accept
<1>3. alive' = alive \cup {p} /\ UNCHANGED <<pc, then, this, other>>
    BY DEF Accept, call
<1>4. \/ Set(p, Badf) /\ UNCHANGED table
      \/ \E f \in Fds : /\ table[f] = "free"
                        /\ table' = [table EXCEPT ![f] = "socket"]
                        /\ Set(p, f)
    BY DEF Accept
<1>5. /\ fd' \in [Objs -> Fds \cup Errors]
      /\ table' \in [Fds -> {"free", "socket", "other"}]
      /\ Ownership'
    BY <1>1, <1>2, <1>3, <1>4, ResultKeepsOwner
<1>6. TypeOK' /\ InProgress'
    BY <1>1, <1>2, <1>3, <1>5 DEF TypeOK, InProgress
<1> QED
    BY <1>5, <1>6 DEF IInv

\* Beginning open, close, operator= or the destructor changes no holder.
LEMMA BeginIInv ==
  ASSUME IInv, NEW o \in Objs, NEW p \in Objs,
         Open(o) \/ Close(o) \/ Destroy(o) \/ MoveAssign(o, p)
  PROVE  IInv'
<1> USE DEF Open, Close, Destroy, MoveAssign, CallClose, Alive
<1>1. TypeOK'
    BY DEF IInv, TypeOK
<1>2. Ownership'
    BY DEF IInv, Ownership
<1>3. InProgress'
    BY DEF IInv, InProgress
<1> QED
    BY <1>1, <1>2, <1>3 DEF IInv

\* close() releases what this object holds, and the object forgets it.
LEMMA CloseIInv ==
  ASSUME IInv, CloseCall
  PROVE  IInv'
<1>1. TypeOK /\ Ownership /\ InProgress
    BY DEF IInv
<1>2. /\ pc = "close" /\ pc' = then
      /\ UNCHANGED <<alive, then, this, other>>
    BY DEF CloseCall, call
<1>3. /\ this \in Objs /\ this \in alive
      /\ then = "take" => other \in alive /\ this # other
      /\ then \in {"idle", "take", "open", "die"}
    BY <1>1, <1>2 DEF TypeOK, InProgress, Alive
<1>4. fd[this] >= 0 <=> fd[this] \in Fds
    BY <1>1, <1>3, FdSign DEF TypeOK
<1>5. CASE fd[this] \in Fds
  <2>1. /\ fd' \in [Objs -> Fds \cup Errors]
        /\ fd'[this] = -1
        /\ \A q \in Objs : q # this => fd'[q] = fd[q]
      BY <1>1, <1>3, <1>4, <1>5, ErrorsAreNone DEF CloseCall, Set, TypeOK
  <2>2. /\ table' \in [Fds -> {"free", "socket", "other"}]
        /\ table'[fd[this]] = "free"
        /\ \A g \in Fds : g # fd[this] => table'[g] = table[g]
      BY <1>1, <1>4, <1>5 DEF CloseCall, TypeOK
  <2>3. ASSUME NEW f \in Fds, table'[f] = "socket"
        PROVE  \E q \in alive' : fd'[q] = f
    <3>1. f # fd[this] /\ table[f] = "socket"
        BY <2>2, <2>3
    <3>2. PICK q \in alive : fd[q] = f
        BY <1>1, <3>1 DEF Ownership
    <3> QED
        BY <1>1, <1>2, <2>1, <3>1, <3>2 DEF TypeOK
  <2>4. ASSUME NEW q \in Objs, fd'[q] \in Fds
        PROVE  /\ table'[fd'[q]] = "socket"
               /\ \A r \in Objs : fd'[q] = fd'[r] => q = r
    <3>1. q # this /\ fd'[q] = fd[q]
        BY <2>1, <2>4, ErrorsAreNone
    <3>2. fd[q] # fd[this]
        BY <1>1, <1>3, <1>5, <3>1 DEF Ownership
    <3> QED
        BY <1>1, <2>1, <2>2, <2>4, <3>1, <3>2, ErrorsAreNone DEF Ownership
  <2>5. Ownership'
      BY <2>3, <2>4 DEF Ownership
  <2>6. TypeOK' /\ InProgress'
      BY <1>1, <1>2, <1>3, <2>1, <2>2, ErrorsAreNone DEF TypeOK, InProgress, Alive
  <2> QED
      BY <2>5, <2>6 DEF IInv
<1>6. CASE fd[this] \notin Fds
  <2>1. UNCHANGED <<fd, table>>
      BY <1>4, <1>6 DEF CloseCall
  <2> QED
      BY <1>1, <1>2, <1>3, <1>6, <2>1
         DEF IInv, TypeOK, Ownership, InProgress, Alive
<1> QED
    BY <1>5, <1>6

\* What follows close(): operator= takes the other's descriptor, open makes
\* the system call, the destructor ends the object.
LEMMA FinishIInv ==
  ASSUME IInv, Take \/ OpenCall \/ Die
  PROVE  IInv'
<1>1. TypeOK /\ Ownership /\ InProgress
    BY DEF IInv
<1>2. /\ this \in Objs /\ other \in Objs
      /\ this \in alive /\ fd[this] \notin Fds
      /\ pc = "take" => this # other
    BY <1>1 DEF TypeOK, InProgress, Take, OpenCall, Die, Alive
<1>3. pc' = "idle" /\ UNCHANGED <<then, this, other>>
    BY DEF Take, OpenCall, Die, call
<1>4. /\ fd' \in [Objs -> Fds \cup Errors]
      /\ table' \in [Fds -> {"free", "socket", "other"}]
      /\ alive' \subseteq Objs
      /\ Ownership'
  <2>1. CASE Take
      BY <1>1, <1>2, <2>1, MoveKeepsOwner DEF Take, TypeOK
  <2>2. CASE OpenCall
    <3>1. \/ Set(this, Badf) /\ UNCHANGED table
          \/ \E f \in Fds : /\ table[f] = "free"
                            /\ table' = [table EXCEPT ![f] = "socket"]
                            /\ Set(this, f)
        BY <2>2 DEF OpenCall
    <3>2. alive' = alive
        BY <2>2 DEF OpenCall
    <3> QED
        BY <1>1, <1>2, <3>1, <3>2, ResultKeepsOwner DEF TypeOK
  <2>3. CASE Die
      BY <1>1, <1>2, <2>3 DEF Die, TypeOK, Ownership
  <2> QED
      BY <2>1, <2>2, <2>3
<1>5. TypeOK' /\ InProgress'
    BY <1>1, <1>3, <1>4 DEF TypeOK, InProgress
<1> QED
    BY <1>4, <1>5 DEF IInv

\* The rest of the process uses only descriptors no Socket holds.
LEMMA OthersIInv ==
  ASSUME IInv, Others
  PROVE  IInv'
<1>1. TypeOK'
    BY DEF IInv, TypeOK, Others, call
<1>2. Ownership'
    BY DEF IInv, TypeOK, Ownership, Others
<1>3. InProgress'
    BY DEF IInv, InProgress, Others, Alive, call
<1> QED
    BY <1>1, <1>2, <1>3 DEF IInv

\* Every step preserves the invariant.
LEMMA NextIInv == IInv /\ [Next]_vars => IInv'
<1> SUFFICES ASSUME IInv, [Next]_vars PROVE IInv'
    OBVIOUS
<1>1. ASSUME NEW o \in Objs, NEW p \in Objs,
             Construct(o) \/ MoveConstruct(o, p)
      PROVE  IInv'
    BY <1>1, ConstructIInv
<1>2. ASSUME NEW o \in Objs, NEW p \in Objs, Accept(o, p) PROVE IInv'
    BY <1>2, AcceptIInv
<1>3. ASSUME NEW o \in Objs, NEW p \in Objs,
             Open(o) \/ Close(o) \/ Destroy(o) \/ MoveAssign(o, p)
      PROVE  IInv'
    BY <1>3, BeginIInv
<1>4. CASE CloseCall
    BY <1>4, CloseIInv
<1>5. CASE Take \/ OpenCall \/ Die
    BY <1>5, FinishIInv
<1>6. CASE Others
    BY <1>6, OthersIInv
<1>7. CASE UNCHANGED vars
    BY <1>7 DEF vars, call, IInv, TypeOK, Ownership, InProgress, Alive
<1> QED
    BY <1>1, <1>2, <1>3, <1>4, <1>5, <1>6, <1>7 DEF Next

\* The invariant holds in every reachable state.
THEOREM Invariance == Spec => []IInv
<1> QED
    BY InitIInv, NextIInv, PTL DEF Spec

-----------------------------------------------------------------------------
(* The theorems.                                                           *)

\* _fd is a descriptor, -1 or a negative error number, in every object that
\* is alive (socket.cpp:31 and 81 store what the system call returned).
THEOREM TypeCorrect == Spec => []TypeOK
<1>1. IInv => TypeOK
    BY DEF IInv
<1> QED
    BY <1>1, Invariance, PTL

\* Each descriptor a Socket call opened is held by exactly one object until
\* it is closed, however objects are moved, reopened and destroyed.
THEOREM EachOwnedOnce == Spec => []Ownership
<1>1. IInv => Ownership
    BY DEF IInv
<1> QED
    BY <1>1, Invariance, PTL

\* Socket's close never closes a descriptor of another part of the process,
\* although numbers are reused the moment they are closed.
THEOREM NeverForeign == Spec => OthersUntouched
<1> DEFINE Step == \A f \in Fds : table[f] = "other" =>
                     table'[f] = "other" \/ UNCHANGED <<fd, pc>>
<1>1. ASSUME IInv, [Next]_vars PROVE [Step]_vars
  <2>1. CASE CloseCall
    <3>1. /\ fd[this] >= 0 <=> fd[this] \in Fds
          /\ fd[this] \in Fds => table[fd[this]] = "socket"
        BY <1>1, FdSign DEF IInv, TypeOK, Ownership
    <3>2. table \in [Fds -> {"free", "socket", "other"}]
        BY <1>1 DEF IInv, TypeOK
    <3> QED
        BY <2>1, <3>1, <3>2 DEF CloseCall
  <2>2. CASE Others
      BY <2>2 DEF Others
  <2>3. ASSUME NEW o \in Objs, NEW p \in Objs, Accept(o, p) PROVE Step
      BY <1>1, <2>3 DEF Accept, IInv, TypeOK
  <2>4. CASE OpenCall
      BY <1>1, <2>4 DEF OpenCall, IInv, TypeOK
  <2>5. CASE UNCHANGED table
      BY <2>5
  <2>6. CASE UNCHANGED vars
      BY <2>6 DEF vars
  <2> QED
      BY <1>1, <2>1, <2>2, <2>3, <2>4, <2>5, <2>6
         DEF Next, Construct, Open, Close, Destroy, MoveAssign, MoveConstruct,
             CallClose, Take, Die
<1>2. Spec => [][Next]_vars
    BY DEF Spec
<1> QED
    BY <1>1, <1>2, Invariance, PTL DEF OthersUntouched
=============================================================================
