------------------------- MODULE RingRegistryProofs -------------------------
(***************************************************************************)
(* For any number of rings, descriptors, indexes and buffer groups: every  *)
(* number is owned by the ring that stores it, system calls reach the ring *)
(* they are made on, what the kernel holds is what the program meant, and  *)
(* buffer rings are whole.                                                 *)
(*                                                                         *)
(* The heart of it is Reaches: under the invariant a call that reaches any *)
(* of the rings reaches the object's own.                                  *)
(***************************************************************************)
EXTENDS RingRegistry, TLAPS

\* How the flags and the fields of an object go together.
Flags ==
  /\ \A r \in Rings : r \in reg_ring => enterfd[r] \in Indexes
  /\ \A r \in Rings : r \notin reg_ring => enterfd[r] = ringfd[r]
  /\ \A r \in live : ringfd[r] = -1 => reg_reg
  /\ \A r \in reg_ring : r \in reg_reg_ring <=> reg_reg
  /\ \A r \in Rings : r \notin live => ringfd[r] = -1

Numbers == TypeOK /\ NumbersOwned /\ Flags

\* A setup_buf_ring between its system calls has registered its group and
\* can still reach the ring.
InSetup ==
  pc = "map" => /\ group \in groups[this] /\ maps[this][group] = NoRing
                /\ ringfd[this] # -1 \/ this \in reg_ring

Whole(r, g) == maps[r][g] = IF g \in groups[r] THEN r ELSE NoRing

WholeElsewhere ==
  \A r \in Rings, g \in Groups :
    (pc = "map" /\ this = r /\ group = g) \/ Whole(r, g)

IInv == Numbers /\ table = meant /\ InSetup /\ WholeElsewhere

-----------------------------------------------------------------------------
\* -1 is not a number the kernel hands out.
LEMMA NoNumber == -1 \notin Fds /\ -1 \notin Indexes
BY RegistryAssumption

\* A number that reaches a ring reaches the object that stores it.
LEMMA Reaches ==
  ASSUME Numbers, NEW r \in live
  PROVE  /\ FdRing(ringfd[r]) = IF ringfd[r] # -1 THEN r ELSE NoRing
         /\ r \in reg_ring => RegRing(enterfd[r]) = r
<1>1. r \in Rings /\ ringfd[r] \in Fds \cup {-1} /\ live \subseteq Rings
    BY DEF Numbers, TypeOK
<1>2. ringfd[r] # -1 => fds[ringfd[r]] = r
    BY <1>1 DEF Numbers, NumbersOwned
<1>3. r \in reg_ring => enterfd[r] \in Indexes /\ regs[enterfd[r]] = r
    BY <1>1 DEF Numbers, NumbersOwned, Flags
<1> QED
    BY <1>1, <1>2, <1>3, NoNumber DEF FdRing, RegRing

\* Under the invariant, CallsReach holds.
LEMMA NumbersReach == Numbers => CallsReach
<1> SUFFICES ASSUME Numbers, NEW r \in live
             PROVE  LET Expect(reachable) == IF reachable THEN r ELSE NoRing
                        number == ringfd[r] # -1 \/ r \in reg_ring
                    IN  /\ EnterTarget(r) = Expect(number)
                        /\ RegisterTarget(r) = Expect(number)
                        /\ \A flag \in BOOLEAN :
                             SourceTarget(r, flag) =
                               Expect(ringfd[r] # -1 \/ (flag /\ r \in reg_reg_ring))
    BY DEF CallsReach
<1>1. /\ FdRing(ringfd[r]) = IF ringfd[r] # -1 THEN r ELSE NoRing
      /\ r \in reg_ring => RegRing(enterfd[r]) = r
    BY Reaches
<1>2. /\ r \in Rings
      /\ reg_reg_ring \subseteq reg_ring
      /\ r \notin reg_ring => enterfd[r] = ringfd[r]
      /\ r \in reg_ring /\ r \notin reg_reg_ring => ringfd[r] # -1
    BY DEF Numbers, TypeOK, Flags
<1> QED
    BY <1>1, <1>2 DEF EnterTarget, RegisterTarget, SourceTarget

\* A wrapper's call that reaches a ring reaches its own, and the source of a
\* clone is the one named.
LEMMA OwnTarget ==
  ASSUME Numbers, NEW r \in live
  PROVE  /\ FdRing(ringfd[r]) \in Rings => FdRing(ringfd[r]) = r /\ ringfd[r] # -1
         /\ RegisterTarget(r) \in Rings => RegisterTarget(r) = r
         /\ ringfd[r] # -1 \/ r \in reg_ring => RegisterTarget(r) = r
         /\ \A flag \in BOOLEAN :
              SourceTarget(r, flag) \in Rings => SourceTarget(r, flag) = r
<1>1. CallsReach
    BY NumbersReach
<1>2. FdRing(ringfd[r]) = IF ringfd[r] # -1 THEN r ELSE NoRing
    BY Reaches
<1> QED
    BY <1>1, <1>2, RegistryAssumption DEF CallsReach

-----------------------------------------------------------------------------
(* The numbers.  Steps of the tables and the buffer rings leave them alone.*)

LEMMA InitNumbers == Init => Numbers
<1> SUFFICES ASSUME Init PROVE Numbers
    OBVIOUS
<1>1. TypeOK
    BY DEF Init, TypeOK, Holder
<1>2. NumbersOwned
    BY NoNumber, RegistryAssumption DEF Init, NumbersOwned
<1>3. Flags
    BY DEF Init, Flags
<1> QED
    BY <1>1, <1>2, <1>3 DEF Numbers

\* A new ring takes a free number.
LEMMA OpenNumbers ==
  ASSUME Numbers, NEW r \in Rings, NEW f \in Fds, Open(r, f)
  PROVE  Numbers'
<1> USE DEF Numbers
<1>1. /\ r \notin live /\ fds[f] = NoRing
      /\ fds' = [fds EXCEPT ![f] = r] /\ live' = live \cup {r}
      /\ ringfd' = [ringfd EXCEPT ![r] = f]
      /\ enterfd' = [enterfd EXCEPT ![r] = f]
      /\ UNCHANGED <<reg_reg, reg_ring, reg_reg_ring, regs>>
    BY DEF Open
<1>2. TypeOK'
    BY <1>1 DEF Open, TypeOK, Holder, tables, buffers
<1>3. r \notin reg_ring /\ ringfd[r] = -1
    BY <1>1 DEF TypeOK, Flags
<1>4. NumbersOwned'
    BY <1>1, <1>3, NoNumber, RegistryAssumption DEF NumbersOwned, TypeOK
<1>5. Flags'
    BY <1>1, <1>3, NoNumber DEF Flags, TypeOK
<1> QED
    BY <1>2, <1>4, <1>5

\* Registering: the index goes to the ring behind the descriptor passed,
\* which is the object's own.
LEMMA RegisterNumbers ==
  ASSUME Numbers, NEW r \in Rings, NEW i \in Indexes, RegisterRingFd(r, i)
  PROVE  Numbers'
<1> USE DEF Numbers
<1>1. r \in live /\ r \notin reg_ring
    BY DEF RegisterRingFd, Idle
<1>2. FdRing(ringfd[r]) = r /\ ringfd[r] # -1
    BY <1>1, OwnTarget DEF RegisterRingFd
<1>3. /\ regs[i] = NoRing /\ regs' = [regs EXCEPT ![i] = r]
      /\ enterfd' = [enterfd EXCEPT ![r] = i]
      /\ reg_ring' = reg_ring \cup {r}
      /\ reg_reg_ring' = IF reg_reg THEN reg_reg_ring \cup {r} ELSE reg_reg_ring
      /\ UNCHANGED <<reg_reg, live, ringfd, fds>>
    BY <1>2 DEF RegisterRingFd
<1>4. TypeOK'
    BY <1>1, <1>3 DEF RegisterRingFd, TypeOK, Holder, tables, buffers
<1>5. NumbersOwned'
    BY <1>1, <1>3, RegistryAssumption DEF NumbersOwned, TypeOK
<1>6. Flags'
    BY <1>1, <1>3 DEF Flags, TypeOK
<1> QED
    BY <1>4, <1>5, <1>6

\* Releasing a number a ring owns leaves every other ring's numbers.
LEMMA UnregisterNumbers ==
  ASSUME Numbers, NEW r \in Rings, UnregisterRingFd(r)
  PROVE  Numbers'
<1> USE DEF Numbers
<1>1. /\ r \in live /\ r \in reg_ring
      /\ regs' = Freed(regs, enterfd[r])
      /\ enterfd' = [enterfd EXCEPT ![r] = ringfd[r]]
      /\ reg_ring' = reg_ring \ {r} /\ reg_reg_ring' = reg_reg_ring \ {r}
      /\ UNCHANGED <<reg_reg, live, ringfd, fds>>
    BY DEF UnregisterRingFd, Idle
<1>2. enterfd[r] \in Indexes /\ regs[enterfd[r]] = r
    BY <1>1 DEF Flags, NumbersOwned
<1>3. /\ regs' \in [Indexes -> Holder]
      /\ regs'[enterfd[r]] = NoRing
      /\ \A i \in Indexes : i # enterfd[r] => regs'[i] = regs[i]
    BY <1>1, <1>2 DEF Freed, TypeOK, Holder
<1>4. TypeOK'
    BY <1>1, <1>3 DEF UnregisterRingFd, TypeOK, tables, buffers
<1>5. NumbersOwned'
    BY <1>1, <1>2, <1>3, RegistryAssumption DEF NumbersOwned, TypeOK
<1>6. Flags'
    BY <1>1 DEF Flags, TypeOK
<1> QED
    BY <1>4, <1>5, <1>6

LEMMA CloseNumbers ==
  ASSUME Numbers, NEW r \in Rings, CloseRingFd(r)
  PROVE  Numbers'
<1> USE DEF Numbers
<1>1. /\ r \in live /\ reg_reg /\ r \in reg_ring /\ ringfd[r] >= 0
      /\ fds' = Freed(fds, ringfd[r])
      /\ ringfd' = [ringfd EXCEPT ![r] = -1]
      /\ UNCHANGED <<reg_reg, live, enterfd, reg_ring, reg_reg_ring, regs>>
    BY DEF CloseRingFd, Idle
<1>2. ringfd[r] \in Fds /\ fds[ringfd[r]] = r
    BY <1>1 DEF TypeOK, NumbersOwned
<1>3. /\ fds' \in [Fds -> Holder]
      /\ fds'[ringfd[r]] = NoRing
      /\ \A f \in Fds : f # ringfd[r] => fds'[f] = fds[f]
    BY <1>1, <1>2 DEF Freed, TypeOK, Holder
<1>4. TypeOK'
    BY <1>1, <1>3 DEF CloseRingFd, TypeOK, tables, buffers
<1>5. NumbersOwned'
    BY <1>1, <1>2, <1>3, NoNumber, RegistryAssumption DEF NumbersOwned, TypeOK
<1>6. Flags'
    BY <1>1 DEF Flags, TypeOK
<1> QED
    BY <1>4, <1>5, <1>6

\* The destructor releases what the object still has, and only that: a
\* descriptor closed before has left -1 behind.
LEMMA DestroyNumbers ==
  ASSUME Numbers, NEW r \in Rings, Destroy(r)
  PROVE  Numbers'
<1> USE DEF Numbers
<1>1. /\ r \in live
      /\ regs' = IF r \in reg_ring /\ RegisterTarget(r) \in Rings
                 THEN Freed(regs, enterfd[r]) ELSE regs
      /\ fds' = Freed(fds, ringfd[r])
      /\ live' = live \ {r}
      /\ ringfd' = [ringfd EXCEPT ![r] = -1]
      /\ enterfd' = [enterfd EXCEPT ![r] = -1]
      /\ reg_ring' = reg_ring \ {r} /\ reg_reg_ring' = reg_reg_ring \ {r}
      /\ UNCHANGED reg_reg
    BY DEF Destroy, Idle
<1>2. r \in reg_ring => RegisterTarget(r) \in Rings
    BY <1>1, OwnTarget
<1>3. /\ fds' \in [Fds -> Holder]
      /\ \A f \in Fds : fds'[f] = IF f = ringfd[r] THEN NoRing ELSE fds[f]
    BY <1>1 DEF Freed, TypeOK, Holder
<1>4. /\ regs' \in [Indexes -> Holder]
      /\ \A i \in Indexes :
           regs'[i] = IF r \in reg_ring /\ i = enterfd[r] THEN NoRing ELSE regs[i]
    BY <1>1, <1>2 DEF Freed, TypeOK, Holder
<1>5. TypeOK'
  <2>1. /\ table' \in [Rings -> Contents \cup {Empty}]
        /\ meant' \in [Rings -> Contents \cup {Empty}]
        /\ groups' \in [Rings -> SUBSET Groups]
        /\ maps' \in [Rings -> [Groups -> Rings \cup {NoRing}]]
      BY DEF Destroy, TypeOK
  <2>2. pc' = "idle" /\ this' \in Rings /\ group' \in Groups
      BY DEF Destroy, Idle, TypeOK
  <2>3. /\ ringfd' \in [Rings -> Fds \cup {-1}]
        /\ enterfd' \in [Rings -> Fds \cup Indexes \cup {-1}]
        /\ live' \subseteq Rings /\ reg_reg_ring' \subseteq reg_ring'
        /\ reg_ring' \subseteq live' /\ reg_reg' \in BOOLEAN
      BY <1>1 DEF TypeOK
  <2> QED
      BY <1>3, <1>4, <2>1, <2>2, <2>3 DEF TypeOK
<1>6. NumbersOwned'
  <2>1. \A s \in Rings : ringfd'[s] = IF s = r THEN -1 ELSE ringfd[s]
      BY <1>1 DEF TypeOK
  <2>2. ASSUME NEW s \in Rings, NEW f \in Fds PROVE fds'[f] = s <=> ringfd'[s] = f
      BY <1>1, <1>3, <2>1, NoNumber, RegistryAssumption DEF NumbersOwned
  <2>3. ASSUME NEW s \in Rings, NEW i \in Indexes
        PROVE  regs'[i] = s <=> s \in reg_ring' /\ enterfd'[s] = i
      BY <1>1, <1>4, RegistryAssumption DEF NumbersOwned, TypeOK
  <2> QED
      BY <2>2, <2>3 DEF NumbersOwned
<1>7. Flags'
    BY <1>1 DEF Flags, TypeOK
<1> QED
    BY <1>5, <1>6, <1>7

\* The rest of the process takes and returns numbers that are nobody's here.
LEMMA OthersNumbers ==
  ASSUME Numbers, Others
  PROVE  Numbers'
<1> USE DEF Numbers
<1>1. UNCHANGED <<reg_reg, live, fields, tables, buffers>>
    BY DEF Others
<1>2. /\ fds' \in [Fds -> Holder] /\ regs' \in [Indexes -> Holder]
      /\ \A f \in Fds, r \in Rings : fds'[f] = r <=> fds[f] = r
      /\ \A i \in Indexes, r \in Rings : regs'[i] = r <=> regs[i] = r
    BY RegistryAssumption DEF Others, TypeOK, Holder
<1>3. TypeOK'
    BY <1>1, <1>2 DEF TypeOK, fields, tables, buffers
<1>4. NumbersOwned'
    BY <1>1, <1>2 DEF NumbersOwned, fields
<1>5. Flags'
    BY <1>1 DEF Flags, fields
<1> QED
    BY <1>3, <1>4, <1>5

\* The numbers stay owned, whatever the program does.
LEMMA NumberStep ==
  ASSUME IInv, [Next]_vars
  PROVE  Numbers'
<1> USE DEF IInv
<1>1. CASE NumberNext
    BY <1>1, OpenNumbers, RegisterNumbers, UnregisterNumbers, CloseNumbers,
       DestroyNumbers, OthersNumbers DEF NumberNext
<1>2. ASSUME UNCHANGED <<reg_reg, live, numbers>>, TypeOK'
      PROVE  Numbers'
    BY <1>2 DEF Numbers, NumbersOwned, Flags, numbers, fields
<1>3. CASE TableNext
  <2>1. UNCHANGED <<reg_reg, live, numbers, buffers>>
      BY <1>3 DEF TableNext, Register, Update, Unregister, CloneBuffers, SetTable
  <2>2. /\ table' \in [Rings -> Contents \cup {Empty}]
        /\ meant' \in [Rings -> Contents \cup {Empty}]
    <3>1. PICK r \in Rings :
            \/ \E c \in Contents : Register(r, c) \/ Update(r, c)
            \/ Unregister(r)
            \/ \E s \in Rings, flag \in BOOLEAN : CloneBuffers(r, s, flag)
        BY <1>3 DEF TableNext
    <3>2. ASSUME NEW k \in Contents \cup {Empty}, NEW m \in Contents \cup {Empty},
                 NEW t \in Rings,
                 table' = [table EXCEPT ![t] = k], meant' = [meant EXCEPT ![r] = m]
          PROVE  /\ table' \in [Rings -> Contents \cup {Empty}]
                 /\ meant' \in [Rings -> Contents \cup {Empty}]
        BY <3>2 DEF Numbers, TypeOK
    <3>3. CASE \E c \in Contents : Register(r, c) \/ Update(r, c)
        BY <3>2, <3>3 DEF Register, Update, SetTable
    <3>4. CASE Unregister(r)
        BY <3>2, <3>4 DEF Unregister, SetTable
    <3>5. ASSUME NEW s \in Rings, NEW flag \in BOOLEAN, CloneBuffers(r, s, flag)
          PROVE  /\ table' \in [Rings -> Contents \cup {Empty}]
                 /\ meant' \in [Rings -> Contents \cup {Empty}]
      <4>1. /\ table[SourceTarget(s, flag)] \in Contents \cup {Empty}
            /\ meant[s] \in Contents \cup {Empty}
          BY <3>5 DEF CloneBuffers, Numbers, TypeOK
      <4> QED
          BY <3>2, <3>5, <4>1 DEF CloneBuffers, SetTable
    <3> QED
        BY <3>1, <3>3, <3>4, <3>5
  <2>3. TypeOK'
      BY <2>1, <2>2 DEF Numbers, TypeOK, numbers, fields, buffers
  <2> QED
      BY <1>2, <2>1, <2>3
<1>4. CASE BufferNext
  <2>1. UNCHANGED <<reg_reg, live, numbers, tables>>
      BY <1>4 DEF BufferNext, SetupUser, SetupKernel, FreeBufRing, MapKernel, MapFail
  <2>2. groups' \in [Rings -> SUBSET Groups]
    <3>1. groups \in [Rings -> SUBSET Groups] /\ this \in Rings /\ group \in Groups
        BY DEF Numbers, TypeOK
    <3>2. ASSUME NEW r \in Rings, NEW g \in Groups, AddGroup(r, g) \/ DropGroup(r, g)
          PROVE  groups' \in [Rings -> SUBSET Groups]
        BY <3>1, <3>2 DEF AddGroup, DropGroup
    <3> QED
        BY <1>4, <3>1, <3>2 DEF BufferNext, SetupUser, SetupKernel, FreeBufRing,
                                MapKernel, MapFail
  <2>3. maps' \in [Rings -> [Groups -> Rings \cup {NoRing}]]
    <3>1. /\ maps \in [Rings -> [Groups -> Rings \cup {NoRing}]]
          /\ this \in Rings /\ group \in Groups
        BY DEF Numbers, TypeOK
    <3>2. ASSUME NEW r \in Rings, NEW g \in Groups, NEW h \in Rings \cup {NoRing},
                 maps' = [maps EXCEPT ![r][g] = h]
          PROVE  maps' \in [Rings -> [Groups -> Rings \cup {NoRing}]]
        BY <3>1, <3>2
    <3> QED
        BY <1>4, <3>1, <3>2 DEF BufferNext, SetupUser, SetupKernel, FreeBufRing,
                                MapKernel, MapFail
  <2>4. /\ pc' \in {"idle", "map"} /\ this' \in Rings /\ group' \in Groups
        /\ pc' = "map" => this' \in live
      BY <1>4 DEF BufferNext, SetupUser, SetupKernel, FreeBufRing, MapKernel,
                  MapFail, AddGroup, Idle, Numbers, TypeOK
  <2>5. TypeOK'
      BY <2>1, <2>2, <2>3, <2>4 DEF Numbers, TypeOK, numbers, fields, tables
  <2> QED
      BY <1>2, <2>1, <2>5
<1>5. CASE UNCHANGED vars
    BY <1>5 DEF vars, Numbers, TypeOK, NumbersOwned, Flags, numbers, fields,
                tables, buffers
<1> QED
    BY <1>1, <1>3, <1>4, <1>5 DEF Next

-----------------------------------------------------------------------------
(* The tables and the buffer rings.                                        *)

\* A table changes in the kernel and in the program's mind together.
LEMMA TableStep ==
  ASSUME IInv, [Next]_vars
  PROVE  table' = meant'
<1> USE DEF IInv
<1>1. /\ table = meant
      /\ table \in [Rings -> Contents \cup {Empty}]
      /\ live \subseteq Rings
    BY DEF Numbers, TypeOK
<1>2. CASE TableNext
  <2>1. PICK r \in Rings :
          \/ \E c \in Contents : Register(r, c) \/ Update(r, c)
          \/ Unregister(r)
          \/ \E s \in Rings, flag \in BOOLEAN : CloneBuffers(r, s, flag)
      BY <1>2 DEF TableNext
  <2>2. ASSUME Idle(r), RegisterTarget(r) \in Rings PROVE RegisterTarget(r) = r
      BY <2>2, OwnTarget DEF Idle
  <2>3. CASE \E c \in Contents : Register(r, c) \/ Update(r, c)
      BY <1>1, <2>2, <2>3 DEF Register, Update, SetTable
  <2>4. CASE Unregister(r)
      BY <1>1, <2>2, <2>4 DEF Unregister, SetTable
  <2>5. ASSUME NEW s \in Rings, NEW flag \in BOOLEAN, CloneBuffers(r, s, flag)
        PROVE  table' = meant'
    <3>1. SourceTarget(s, flag) = s
        BY <2>5, OwnTarget DEF CloneBuffers
    <3> QED
        BY <1>1, <2>2, <2>5, <3>1 DEF CloneBuffers, SetTable
  <2> QED
      BY <2>1, <2>3, <2>4, <2>5
<1>3. CASE NumberNext
    BY <1>1, <1>3 DEF NumberNext, Open, RegisterRingFd, UnregisterRingFd,
                      CloseRingFd, Destroy, Others, tables
<1>4. CASE BufferNext \/ UNCHANGED vars
    BY <1>1, <1>4 DEF BufferNext, SetupUser, SetupKernel, FreeBufRing, MapKernel,
                      MapFail, tables, vars
<1> QED
    BY <1>2, <1>3, <1>4 DEF Next

\* A set-up between its calls stays able to finish or to undo itself: no
\* other call is made, and nobody else can take the ring's numbers away.
LEMMA SetupStep ==
  ASSUME IInv, [Next]_vars
  PROVE  InSetup' /\ WholeElsewhere'
<1> USE DEF IInv
<1>0. /\ groups \in [Rings -> SUBSET Groups]
      /\ maps \in [Rings -> [Groups -> Rings \cup {NoRing}]]
      /\ this \in Rings /\ group \in Groups /\ live \subseteq Rings
      /\ pc = "map" => this \in live
      /\ pc \in {"idle", "map"}
    BY DEF Numbers, TypeOK
<1>1. ASSUME UNCHANGED <<ringfd, reg_ring, buffers>> PROVE InSetup' /\ WholeElsewhere'
    BY <1>1 DEF InSetup, WholeElsewhere, Whole, buffers
<1>2. ASSUME pc = "idle", UNCHANGED buffers PROVE InSetup' /\ WholeElsewhere'
    BY <1>2 DEF InSetup, WholeElsewhere, Whole, buffers
<1>3. CASE NumberNext
  <2>1. ASSUME NEW r \in Rings, Destroy(r) PROVE InSetup' /\ WholeElsewhere'
    <3>1. /\ pc = "idle" /\ pc' = "idle"
          /\ groups' = [groups EXCEPT ![r] = {}]
          /\ maps' = [maps EXCEPT ![r] = [g \in Groups |-> NoRing]]
        BY <2>1 DEF Destroy, Idle
    <3> QED
        BY <1>0, <3>1 DEF InSetup, WholeElsewhere, Whole
  <2>2. CASE Others
      BY <1>1, <2>2 DEF Others, fields
  <2>3. ASSUME NEW r \in Rings,
               \/ \E f \in Fds : Open(r, f)
               \/ \E i \in Indexes : RegisterRingFd(r, i)
               \/ UnregisterRingFd(r) \/ CloseRingFd(r)
        PROVE  InSetup' /\ WholeElsewhere'
      BY <1>2, <2>3 DEF Open, RegisterRingFd, UnregisterRingFd, CloseRingFd, Idle
  <2> QED
      BY <1>3, <2>1, <2>2, <2>3 DEF NumberNext
<1>4. CASE TableNext
    BY <1>2, <1>4 DEF TableNext, Register, Update, Unregister, CloneBuffers,
                      SetTable, Idle
<1>5. ASSUME NEW r \in Rings, NEW g \in Groups, AddGroup(r, g)
      PROVE  /\ pc = "idle" /\ r \in live /\ g \notin groups[r]
             /\ groups' = [groups EXCEPT ![r] = @ \cup {g}]
             /\ maps[r][g] = NoRing
             /\ ringfd[r] # -1 \/ r \in reg_ring
  <2>1. pc = "idle" /\ r \in live /\ RegisterTarget(r) = r
      BY <1>5, OwnTarget DEF AddGroup, Idle
  <2>2. ringfd[r] # -1 \/ r \in reg_ring
      BY <1>5, <2>1, NumbersReach, RegistryAssumption DEF AddGroup, CallsReach
  <2> QED
      BY <1>5, <2>1, <2>2 DEF AddGroup, WholeElsewhere, Whole
<1>6. ASSUME NEW r \in Rings, NEW g \in Groups, SetupUser(r, g)
      PROVE  InSetup' /\ WholeElsewhere'
  <2>1. /\ pc = "idle" /\ pc' = "idle"
        /\ groups' = [groups EXCEPT ![r] = @ \cup {g}]
        /\ maps' = [maps EXCEPT ![r][g] = r]
      BY <1>5, <1>6 DEF SetupUser
  <2> QED
      BY <1>0, <2>1 DEF InSetup, WholeElsewhere, Whole
<1>7. ASSUME NEW r \in Rings, NEW g \in Groups, SetupKernel(r, g)
      PROVE  InSetup' /\ WholeElsewhere'
  <2>1. /\ pc = "idle" /\ maps[r][g] = NoRing
        /\ groups' = [groups EXCEPT ![r] = @ \cup {g}]
        /\ ringfd[r] # -1 \/ r \in reg_ring
      BY <1>5, <1>7 DEF SetupKernel
  <2>2. /\ pc' = "map" /\ this' = r /\ group' = g
        /\ UNCHANGED <<maps, ringfd, reg_ring>>
      BY <1>7 DEF SetupKernel, numbers, fields
  <2> QED
      BY <1>0, <2>1, <2>2 DEF InSetup, WholeElsewhere, Whole
<1>8. CASE MapKernel
  <2>1. FdRing(ringfd[this]) = this
      BY <1>0, <1>8, OwnTarget DEF MapKernel
  <2>2. /\ pc' = "idle" /\ group \in groups[this]
        /\ maps' = [maps EXCEPT ![this][group] = this]
        /\ UNCHANGED groups
      BY <1>8, <2>1 DEF MapKernel
  <2> QED
      BY <1>0, <2>2 DEF InSetup, WholeElsewhere, Whole
<1>9. CASE MapFail
  <2>1. RegisterTarget(this) = this
      BY <1>0, <1>9, OwnTarget DEF MapFail, InSetup
  <2>2. /\ pc' = "idle" /\ pc = "map"
        /\ groups' = [groups EXCEPT ![this] = @ \ {group}]
        /\ UNCHANGED maps
      BY <1>0, <1>9, <2>1 DEF MapFail, DropGroup
  <2> QED
      BY <1>0, <2>2 DEF InSetup, WholeElsewhere, Whole
<1>10. ASSUME NEW r \in Rings, NEW g \in Groups, FreeBufRing(r, g)
       PROVE  InSetup' /\ WholeElsewhere'
  <2>1. pc = "idle" /\ RegisterTarget(r) = r
      BY <1>10, OwnTarget DEF FreeBufRing, Idle
  <2>2. /\ pc' = "idle"
        /\ groups' = [groups EXCEPT ![r] = @ \ {g}]
        /\ maps' = [maps EXCEPT ![r][g] = NoRing]
      BY <1>10, <2>1 DEF FreeBufRing, DropGroup
  <2> QED
      BY <1>0, <2>1, <2>2 DEF InSetup, WholeElsewhere, Whole
<1>11. CASE UNCHANGED vars
    BY <1>1, <1>11 DEF vars, numbers, fields
<1> QED
    BY <1>3, <1>4, <1>6, <1>7, <1>8, <1>9, <1>10, <1>11 DEF Next, BufferNext

-----------------------------------------------------------------------------
(* The theorems.                                                           *)

LEMMA InitIInv == Init => IInv
<1> SUFFICES ASSUME Init PROVE IInv
    OBVIOUS
<1>1. Numbers
    BY InitNumbers
<1>2. table = meant /\ InSetup /\ WholeElsewhere
    BY DEF Init, InSetup, WholeElsewhere, Whole
<1> QED
    BY <1>1, <1>2 DEF IInv

LEMMA StepIInv == IInv /\ [Next]_vars => IInv'
BY NumberStep, TableStep, SetupStep DEF IInv

\* The inductive invariant, from which the theorems follow.
LEMMA AlwaysIInv == Spec => []IInv
<1>1. Init => IInv
    BY InitIInv
<1>2. IInv /\ [Next]_vars => IInv'
    BY StepIInv
<1> QED
    BY <1>1, <1>2, PTL DEF Spec

\* Types of the objects' fields (io_uring.hpp:87-97) and of what the kernel
\* keeps.
THEOREM TypeCorrect == Spec => []TypeOK
<1>1. IInv => TypeOK
    BY DEF IInv, Numbers
<1> QED
    BY <1>1, AlwaysIInv, PTL

\* Registering, closing and destroying in any order leaves every number with
\* the ring that stores it (register.cpp:22-72, setup.cpp:35-46).
THEOREM EachNumberOwned == Spec => []NumbersOwned
<1>1. IInv => NumbersOwned
    BY DEF IInv, Numbers
<1> QED
    BY <1>1, AlwaysIInv, PTL

\* do_register, io_uring_enter and the source of a clone reach the object's
\* own ring as long as it has a number (register.cpp:9-20, 296-313).
THEOREM CallsReachTheirRing == Spec => []CallsReach
<1>1. IInv => CallsReach
    BY NumbersReach DEF IInv
<1> QED
    BY <1>1, AlwaysIInv, PTL

\* The register_* wrappers change the table of their own ring, and a clone
\* copies its source, whatever numbers were reused (register.cpp:74-313).
THEOREM TablesAreMeant == Spec => []TablesMeant
<1>1. IInv => TablesMeant
    BY DEF IInv, TablesMeant
<1> QED
    BY <1>1, AlwaysIInv, PTL

\* setup_buf_ring and free_buf_ring leave no group without its memory and no
\* memory without its group (buffer.cpp:8-75).
THEOREM BufRingsAreWhole == Spec => []BufRingWhole
<1>1. IInv => BufRingWhole
    BY DEF IInv, Numbers, TypeOK, BufRingWhole, WholeElsewhere, Whole
<1> QED
    BY <1>1, AlwaysIInv, PTL
=============================================================================
