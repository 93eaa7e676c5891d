------------------------------ MODULE MCLayout ------------------------------
(***************************************************************************)
(* Instances of RingLayout and RecvMsg for TLC, one at a time: the other   *)
(* rests at a stage from which it takes no step.                           *)
(*                                                                         *)
(* The sizes of the rings are those where something changes: the smallest, *)
(* one page of SQEs, one page of the SQ array, the largest, and their      *)
(* neighbours.                                                             *)
(***************************************************************************)
EXTENDS RingLayout, RecvMsg

SqSizes == {0, 1, 2, 3, 55, 60, 61, 64, 65, 512, 513, 1024, 8192, 8193, 16384,
            32767, 32768, 32769}
CqSizes == {0, 1, 2, 100, 128, 1024, 16384, 65536, 65537}

\* One byte short and just enough, without and with the array of 1024 and of
\* 32768 entries.
Spare == {-1, 0, 63, 64, 127039, 127040}

LayoutRests ==
  /\ asked = [no_mmap |-> FALSE] /\ stage = "none"
  /\ sizes = << >> /\ at = -1 /\ params = NoParams

ReceiveRests ==
  /\ namelen = 0 /\ controllen = 0 /\ written = << >> /\ used = 0
  /\ buf_len = 0 /\ cmsg = -1 /\ visited = << >> /\ phase = "none"

Init == \/ LayoutInit /\ ReceiveRests
        \/ ReceiveInit /\ LayoutRests

Next == \/ LayoutNext /\ UNCHANGED receiveVars
        \/ ReceiveNext /\ UNCHANGED layoutVars

Spec == Init /\ [][Next]_<<layoutVars, receiveVars>>
=============================================================================
