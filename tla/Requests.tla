------------------------------ MODULE Requests ------------------------------
(***************************************************************************)
(* What a program may expect of io_uring as a whole: each request goes     *)
(* round one circle, and nothing else happens to it.                       *)
(*   idle -> prepared   the application filled an SQE for it               *)
(*   prepared -> running   the kernel took the SQE                         *)
(*   running -> done    the kernel posted its completion                   *)
(*   done -> idle       the application consumed the completion            *)
(***************************************************************************)
CONSTANT Reqs
VARIABLE phase

Advance(S, from, to) ==
  /\ S # {} /\ \A r \in S : phase[r] = from
  /\ phase' = [r \in Reqs |-> IF r \in S THEN to ELSE phase[r]]

Init == phase = [r \in Reqs |-> "idle"]

Next ==
  \/ \E r \in Reqs : \/ Advance({r}, "idle", "prepared")
                     \/ Advance({r}, "prepared", "running")
                     \/ Advance({r}, "running", "done")
  \/ \E S \in SUBSET Reqs : Advance(S, "done", "idle")

Spec == Init /\ [][Next]_phase
=============================================================================
