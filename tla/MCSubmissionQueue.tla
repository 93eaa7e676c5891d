------------------------- MODULE MCSubmissionQueue --------------------------
(***************************************************************************)
(* Instances of SubmissionQueue for TLC.  A ring of two slots is full      *)
(* after two get_sqe calls and reuses every slot; positions wrap after two *)
(* turns of the ring, so every distance is also met across the wrap.       *)
(***************************************************************************)
EXTENDS SubmissionQueue

AllCalls  == {"submit", "submit_and_wait", "submit_and_get_events",
              "submit_and_wait_timeout"}

\* The calls that look at IORING_SQ_NEED_WAKEUP.
WakingCalls == AllCalls \ {"submit_and_wait_timeout"}
=============================================================================
