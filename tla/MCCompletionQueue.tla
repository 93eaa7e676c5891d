------------------------- MODULE MCCompletionQueue --------------------------
(***************************************************************************)
(* Instances of CompletionQueue for TLC: a ring of equal CQEs with every   *)
(* call, and one of mixed sizes that also carries internal timeouts.       *)
(***************************************************************************)
EXTENDS CompletionQueue

AllCalls == {"peek", "wait", "submit_and_wait_timeout", "batch", "each",
             "get_events"}

\* peek_batch_cqe and cq_advance count slots, so they are for rings whose
\* CQEs all take one.
MixedCalls == {"peek", "wait", "each"}
=============================================================================
