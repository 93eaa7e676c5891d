----------------------------- MODULE MCIoUring ------------------------------
(***************************************************************************)
(* An instance of IoUring for TLC.                                         *)
(***************************************************************************)
EXTENDS IoUring

Submitting == {"submit", "submit_and_wait", "submit_and_get_events",
               "submit_and_wait_timeout"}
Reaping    == {"peek", "wait", "get_events"}
=============================================================================
