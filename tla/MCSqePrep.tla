------------------------------ MODULE MCSqePrep -----------------------------
(***************************************************************************)
(* An instance of SqePrep for TLC.  The helpers are all those of the       *)
(* header, and two requests in a row, whatever they are, already leave in  *)
(* the slot all that any number of them can leave.                         *)
(***************************************************************************)
EXTENDS SqePrep
=============================================================================
