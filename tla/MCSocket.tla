------------------------------ MODULE MCSocket -------------------------------
(***************************************************************************)
(* An instance of Socket for TLC: three objects, so that one can be moved  *)
(* into another that holds a descriptor while a third exists, and three    *)
(* descriptors, so that numbers run out and are reused.                    *)
(***************************************************************************)
EXTENDS Socket, TLC

ObjectSymmetry == Permutations(Objs)
=============================================================================
