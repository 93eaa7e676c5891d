--------------------------- MODULE MCRingRegistry ---------------------------
(***************************************************************************)
(* An instance of RingRegistry for TLC.                                    *)
(***************************************************************************)
EXTENDS RingRegistry, TLC

RingSymmetry == Permutations(Rings) \cup Permutations(Contents)
=============================================================================
