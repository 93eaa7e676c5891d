---------------------------- MODULE MCRingSetup -----------------------------
(***************************************************************************)
(* Instances of RingSetup for TLC: four places for mappings (a ring uses   *)
(* at most three at once, a probe one), two descriptors and two registered *)
(* indexes, so that a number given back can be reused and another granted. *)
(***************************************************************************)
EXTENDS RingSetup, TLC

PageSymmetry == Permutations(Pages)
=============================================================================
