----------------------------- MODULE MCBufRing ------------------------------
(***************************************************************************)
(* An instance of BufRing for TLC: as many buffers as slots, so the ring   *)
(* is full when the application holds none, and a tail that wraps after    *)
(* two turns of the ring.                                                  *)
(***************************************************************************)
EXTENDS BufRing, TLC

BufferSymmetry == Permutations(Bids)
=============================================================================
