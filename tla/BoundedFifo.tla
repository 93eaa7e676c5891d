---------------------------- MODULE BoundedFifo -----------------------------
(***************************************************************************)
(* What a ring promises, without a ring: a bounded queue.  Entries leave   *)
(* it in the order they entered, each exactly once, unchanged, and none    *)
(* enters a queue that is full.  `out' is the batch that left last.        *)
(***************************************************************************)
EXTENDS Naturals, Sequences

CONSTANTS Value,      \* what may be put into the queue
          Capacity    \* how many entries it holds

VARIABLES queue, out

vars == <<queue, out>>

Init == /\ queue = << >>
        /\ out = << >>

Enqueue(v) == /\ Len(queue) < Capacity
              /\ queue' = Append(queue, v)
              /\ UNCHANGED out

Dequeue(k) == /\ out' = SubSeq(queue, 1, k)
              /\ queue' = SubSeq(queue, k + 1, Len(queue))

Next == \/ \E v \in Value : Enqueue(v)
        \/ \E k \in 0 .. Len(queue) : Dequeue(k)

Spec == Init /\ [][Next]_vars
=============================================================================
