-------------------------------- MODULE FIFO --------------------------------
(***************************************************************************)
(* What a single-producer single-consumer queue promises: the items 1, 2,  *)
(* ... that one thread enqueues come out of it in that order, each once,   *)
(* and never more than Capacity are inside.                                *)
(***************************************************************************)
EXTENDS Integers, Sequences

VARIABLES
    Capacity,  \* never changes
    q,         \* what is inside
    got        \* what came out

Init == Capacity \in Nat /\ q = <<>> /\ got = <<>>

Enqueue == /\ Len(q) < Capacity
           /\ q' = Append(q, Len(got) + Len(q) + 1)
           /\ UNCHANGED <<Capacity, got>>

Dequeue == /\ q # <<>>
           /\ got' = Append(got, Head(q))
           /\ q' = Tail(q)
           /\ UNCHANGED Capacity

Spec == Init /\ [][Enqueue \/ Dequeue]_<<Capacity, q, got>>
=============================================================================
