-------------------------------- MODULE Fifo --------------------------------
(***************************************************************************)
(* What queue_test/queue.c promises its callers: an unbounded first-in     *)
(* first-out queue whose delete on an empty queue does nothing.            *)
(***************************************************************************)
EXTENDS Sequences

CONSTANT Data

VARIABLE q

Init == q = <<>>

Insert == \E d \in Data : q' = Append(q, d)

Delete == q # <<>> /\ q' = Tail(q)

Next == Insert \/ Delete

Spec == Init /\ [][Next]_q
=============================================================================
