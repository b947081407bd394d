--------------------------- MODULE MCChatDispatch ---------------------------
(* Up to three clients against two slots; descriptors start at 3, the       *)
(* first one after the standard streams.  One pthread_create per accepted    *)
(* connection at most, so as many threads as connections are enough.         *)
EXTENDS ChatDispatch, TLC

CONSTANTS c1, c2, c3, t1, t2, t3

TwoConns == {c1, c2}
ThreeConns == {c1, c2, c3}
TwoThreads == {t1, t2}
ThreeThreads == {t1, t2, t3}

Interchangeable == Permutations(ThreeConns) \cup Permutations(ThreeThreads)
=============================================================================
