---------------------------- MODULE MCLinkQueue ----------------------------
(* A heap of five addresses, the header included, and two element values.   *)
EXTENDS LinkQueue, TLC

CONSTANTS n1, n2, n3, n4, n5

MCNodes == {n1, n2, n3, n4, n5}

Addresses == Permutations(MCNodes)
=============================================================================
