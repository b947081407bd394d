----------------------------- MODULE MCEchoScan -----------------------------
(* Three clients of EchoScan: one sends a line in two pieces, one a line in *)
(* a single piece, one only connects.                                       *)
EXTENDS EchoScan

CONSTANTS c1, c2, c3

ThreeClients == {c1, c2, c3}
TwoThenOne == [c \in Clients |-> IF c = c1 THEN 2 ELSE 1]
OneOneNone == [c \in Clients |-> IF c = c3 THEN 0 ELSE 1]
=============================================================================
