---------------------------- MODULE MCEchoEpoll -----------------------------
(* Two clients of EchoEpoll: one sends two lines in two pieces each, one two *)
(* lines in one piece each.                                                  *)
EXTENDS EchoEpoll

CONSTANTS c1, c2

TwoClients == {c1, c2}
TwoThenOne == [c \in Clients |-> IF c = c1 THEN 2 ELSE 1]
TwoEach == [c \in Clients |-> 2]
=============================================================================
