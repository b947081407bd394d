---------------------------- MODULE MCCondBuffer ----------------------------
(* One producer and two consumers, as main of cond_test.c creates them.     *)
EXTENDS CondBuffer

CONSTANTS pro, con1, con2

MCConsumers == {con1, con2}
=============================================================================
