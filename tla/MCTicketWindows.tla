-------------------------- MODULE MCTicketWindows --------------------------
(* Four windows, as in main of mutex_test.c.                                *)
EXTENDS TicketWindows

CONSTANTS w1, w2, w3, w4

MCWindows == {w1, w2, w3, w4}
=============================================================================
