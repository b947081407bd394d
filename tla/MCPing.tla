------------------------------- MODULE MCPing -------------------------------
(* Ping with the source's three packets and three calls. *)
EXTENDS Ping
=============================================================================
