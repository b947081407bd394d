---------------------------- MODULE MCSemBuffer ----------------------------
(* The program with a few items more than its own ten.                      *)
EXTENDS SemBuffer
=============================================================================
