-------------------------------- MODULE Echo --------------------------------
(* What an echo server promises: every client gets back the pieces it wrote, *)
(* its own, each once and in order, and nothing it has not written.          *)
EXTENDS Integers, Sequences

CONSTANTS Clients, LineLen

VARIABLES out,    \* how many pieces each client has written
          back    \* the pieces written back to it

vars == <<out, back>>

Init ==
  /\ out = [c \in Clients |-> 0]
  /\ back = [c \in Clients |-> <<>>]

Say(c) ==
  /\ out' = [out EXCEPT ![c] = @ + LineLen[c]]
  /\ UNCHANGED back

\* The next pieces, as many as the server has at hand.
Answer(c) ==
  \E k \in 1..(out[c] - Len(back[c])) :
    /\ back' = [back EXCEPT ![c] = @ \o [j \in 1..k |-> <<c, Len(back[c]) + j>>]]
    /\ UNCHANGED out

Next == \E c \in Clients : Say(c) \/ Answer(c)

Spec == Init /\ [][Next]_vars
=============================================================================
