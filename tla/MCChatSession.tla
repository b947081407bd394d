--------------------------- MODULE MCChatSession ----------------------------
(* An instance of ChatSession.  alice and bob are registered at the start,   *)
(* carol is not.  dave's name has a quote in it and erin's is too long.      *)
EXTENDS ChatSession, TLC

CONSTANTS s1, s2, alice, bob, carol, dave, erin, secret, guess, n1, n2

TwoSessions == {s1, s2}
TwoNames == {alice, bob}
AllNames == {alice, bob, carol, dave, erin}
LongName == {erin}
WithQuote == {dave}
TwoPasswords == {secret, guess}
TwoNodes == {n1, n2}
TwoKnown == [u \in Names |-> IF u \in TwoNames THEN secret ELSE NoPassword]

Everything == {"register", "login"} \cup ChatKinds

\* With TwoKnown only the two registered names are interchangeable.
Twins == Permutations(TwoSessions) \cup Permutations(TwoNames) \cup Permutations(TwoNodes)
=============================================================================
