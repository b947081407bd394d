---------------------------- MODULE MCMeterReader ----------------------------
(* Frames of three bytes (state, 0x5A and the rest) from a meter whose       *)
(* counter overflows at two pulses.                                           *)
EXTENDS MeterReader

\* What a frame reports: the state, the channels in error and with new samples, one
\* period for all channels, and the power coefficient.
Says(head, bad, new, t, k) ==
  [head |-> head, bad |-> bad, new |-> new, t |-> [c \in Channels |-> t], k |-> k]

All == Says("normal", {}, Channels, 1, 2)
NoPower == Says("normal", {}, {"V", "I"}, 3, 2)
Uncalibrated == Says("uncalibrated", {}, {}, 1, 2)
Overload == Says("fault", {"P"}, {"V"}, 2, 2)

MCReadings == <<{All}, {NoPower, Uncalibrated, Overload}, {All}>>
=============================================================================
