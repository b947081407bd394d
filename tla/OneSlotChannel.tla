--------------------------- MODULE OneSlotChannel ---------------------------
(***************************************************************************)
(* What a one-place producer/consumer buffer promises: the items 1..Last   *)
(* pass through one slot, each put only into an empty slot and each taken  *)
(* exactly once, in order.  CondBuffer and SemBuffer implement it.         *)
(***************************************************************************)
EXTENDS Naturals, Sequences

CONSTANT Last   \* the number of items

VARIABLES slot, \* the item in the buffer, 0 when there is none
          out   \* the items taken so far

Init == slot = 0 /\ out = <<>>

Put ==
  /\ slot = 0
  /\ Len(out) < Last
  /\ slot' = Len(out) + 1
  /\ UNCHANGED out

Take ==
  /\ slot # 0
  /\ out' = Append(out, slot)
  /\ slot' = 0

Next == Put \/ Take

Spec == Init /\ [][Next]_<<slot, out>>

LiveSpec == Spec /\ WF_<<slot, out>>(Next)
=============================================================================
