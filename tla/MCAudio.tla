------------------------------- MODULE MCAudio ------------------------------
(* Audio for TLC: two streams that compete for one slot and, where TLC     *)
(* still manages, one more in another slot.                                *)
EXTENDS Audio, TLC

CONSTANTS out12, in12, s1, s2, s3

OneSlot == s1 :> out12 @@ s2 :> out12

TwoSlots == s1 :> out12 @@ s2 :> out12 @@ s3 :> in12

SameSlot == Permutations({s1, s2}) \cup Permutations(Files) \cup Permutations(Rates)
=============================================================================
