--------------------------- MODULE MCSellRequest ---------------------------
(* Small instances of SellRequest: two levels, the second from one on.     *)
EXTENDS SellRequest, TLC

MCLevels == {"NORMAL", "BRONZE"}
MCThresholds == [l \in MCLevels |-> IF l = "NORMAL" THEN 0 ELSE 1]

Symmetry == Permutations(Slots) \cup Permutations(Requests)
=============================================================================
