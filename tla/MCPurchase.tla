----------------------------- MODULE MCPurchase -----------------------------
(* Small instances of Purchase: three levels, thresholds 0, 1 and 3.       *)
EXTENDS Purchase, TLC

MCLevels == {"NORMAL", "BRONZE", "SILVER"}
MCThresholds == [l \in MCLevels |-> CASE l = "NORMAL" -> 0 [] l = "BRONZE" -> 1 [] OTHER -> 3]

Symmetry == Permutations(Slots) \cup Permutations(Invoices)
SymmetryTwo == Permutations(Slots) \cup Permutations(Invoices) \cup Permutations(Purchases)
=============================================================================
