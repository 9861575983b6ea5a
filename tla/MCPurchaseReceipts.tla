-------------------------- MODULE MCPurchaseReceipts --------------------------
(* Model values for PurchaseReceipts. *)
EXTENDS PurchaseReceipts, TLC

CONSTANTS l1, l2, w1, w2, r1, i1, i2, i3

MCLots == {l1, l2}
MCTwoWorkers == {w1, w2}
MCLines == {i1, i2, i3}
MCUnitQty == [i \in MCLines |-> 1]

Symmetry ==
    Permutations(MCLots) \cup Permutations(MCTwoWorkers) \cup Permutations(MCLines)
=============================================================================
