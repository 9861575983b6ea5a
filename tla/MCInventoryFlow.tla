--------------------------- MODULE MCInventoryFlow ---------------------------
(* Model values for InventoryFlow. *)
EXTENDS InventoryFlow, TLC

CONSTANTS l1, l2, w1, r1, i1, i2, o1, o2, d1, d2, p1, p2

MCLots == {l1, l2}
MCLines == {i1, i2}
MCOneLine == {i1}
MCUnitQty == [i \in MCLines |-> 1]
MCOrders == {o1, o2}
MCDates == {d1, d2}
MCOneDate == {d1}
MCProposals == {p1, p2}
MCUnitDemand == [o \in MCOrders |-> 1]
MCRank == [l \in MCLots |-> IF l = l1 THEN 1 ELSE 2]

Symmetry == Permutations(MCOrders) \cup Permutations(MCProposals)
                \cup Permutations(MCLines) \cup Permutations(MCDates)
=============================================================================
