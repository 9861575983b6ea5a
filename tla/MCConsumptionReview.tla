------------------------- MODULE MCConsumptionReview -------------------------
(* Model values for ConsumptionReview. *)
EXTENDS ConsumptionReview, TLC

CONSTANTS l1, w1, w2, o1, o2, d1, p1, p2

MCLots == {l1}
MCOneWorker == {w1}
MCTwoWorkers == {w1, w2}
MCOrders == {o1, o2}
MCProposals == {p1, p2}
MCDates == {d1}
MCUnit == [o \in MCOrders |-> 1]
MCRank == [l \in MCLots |-> 1]

Symmetry ==
    Permutations(MCTwoWorkers) \cup Permutations(MCProposals) \cup Permutations(MCOrders)
=============================================================================
