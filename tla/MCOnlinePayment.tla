--------------------------- MODULE MCOnlinePayment ---------------------------
(* Model values for OnlinePayment. *)
EXTENDS OnlinePayment, TLC

CONSTANTS o1, o2, w1, w2, t1, t2

MCOrders == {o1, o2}
MCOneWorker == {w1}
MCTwoWorkers == {w1, w2}
MCTxns == {t1, t2}
MCUnreferenced == {t2}

Symmetry ==
    Permutations(MCOrders) \cup Permutations(MCTwoWorkers)
=============================================================================
