----------------------------- MODULE MCOrderPricing -----------------------------
(* Model values for OrderPricing. *)
EXTENDS OrderPricing

MCCatalogues ==
    LET fee(n, each) == [amount |-> n, perCookie |-> each]
    IN  {[price |-> 125, pack |-> fee(10, TRUE), catering |-> fee(50, FALSE)],
         [price |-> 130, pack |-> fee(0, FALSE), catering |-> fee(20, TRUE)]}
MCAreas == {[fee |-> 300, pickup |-> FALSE], [fee |-> 0, pickup |-> TRUE]}
MCTaxRates == {[percent |-> 0, fixed |-> 0], [percent |-> 15, fixed |-> 20]}
MCOffers == {[percentage |-> TRUE, value |-> 10], [percentage |-> FALSE, value |-> 500]}
=============================================================================
