---------------------------- MODULE ProductionDemand ----------------------------
(***************************************************************************)
(* What the orders of one delivery date need                               *)
(* (app/services/production_planning_service.py; the packaging of orders   *)
(* to be consumed: consumption_demand_service.py).  One cookie, made of    *)
(* flour, and one packaging item.                                          *)
(***************************************************************************)
EXTENDS Integers, FiniteSets, Functions

CONSTANTS
    POrders,      \* orders that are or may be scheduled for the date
    Contents,     \* [POrders -> [cookies, packs, charged]], what was ordered;
                  \* charged: its collection line has a package fee
    Recipes,      \* flour, in 0.0001 units, of one yield; 0: no recipe yet
    Yield         \* cookies of one yield

ASSUME DemandAssumption ==
    /\ IsFiniteSet(POrders)
    /\ Contents \in [POrders -> [cookies : Nat, packs : Nat, charged : BOOLEAN]]
    /\ Recipes \subseteq Nat
    /\ Yield \in Nat \ {0}

(* PENDING, CONFIRMED, PREPARING and READY are open; DRAFT and CANCELLED    *)
(* are excluded, as is an order of another date.                            *)
OrderStatuses == {"excluded", "open", "delivered"}

(* _production_orders, by the statuses of the orders *)
StillToMake(status) == {o \in POrders : status[o] = "open"}   \* mutant: delivered left out

Production(status) == {o \in POrders : status[o] # "excluded"}

(* _build_product_demand, then _build_ingredient_requirements: the sum over *)
(* the orders is scaled and rounded half to even, once for each call.       *)
Cookies(O) == SumFunctionOnSet([o \in POrders |-> Contents[o].cookies], O)

QuantizeQty(n, d) ==
    LET q == n \div d
        r == n % d
    IN  IF 2 * r > d \/ (2 * r = d /\ q % 2 = 1) THEN q + 1 ELSE q

FlourFor(O, flour) == QuantizeQty(Cookies(O) * flour, Yield)

NoRecipe(O, flour) == Cookies(O) > 0 /\ flour = 0

(* _build_packaging_requirements counts every pack; for what is consumed,   *)
(* only lines with a package fee use packaging.                             *)
BoxesFor(O) == SumFunctionOnSet([o \in POrders |-> Contents[o].packs], O)

ChargedBoxes(O) == BoxesFor({o \in O : Contents[o].charged})
=============================================================================
