--------------------------- MODULE PlannedConsumption ---------------------------
(***************************************************************************)
(* What the reviews of one delivery date consume, beside what its plan     *)
(* tells to buy (app/services/consumption_proposal_service.py,             *)
(* consumption_demand_service.py, order_service.py).  Every review rounds  *)
(* for itself, over the orders it holds and by the recipe of the moment.   *)
(*                                                                         *)
(* The reviews' requests run one after another here; how they overlap is   *)
(* the subject of ConsumptionReview.  An administrator may enter other     *)
(* quantities than those proposed: used counts what was proposed.          *)
(***************************************************************************)
EXTENDS ProductionDemand

CONSTANT NoReview

ASSUME NoReviewAssumption == NoReview \notin [orders : SUBSET POrders, flour : Nat, boxes : Nat]

VARIABLES
    progress,     \* status of an order
    formula,      \* the current recipe of the cookie
    review,       \* the pending review of the date: orders, flour and boxes proposed
    consumed,     \* orders with inventory_consumed_at
    used,         \* history: flour and boxes of the approved reviews
    approvals,    \* history: how many were approved
    edited        \* history: the recipe was edited under a review or after an approval

useVars == <<progress, formula, review, consumed, used, approvals, edited>>

-----------------------------------------------------------------------------
(* Definitions *)

(* get_delivered_unconsumed_orders *)
Eligible(status) == {o \in POrders : status[o] = "delivered"} \ consumed

(* order_ids_in_active_proposals *)
Held == IF review = NoReview THEN {} ELSE review.orders

(* generate, from the demand of the orders. *)
Proposal(O) == [orders |-> O, flour |-> FlourFor(O, formula), boxes |-> ChargedBoxes(O)]

(* Orders of another pending review and cookies without recipe are refused. *)
Proposable(O) == O \cap Held = {} /\ ~NoRecipe(O, formula)

-----------------------------------------------------------------------------
(* Reviews *)

(* generate for the date or for chosen orders; a pending review is replaced. *)
Generate(O) ==
    /\ O # {} /\ O \subseteq Eligible(progress)
    /\ Proposable(O)
    /\ review' = Proposal(O)
    /\ UNCHANGED <<progress, formula, consumed, used, approvals, edited>>

Dismiss ==
    /\ review # NoReview
    /\ review' = NoReview
    /\ UNCHANGED <<progress, formula, consumed, used, approvals, edited>>

(* approve posts what the review proposes, whatever has become of its orders. *)
Approve ==
    /\ review # NoReview
    /\ consumed' = consumed \cup review.orders
    /\ used' = [flour |-> used.flour + review.flour, boxes |-> used.boxes + review.boxes]
    /\ approvals' = approvals + 1
    /\ review' = NoReview
    /\ UNCHANGED <<progress, formula, edited>>

-----------------------------------------------------------------------------
(* Orders and the recipe *)

(* refresh_for_delivery_date: a refusal is answered after the order's       *)
(* status was committed.                                                    *)
Refreshed(O) ==
    CASE O = {} -> NoReview
      [] O # {} /\ Proposable(O)  -> Proposal(O)
      [] O # {} /\ ~Proposable(O) -> review

(* update, with another status. *)
SetProgress(o, s) ==
    /\ progress[o] # s
    /\ progress' = [progress EXCEPT ![o] = s]
    /\ review' = IF s = "delivered" THEN Refreshed(Eligible(progress')) ELSE review
    /\ UNCHANGED <<formula, consumed, used, approvals, edited>>

(* update, with another date: reviews are not refreshed. *)
Reschedule(o, s) ==
    /\ (progress[o] = "excluded") # (s = "excluded")
    /\ progress' = [progress EXCEPT ![o] = s]
    /\ UNCHANGED <<formula, review, consumed, used, approvals, edited>>

EditFormula(flour) ==
    /\ flour # formula
    /\ formula' = flour
    /\ edited' = (edited \/ review # NoReview \/ approvals > 0)
    /\ UNCHANGED <<progress, review, consumed, used, approvals>>

UseInit ==
    /\ progress = [o \in POrders |-> "excluded"]
    /\ formula \in Recipes
    /\ review = NoReview
    /\ consumed = {}
    /\ used = [flour |-> 0, boxes |-> 0]
    /\ approvals = 0
    /\ edited = FALSE

UseNext ==
    \/ \E O \in SUBSET POrders : Generate(O)
    \/ Dismiss
    \/ Approve
    \/ \E o \in POrders, s \in OrderStatuses : SetProgress(o, s) \/ Reschedule(o, s)
    \/ \E flour \in Recipes : EditFormula(flour)

UseSpec == UseInit /\ [][UseNext]_useVars

-----------------------------------------------------------------------------
(* Properties *)

(* Type invariant; the orders of a pending review are not consumed yet.     *)
UseTypeOK ==
    /\ progress \in [POrders -> OrderStatuses]
    /\ formula \in Recipes
    /\ review \in [orders : SUBSET POrders, flour : Nat, boxes : Nat] \cup {NoReview}
    /\ consumed \in SUBSET POrders
    /\ used \in [flour : Nat, boxes : Nat]
    /\ approvals \in Nat
    /\ edited \in BOOLEAN
    /\ Held \cap consumed = {}

(* However many reviews the orders of a date are consumed in, and however   *)
(* reviews are refreshed, replaced and dismissed meanwhile, they consume no *)
(* more than the date's plan tells to buy, but for roundings: half of a     *)
(* 0.0001 unit for each review approved, and half for the plan.  DELIVERED  *)
(* orders stay in the plan (_production_orders), and packaging is consumed  *)
(* only where the plan counts it.  It presumes that the recipe is not       *)
(* edited under a review and that no consumed order was cancelled or moved  *)
(* to another date: both change the plan of what is already consumed.       *)
CoveredByPlan ==
    ~edited /\ (\A o \in consumed : progress[o] # "excluded") =>
        /\ used.boxes <= BoxesFor(Production(progress))
        /\ 2 * (used.flour - FlourFor(Production(progress), formula)) <= approvals + 1
=============================================================================
