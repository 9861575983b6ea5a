-------------------------- MODULE ConsumptionReview --------------------------
(***************************************************************************)
(* app/services/consumption_proposal_service.py on top of the lot ledger:  *)
(* delivered orders of a date are gathered in a consumption review (an     *)
(* inventory_consumption_proposal); approving it takes their demand off    *)
(* the lots, first expiry first out, and marks the orders consumed.        *)
(*                                                                         *)
(* Every handler reads, checks what it read and commits later; a request   *)
(* is one action per SELECT whose result it relies on, and one for its     *)
(* commit.  The database guards the commit with the unique order_id of a   *)
(* review's links, the foreign keys, and the row count of an UPDATE; the   *)
(* count of a DELETE is not checked.                                       *)
(*                                                                         *)
(* The orders consume one tracked item; the lines of a review are summed   *)
(* in its need.  Of the statuses of an order the review tells delivered    *)
(* from all others, which "placed" stands for.                             *)
(***************************************************************************)
EXTENDS InventoryLedger, Functions, FiniteSets

CONSTANTS
    Orders,
    Dates,
    Demand,        \* what an order takes of the item (build_demand_lines)
    Proposals,     \* reviews; an id is used once
    LotRank,       \* the order of list_fefo_for_item: expiry, then receipt
    NoProposal,
    NoDate

ASSUME ReviewAssumption ==
    /\ IsFiniteSet(Orders)
    /\ IsFiniteSet(Lots)
    /\ Demand \in [Orders -> Nat]
    /\ LotRank \in [Lots -> Nat]
    /\ \A k, l \in Lots : LotRank[k] = LotRank[l] => k = l
    /\ NoProposal \notin Proposals
    /\ NoDate \notin Dates

VARIABLES
    ostatus,       \* orders.status, with "unused" and "deleted" for no row
    odate,         \* orders.scheduled_delivery_date
    consumed,      \* orders.inventory_consumed_at is set
    consumedBy,    \* orders.inventory_consumption_proposal_id
    pstatus,       \* reviews.status, with "unused" and "deleted" for no row
    pdate,         \* reviews.delivery_date
    links,         \* orders linked to each review (proposal_orders)
    need,          \* effective quantity of a review's lines
    step,          \* per worker, how far its request has come
    day,           \* the delivery date it works on
    held,          \* the orders it has read
    held_proposal, \* the review it has read
    held_need,     \* the effective quantity it has read
    applied        \* history: how many approvals applied each order's demand

orderVars    == <<ostatus, odate, consumed, consumedBy>>
proposalVars == <<pstatus, pdate, links, need>>
dataVars     == <<orderVars, proposalVars, applied>>
reqVars      == <<step, day, held, held_proposal, held_need>>
reviewVars   == <<ledgerVars, dataVars, reqVars>>

-----------------------------------------------------------------------------
(* Definitions *)

Steps == {"idle", "refresh", "emptied", "dropping", "resolved", "unblocked",
          "replacing", "refused", "approving", "allocated", "dismissing", "editing"}

OrderExists(o)    == ostatus[o] \notin {"unused", "deleted"}
ProposalExists(p) == pstatus[p] \notin {"unused", "deleted"}

Linked(o) == \E p \in Proposals : o \in links[p]

(* get_delivered_unconsumed_orders *)
DeliveredUnconsumed == {o \in Orders : ostatus[o] = "delivered" /\ ~consumed[o]}

(* get_pending_for_delivery_date *)
KnownFor(d) == {p \in Proposals : ProposalExists(p) /\ pdate[p] = d}      \* mutant: in any status

NeedyFor(d) == {p \in Proposals :      \* mutant: a review of nothing is overlooked
                   pstatus[p] = "pending" /\ pdate[p] = d /\ need[p] > 0}

PendingFor(d) == {p \in Proposals : pstatus[p] = "pending" /\ pdate[p] = d}

InPending(o) == \E p \in Proposals : pstatus[p] = "pending" /\ o \in links[p]

(* The request state of worker w. *)
Goto(w, s, d, S, p, n) ==
    /\ step' = [step EXCEPT ![w] = s]
    /\ day' = [day EXCEPT ![w] = d]
    /\ held' = [held EXCEPT ![w] = S]
    /\ held_proposal' = [held_proposal EXCEPT ![w] = p]
    /\ held_need' = [held_need EXCEPT ![w] = n]

DoneHalf(w) == Goto(w, "idle", NoDate, held[w], held_proposal[w], 0)      \* mutant: forgets nothing

Done(w) == Goto(w, "idle", NoDate, {}, NoProposal, 0)

Free(w) == step[w] = "idle" /\ Unbuffered(w)

(* FefoAllocationService.allocate: open lots by expiry, each giving what    *)
(* is left of the quantity up to its balance.                              *)
Available(l) == IF l \in present /\ active[l] THEN qty[l] ELSE 0

Earlier(l) == {k \in Lots : LotRank[k] < LotRank[l]}

Take(l, n) ==
    LET left == n - SumFunctionOnSet([k \in Lots |-> Available(k)], Earlier(l))
    IN  IF left <= 0 THEN 0 ELSE IF left < Available(l) THEN left ELSE Available(l)

Shortfall(n) == n > SumFunction([k \in Lots |-> Available(k)])

-----------------------------------------------------------------------------
(* Orders *)

(* POST /orders: an order is entered in any status and triggers no refresh. *)
CreateOrder(w, o, s, d) ==
    /\ Free(w)
    /\ ostatus[o] = "unused"
    /\ ostatus' = [ostatus EXCEPT ![o] = s]
    /\ odate' = [odate EXCEPT ![o] = d]
    /\ UNCHANGED <<ledgerVars, reqVars, consumed, consumedBy, proposalVars, applied>>

(* PATCH /orders/{id} with a status, a delivery date or both: any status may *)
(* follow any other, and an order may be moved while a review lists it.    *)
(* This is committed first; a change to delivered then refreshes the       *)
(* review of the order's new date in the same request.                     *)
UpdateOrder(w, o, s, d) ==
    /\ Free(w)
    /\ OrderExists(o)
    /\ s # ostatus[o] \/ d # odate[o]
    /\ ostatus' = [ostatus EXCEPT ![o] = s]
    /\ odate' = [odate EXCEPT ![o] = d]
    /\ IF s = "delivered" /\ ostatus[o] # "delivered"
       THEN Goto(w, "refresh", d, {}, NoProposal, 0)
       ELSE UNCHANGED reqVars
    /\ UNCHANGED <<ledgerVars, consumed, consumedBy, proposalVars, applied>>

(* DELETE /orders/{id}: a link to a review restricts the delete. *)
DeleteOrder(w, o) ==
    /\ Free(w)
    /\ OrderExists(o)
    /\ ~Linked(o)
    /\ ostatus' = [ostatus EXCEPT ![o] = "deleted"]
    /\ odate' = [odate EXCEPT ![o] = NoDate]
    /\ consumedBy' = [consumedBy EXCEPT ![o] = NoProposal]
    /\ UNCHANGED <<ledgerVars, reqVars, consumed, proposalVars, applied>>

-----------------------------------------------------------------------------
(* Building a review *)

(* refresh_for_delivery_date gathers the orders of its date that are left  *)
(* to review and generates the review anew.                                *)
Refresh(w) ==
    LET S == {o \in DeliveredUnconsumed : odate[o] = day[w]} IN
    /\ step[w] = "refresh"
    /\ Goto(w, IF S = {} THEN "emptied" ELSE "resolved", day[w], S, NoProposal, 0)
    /\ UNCHANGED <<ledgerVars, dataVars>>

(* With no order left it looks for a pending review of the date to drop. *)
FindEmptied(w) ==
    /\ step[w] = "emptied"
    /\ \/ PendingFor(day[w]) = {} /\ Done(w)
       \/ \E p \in PendingFor(day[w]) : Goto(w, "dropping", day[w], {}, p, 0)
    /\ UNCHANGED <<ledgerVars, dataVars>>

(* The links left once a review that is dropped or replaced is deleted. *)
LinksKept(v) == links      \* mutant: no cascade from a review to its links

LinksWithout(v) == [p \in Proposals |-> IF p = v THEN {} ELSE links[p]]

(* The orders of a deleted review name none (ON DELETE SET NULL). *)
Untied(v) == [o \in Orders |-> IF consumedBy[o] = v THEN NoProposal ELSE consumedBy[o]]

(* Deletes the review that was found, whatever became of it since. *)
CommitDrop(w) ==
    LET v == held_proposal[w] IN
    /\ step[w] = "dropping"
    /\ pstatus' = [pstatus EXCEPT ![v] = "deleted"]
    /\ links' = LinksWithout(v)
    /\ consumedBy' = Untied(v)
    /\ Done(w)
    /\ UNCHANGED <<ledgerVars, ostatus, odate, consumed, pdate, need, applied>>

(* POST /consumption-proposals/generate for a date or for chosen orders of *)
(* one date: _resolve_orders.                                              *)
Generate(w, d, T) ==
    LET S == {o \in DeliveredUnconsumed : o \in T} IN
    /\ Free(w)
    /\ S # {}
    /\ \A o \in S : odate[o] = d
    /\ Goto(w, "resolved", d, S, NoProposal, 0)
    /\ UNCHANGED <<ledgerVars, dataVars>>

(* order_ids_in_active_proposals: refused as soon as one order is linked   *)
(* to a pending review, whichever review that is.                          *)
CheckBlocked(w) ==
    /\ step[w] = "resolved"
    /\ step' = [step EXCEPT ![w] =
          IF \E o \in held[w] : InPending(o) THEN "refused" ELSE "unblocked"]
    /\ UNCHANGED <<ledgerVars, dataVars, day, held, held_proposal, held_need>>

(* get_pending_for_delivery_date: the review that will be replaced. *)
FindPending(w) ==
    /\ step[w] = "unblocked"
    /\ \E p \in IF PendingFor(day[w]) = {} THEN {NoProposal} ELSE PendingFor(day[w]) :
          Goto(w, "replacing", day[w], held[w], p, 0)
    /\ UNCHANGED <<ledgerVars, dataVars>>

(* Deletes the review that was found, whatever became of it since, and     *)
(* inserts the new one with a link to each order (unique) and the demand   *)
(* of the orders.                                                          *)
CommitGenerate(w, p) ==
    LET v == held_proposal[w]
        S == held[w]
    IN
    /\ step[w] = "replacing"
    /\ pstatus[p] = "unused"
    /\ \A o \in S : OrderExists(o) /\ \A q \in Proposals : o \notin LinksWithout(v)[q]
    /\ pstatus' = [q \in Proposals |->
          IF q = v THEN "deleted" ELSE IF q = p THEN "pending" ELSE pstatus[q]]
    /\ pdate' = [pdate EXCEPT ![p] = day[w]]
    /\ links' = [LinksWithout(v) EXCEPT ![p] = S]
    /\ need' = [need EXCEPT ![p] = SumFunctionOnSet(Demand, S)]
    /\ consumedBy' = Untied(v)
    /\ Done(w)
    /\ UNCHANGED <<ledgerVars, ostatus, odate, consumed, applied>>

-----------------------------------------------------------------------------
(* Working on a review *)

(* A review that can be worked on. *)
OpenOrApproved(p) == pstatus[p] \in {"pending", "approved"}      \* mutant: an approved one, too

Open(p) == pstatus[p] = "pending"

(* The status that approve and dismiss leave. *)
CloseNot(p, s) == UNCHANGED pstatus      \* mutant: the review stays pending

Close(p, s) == pstatus' = [pstatus EXCEPT ![p] = s]

(* update, approve and dismiss load the review with its lines and links    *)
(* and accept it while it is pending.                                      *)
LoadNoLinks(w, s, p) ==      \* mutant: without its links
    /\ Free(w)
    /\ Open(p)
    /\ Goto(w, s, pdate[p], {}, p, need[p])
    /\ UNCHANGED <<ledgerVars, dataVars>>

Load(w, s, p) ==
    /\ Free(w)
    /\ Open(p)
    /\ Goto(w, s, pdate[p], links[p], p, need[p])
    /\ UNCHANGED <<ledgerVars, dataVars>>

(* update: the reviewer sets the approved quantity. *)
CommitEdit(w, n) ==
    LET p == held_proposal[w] IN
    /\ step[w] = "editing"
    /\ ProposalExists(p)
    /\ need' = [need EXCEPT ![p] = n]
    /\ Done(w)
    /\ UNCHANGED <<ledgerVars, orderVars, pstatus, pdate, links, applied>>

(* dismiss: the links that were read are removed with the status change. *)
CommitDismiss(w) ==
    LET p == held_proposal[w] IN
    /\ step[w] = "dismissing"
    /\ ProposalExists(p)
    /\ Close(p, "dismissed")
    /\ links' = [links EXCEPT ![p] = @ \ held[w]]
    /\ Done(w)
    /\ UNCHANGED <<ledgerVars, orderVars, pdate, need, applied>>

(* approve allocates again from the lots as they are now and buffers one   *)
(* consumption movement per lot; a shortfall or a negative balance ends it. *)
Allocate(w, b) ==
    /\ step[w] = "approving"
    /\ ~Shortfall(held_need[w])
    /\ \A l \in Lots : b[l] = -Take(l, held_need[w])
    /\ \A l \in Lots : b[l] # 0 => l \in present /\ active[l] /\ CanApply(l, b[l])
    /\ Buffer(w, b)
    /\ step' = [step EXCEPT ![w] = "allocated"]
    /\ UNCHANGED <<lotVars, overwritten, dataVars, day, held, held_proposal, held_need>>

(* approve commits the movements, marks the orders it had read consumed    *)
(* and closes the review; only the existence of the rows is checked.       *)
CommitApprove(w) ==
    LET p == held_proposal[w] IN
    /\ step[w] = "allocated"
    /\ ProposalExists(p)
    /\ \A o \in held[w] : OrderExists(o)
    /\ PostMovements(w)
    /\ consumed' = [o \in Orders |-> consumed[o] \/ o \in held[w]]
    /\ consumedBy' = [o \in Orders |-> IF o \in held[w] THEN p ELSE consumedBy[o]]
    /\ Close(p, "approved")
    /\ applied' = [o \in Orders |-> IF o \in held[w] THEN applied[o] + 1 ELSE applied[o]]
    /\ Done(w)
    /\ UNCHANGED <<ostatus, odate, pdate, links, need>>

(* The request ends without a commit: refused, a failed check or           *)
(* constraint, or the process dies.                                        *)
AbandonReview(w) ==
    /\ step[w] # "idle"
    /\ IF Unbuffered(w) THEN UNCHANGED ledgerVars ELSE Rollback(w)
    /\ Done(w)
    /\ UNCHANGED dataVars

(* An adjustment or a waste record, between review requests. *)
ManualUnlessReviewing(w) ==
    /\ step[w] = "idle"
    /\ ManualRequest(w)
    /\ UNCHANGED <<dataVars, reqVars>>

ReviewInit ==
    /\ LedgerInit
    /\ ostatus = [o \in Orders |-> "unused"]
    /\ odate = [o \in Orders |-> NoDate]
    /\ consumed = [o \in Orders |-> FALSE]
    /\ consumedBy = [o \in Orders |-> NoProposal]
    /\ pstatus = [p \in Proposals |-> "unused"]
    /\ pdate = [p \in Proposals |-> NoDate]
    /\ links = [p \in Proposals |-> {}]
    /\ need = [p \in Proposals |-> 0]
    /\ step = [w \in Workers |-> "idle"]
    /\ day = [w \in Workers |-> NoDate]
    /\ held = [w \in Workers |-> {}]
    /\ held_proposal = [w \in Workers |-> NoProposal]
    /\ held_need = [w \in Workers |-> 0]
    /\ applied = [o \in Orders |-> 0]

OrderRequest(w) ==
    \/ \E o \in Orders, s \in {"placed", "delivered"}, d \in Dates : CreateOrder(w, o, s, d)
    \/ \E o \in Orders, s \in {"placed", "delivered"}, d \in Dates : UpdateOrder(w, o, s, d)
    \/ \E o \in Orders : DeleteOrder(w, o)

BuildReview(w) ==
    \/ Refresh(w)
    \/ FindEmptied(w)
    \/ CommitDrop(w)
    \/ \E d \in Dates, T \in SUBSET Orders : Generate(w, d, T)
    \/ CheckBlocked(w)
    \/ FindPending(w)
    \/ \E p \in Proposals : CommitGenerate(w, p)

WorkReview(w) ==
    \/ \E s \in {"editing", "dismissing", "approving"}, p \in Proposals : Load(w, s, p)
    \/ \E n \in Quantities : CommitEdit(w, n)
    \/ CommitDismiss(w)
    \/ \E b \in [Lots -> -MaxQty .. 0] : Allocate(w, b)
    \/ CommitApprove(w)

ReviewRequest(w) == OrderRequest(w) \/ BuildReview(w) \/ WorkReview(w) \/ AbandonReview(w)

ReviewNext == \E w \in Workers : ReviewRequest(w) \/ ManualUnlessReviewing(w)

ReviewSpec == ReviewInit /\ [][ReviewNext]_reviewVars

-----------------------------------------------------------------------------
(* Properties *)

(* Rows and requests keep their shape whatever overlaps: no request starts *)
(* from what an earlier one of its worker had read.                        *)
ReviewTypeOK ==
    /\ ostatus \in [Orders -> {"unused", "placed", "delivered", "deleted"}]
    /\ odate \in [Orders -> Dates \cup {NoDate}]
    /\ consumed \in [Orders -> BOOLEAN]
    /\ consumedBy \in [Orders -> Proposals \cup {NoProposal}]
    /\ pstatus \in [Proposals -> {"unused", "pending", "approved", "dismissed", "deleted"}]
    /\ pdate \in [Proposals -> Dates \cup {NoDate}]
    /\ links \in [Proposals -> SUBSET Orders]
    /\ need \in [Proposals -> Nat]
    /\ step \in [Workers -> Steps]
    /\ day \in [Workers -> Dates \cup {NoDate}]
    /\ held \in [Workers -> SUBSET Orders]
    /\ held_proposal \in [Workers -> Proposals \cup {NoProposal}]
    /\ held_need \in [Workers -> Nat]
    /\ \A w \in Workers : step[w] = "idle" => held[w] = {} /\ held_proposal[w] = NoProposal
    /\ applied \in [Orders -> Nat]

(* An order is linked to one review at most, and only to one that still    *)
(* waits or was applied: a dismissed or replaced review has let its orders *)
(* go, so they can be gathered again.                                      *)
LinksConsistent ==
    /\ \A p, q \in Proposals : p # q => links[p] \cap links[q] = {}
    /\ \A p \in Proposals : links[p] # {} => pstatus[p] \in {"pending", "approved"}

(* A review that was applied has consumed every order it still lists: no   *)
(* order slips into a review between the read of its links and the         *)
(* commit of the approval, which marks only those it read.                 *)
ApprovedConsumed ==
    \A p \in Proposals : pstatus[p] = "approved" => \A o \in links[p] : consumed[o]

(* What was taken off the lots can be traced: a consumed order names the   *)
(* approved review that lists it.  A replaced or dismissed review loses    *)
(* its orders, so none of them may have been consumed through it.          *)
ConsumedTraced ==
    \A o \in Orders : consumed[o] =>
        \E p \in Proposals : consumedBy[o] = p /\ pstatus[p] = "approved" /\ o \in links[p]

(* No order's demand is taken off the lots twice. *)
ConsumedOnce == \A o \in Orders : applied[o] <= 1

(* Nothing that waits for review has been consumed already. *)
PendingUnconsumed ==
    \A p \in Proposals : pstatus[p] = "pending" => \A o \in links[p] : ~consumed[o]

(* A date has one pending review at most. *)
OnePendingPerDate ==
    \A p, q \in Proposals :
        pstatus[p] = "pending" /\ pstatus[q] = "pending" /\ pdate[p] = pdate[q] => p = q

(* A refresh is refused only for an order that "another pending            *)
(* consumption review" holds, never for the one it would replace.          *)
RefusedForAnother ==
    [][\A w \in Workers : step[w] = "resolved" /\ step'[w] = "refused" =>
          \E p \in Proposals : /\ pstatus[p] = "pending"
                               /\ pdate[p] # day[w]
                               /\ links[p] \cap held[w] # {}]_reviewVars
=============================================================================
