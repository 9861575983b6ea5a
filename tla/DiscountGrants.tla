---------------------------- MODULE DiscountGrants ----------------------------
(***************************************************************************)
(* The discount grants of one customer: a grant is issued by a rule after  *)
(* an order or by hand, discounts the next website order, expires, or is   *)
(* revoked (app/services/discount_application_service.py,                  *)
(* discount_rule_evaluator.py, customer_discount_grant_service.py and      *)
(* customer_discount_override_service.py, with the checkout that uses      *)
(* them).                                                                  *)
(*                                                                         *)
(* Checkout and preview read the grant FOR UPDATE SKIP LOCKED and hold its *)
(* row until their transaction ends.  Every other reader takes no lock;    *)
(* its later UPDATE waits for the holder of the row and then writes what   *)
(* it decided before.  The settings, the override and the grant are read   *)
(* in one step of a request.                                               *)
(***************************************************************************)
EXTENDS Integers, FiniteSets

CONSTANTS
    Grants,      \* ids of grants, each used once
    DOrders,     \* ids of the customer's orders, each used once
    DWorkers,    \* requests in flight at once
    Required,    \* required_order_count of the active rule
    NoGrant,
    NoDOrder,
    NoHolder

ASSUME GrantAssumption ==
    /\ NoGrant \notin Grants
    /\ NoDOrder \notin DOrders
    /\ NoHolder \notin DWorkers
    /\ IsFiniteSet(DOrders)
    /\ Required \in Nat

VARIABLES
    grant,       \* customer_discount_grants.status ("none": no row yet)
    used_on,     \* used_on_order_id
    lapsed,      \* grants whose expires_at has passed
    holder,      \* the request that holds the lock of the grant's row
    switched,    \* the setting discounts_enabled is on and no override of the
                 \* customer turns discounts off
    d_order,     \* orders of the customer: none, open, counting or gone
    discount,    \* orders.customer_discount_grant_id_snapshot
    d_step,      \* per worker, how far its request has come
    d_grant      \* the grant it works on

d_reqVars  == <<d_step, d_grant>>
grantVars  == <<grant, used_on, lapsed, holder, switched, d_order, discount, d_reqVars>>

-----------------------------------------------------------------------------
(* Definitions *)

ActiveGrants == {g \in Grants : grant[g] = "active"}

(* FOR UPDATE SKIP LOCKED *)
UnlockedAny == ActiveGrants      \* mutant: a plain read

Unlocked == {g \in ActiveGrants : holder[g] = NoHolder}

Counting == {o \in DOrders : d_order[o] = "counting"}

(* The partial unique index on active grants. *)
IndexFree == ActiveGrants = {}

(* A new row gets an id not used before; which one makes no difference. *)
OneOf(S) == IF S = {} THEN {} ELSE {CHOOSE x \in S : TRUE}

FreshOrder == OneOf({o \in DOrders : d_order[o] = "none"})

FreshGrant == OneOf({g \in Grants : grant[g] = "none"})

(* What a request leaves locked when its transaction ends. *)
HeldOn(w) == holder      \* mutant: the lock is kept

Released(w) == [g \in Grants |-> IF holder[g] = w THEN NoHolder ELSE holder[g]]

DGoto(w, s, g) ==
    /\ d_step' = [d_step EXCEPT ![w] = s]
    /\ d_grant' = [d_grant EXCEPT ![w] = g]

DDone(w) == DGoto(w, "idle", NoGrant)

-----------------------------------------------------------------------------
(* Checkout and preview *)

(* resolve_grant_for_customer, by a checkout or by a customer's preview,    *)
(* which is a checkout that always rolls back.  A grant past its date is    *)
(* marked expired, not returned.                                           *)
Resolve(w) ==
    /\ d_step[w] = "idle"
    /\ \/ /\ ~(switched /\ Unlocked # {})
          /\ DGoto(w, "checkout", NoGrant)
          /\ UNCHANGED holder
       \/ \E g \in Unlocked :
          /\ switched
          /\ holder' = [holder EXCEPT ![g] = w]
          /\ DGoto(w, IF g \in lapsed THEN "expiring" ELSE "checkout", g)
    /\ UNCHANGED <<grant, used_on, lapsed, switched, d_order, discount>>

(* mark_grant_used, or the expiry that resolve has flushed. *)
AfterCheckout(w, g) == IF d_step[w] = "checkout" THEN "used" ELSE "expired"

(* The order, its discount and the use of the grant, in one transaction;   *)
(* the rules are evaluated after it.                                       *)
Place(w, o) ==
    LET g == d_grant[w] IN
    /\ d_step[w] \in {"checkout", "expiring"}
    /\ o \in FreshOrder
    /\ d_order' = [d_order EXCEPT ![o] = "open"]
    /\ IF g = NoGrant
       THEN UNCHANGED <<grant, used_on, discount>>
       ELSE /\ grant' = [grant EXCEPT ![g] = AfterCheckout(w, g)]
            /\ IF AfterCheckout(w, g) = "used"
               THEN /\ used_on' = [used_on EXCEPT ![g] = o]
                    /\ discount' = [discount EXCEPT ![o] = g]
               ELSE UNCHANGED <<used_on, discount>>
    /\ holder' = Released(w)
    /\ DGoto(w, "placed", NoGrant)
    /\ UNCHANGED <<lapsed, switched>>

(* A preview ends without a commit, and so does a request that is refused  *)
(* or whose process dies: what it flushed is rolled back.                  *)
RollBack(w) ==
    /\ d_step[w] # "idle"
    /\ holder' = Released(w)
    /\ DDone(w)
    /\ UNCHANGED <<grant, used_on, lapsed, switched, d_order, discount>>

-----------------------------------------------------------------------------
(* Orders in the administration *)

PlaceByHand(w, o, s) ==
    /\ d_step[w] = "idle"
    /\ o \in FreshOrder
    /\ d_order' = [d_order EXCEPT ![o] = s]
    /\ DGoto(w, "placed", NoGrant)
    /\ UNCHANGED <<grant, used_on, lapsed, holder, switched, discount>>

(* An update of the status; the rules are evaluated when the new status    *)
(* counts toward them, also when the one before did (from confirmed to     *)
(* preparing, say).                                                        *)
SetOrderStatus(w, o, s) ==
    /\ d_step[w] = "idle"
    /\ d_order[o] \in {"open", "counting"}
    /\ d_order[o] # s \/ s = "counting"
    /\ d_order' = [d_order EXCEPT ![o] = s]
    /\ IF s = "counting" THEN DGoto(w, "placed", NoGrant) ELSE UNCHANGED d_reqVars
    /\ UNCHANGED <<grant, used_on, lapsed, holder, switched, discount>>

(* used_on_order_id is SET NULL when its order goes. *)
RemoveOrder(o) ==
    /\ d_order[o] \in {"open", "counting"}
    /\ d_order' = [d_order EXCEPT ![o] = "gone"]
    /\ used_on' = [g \in Grants |-> IF used_on[g] = o THEN NoDOrder ELSE used_on[g]]
    /\ UNCHANGED <<grant, lapsed, holder, switched, discount, d_reqVars>>

-----------------------------------------------------------------------------
(* Issuing grants *)

(* evaluate_after_order_placed up to the INSERT: the rule is met. *)
EvaluateRules(w) ==
    /\ d_step[w] = "placed"
    /\ IF switched /\ ActiveGrants = {} /\ Cardinality(Counting) >= Required
       THEN DGoto(w, "issuing", NoGrant)
       ELSE DDone(w)
    /\ UNCHANGED <<grant, used_on, lapsed, holder, switched, d_order, discount>>

(* manual_grant asks for neither the setting nor the override. *)
StartManualGrant(w) ==
    /\ d_step[w] = "idle"
    /\ ActiveGrants = {}
    /\ DGoto(w, "issuing", NoGrant)
    /\ UNCHANGED <<grant, used_on, lapsed, holder, switched, d_order, discount>>

(* The INSERT and its commit. *)
IssueGrant(w, g) ==
    /\ d_step[w] = "issuing"
    /\ g \in FreshGrant
    /\ IndexFree
    /\ grant' = [grant EXCEPT ![g] = "active"]
    /\ DDone(w)
    /\ UNCHANGED <<used_on, lapsed, holder, switched, d_order, discount>>

(* The INSERT meets the index, or the ids of Grants have run out. *)
RefuseGrant(w) ==
    /\ d_step[w] = "issuing"
    /\ ~IndexFree \/ FreshGrant = {}
    /\ DDone(w)
    /\ UNCHANGED <<grant, used_on, lapsed, holder, switched, d_order, discount>>

-----------------------------------------------------------------------------
(* Taking grants back *)

(* revoke finds the grant active, without a lock. *)
StartRevoke(w, g) ==
    /\ d_step[w] = "idle"
    /\ grant[g] = "active"
    /\ DGoto(w, "revoking", g)
    /\ UNCHANGED <<grant, used_on, lapsed, holder, switched, d_order, discount>>

(* set_override with discounts_enabled false finds the active grants. *)
StartDeny(w) ==
    /\ d_step[w] = "idle"
    /\ \/ ActiveGrants = {} /\ DGoto(w, "denying", NoGrant)
       \/ \E g \in ActiveGrants : DGoto(w, "denying", g)
    /\ UNCHANGED <<grant, used_on, lapsed, holder, switched, d_order, discount>>

(* The UPDATE of a grant waits for the holder of its row and sets the      *)
(* status whatever it has become.                                          *)
TakeBack(w) ==
    /\ d_step[w] \in {"revoking", "denying"}
    /\ d_grant[w] # NoGrant => holder[d_grant[w]] = NoHolder
    /\ grant' = [g \in Grants |-> IF g = d_grant[w] THEN "revoked" ELSE grant[g]]
    /\ switched' = (switched /\ d_step[w] # "denying")
    /\ DDone(w)
    /\ UNCHANGED <<used_on, lapsed, holder, d_order, discount>>

-----------------------------------------------------------------------------
(* Switches and time *)

(* The setting changes, or an override that allows discounts is set or an   *)
(* override is deleted.                                                     *)
Switch(b) ==
    /\ switched' = b
    /\ UNCHANGED <<grant, used_on, lapsed, holder, d_order, discount, d_reqVars>>

(* expires_at passes; nothing reads it of a grant that is not active. *)
Lapse(g) ==
    /\ grant[g] = "active"
    /\ lapsed' = lapsed \cup {g}
    /\ UNCHANGED <<grant, used_on, holder, switched, d_order, discount, d_reqVars>>

-----------------------------------------------------------------------------

GrantInit ==
    /\ grant = [g \in Grants |-> "none"]
    /\ used_on = [g \in Grants |-> NoDOrder]
    /\ lapsed = {}
    /\ holder = [g \in Grants |-> NoHolder]
    /\ switched = TRUE
    /\ d_order = [o \in DOrders |-> "none"]
    /\ discount = [o \in DOrders |-> NoGrant]
    /\ d_step = [w \in DWorkers |-> "idle"]
    /\ d_grant = [w \in DWorkers |-> NoGrant]

(* What a request does by itself once it has begun; a checkout rolls back   *)
(* when the ids of DOrders have run out.                                    *)
GrantProceed(w) ==
    \/ \E o \in DOrders : Place(w, o)
    \/ d_step[w] \in {"checkout", "expiring"} /\ FreshOrder = {} /\ RollBack(w)
    \/ EvaluateRules(w)
    \/ \E g \in Grants : IssueGrant(w, g)
    \/ RefuseGrant(w)

GrantStart(w) ==
    \/ Resolve(w)
    \/ \E o \in DOrders, s \in {"open", "counting"} :
          PlaceByHand(w, o, s) \/ SetOrderStatus(w, o, s)
    \/ StartManualGrant(w)
    \/ \E g \in Grants : StartRevoke(w, g)
    \/ StartDeny(w)

GrantNext ==
    \/ \E w \in DWorkers : GrantStart(w) \/ GrantProceed(w) \/ TakeBack(w) \/ RollBack(w)
    \/ \E o \in DOrders : RemoveOrder(o)
    \/ \E b \in BOOLEAN : Switch(b)
    \/ \E g \in Grants : Lapse(g)

(* A request that has begun goes on unless its process dies; a waiting      *)
(* UPDATE gets the row in the order of PostgreSQL's lock queue, so a holder *)
(* that comes and goes cannot keep it out for ever.                         *)
GrantFairness ==
    \A w \in DWorkers : WF_grantVars(GrantProceed(w)) /\ SF_grantVars(TakeBack(w))

GrantSpec == GrantInit /\ [][GrantNext]_grantVars /\ GrantFairness

-----------------------------------------------------------------------------
(* Properties *)

GrantTypeOK ==
    /\ grant \in [Grants -> {"none", "active", "used", "expired", "revoked"}]
    /\ used_on \in [Grants -> DOrders \cup {NoDOrder}]
    /\ lapsed \subseteq Grants
    /\ holder \in [Grants -> DWorkers \cup {NoHolder}]
    /\ switched \in BOOLEAN
    /\ d_order \in [DOrders -> {"none", "open", "counting", "gone"}]
    /\ discount \in [DOrders -> Grants \cup {NoGrant}]
    /\ d_step \in [DWorkers -> {"idle", "checkout", "expiring", "placed",
                                "issuing", "revoking", "denying"}]
    /\ d_grant \in [DWorkers -> Grants \cup {NoGrant}]

(* However checkouts, previews, expiry, revocations and removals of orders  *)
(* overlap, a grant discounts one order ever, the order it was used on, and *)
(* a grant that has discounted an order is never active or expired again.   *)
DiscountsSettled ==
    /\ \A o \in DOrders : discount[o] # NoGrant =>
          /\ grant[discount[o]] \in {"used", "revoked"}
          /\ used_on[discount[o]] = IF d_order[o] = "gone" THEN NoDOrder ELSE o
          /\ \A p \in DOrders \ {o} : discount[p] # discount[o]
    /\ \A g \in Grants : used_on[g] # NoDOrder => discount[used_on[g]] = g

(* The grant that a checkout or a preview has computed its amounts with is  *)
(* active until that request ends, and no other checkout computes with it:  *)
(* a revocation or an override that found it active, the marking of an      *)
(* expired grant and a second checkout all leave it alone until then.       *)
HeldActive ==
    \A w \in DWorkers : d_step[w] \in {"checkout", "expiring"} /\ d_grant[w] # NoGrant =>
        /\ grant[d_grant[w]] = "active"
        /\ \A v \in DWorkers \ {w} :
              d_step[v] \in {"checkout", "expiring"} => d_grant[v] # d_grant[w]

(* Every request ends: no lock on a grant outlives the request that took it,*)
(* so a revocation never waits for ever.                                    *)
RequestsEnd == \A w \in DWorkers : d_step[w] # "idle" ~> d_step[w] = "idle"
=============================================================================
