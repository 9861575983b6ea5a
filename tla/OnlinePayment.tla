---------------------------- MODULE OnlinePayment ----------------------------
(***************************************************************************)
(* Online payment of website orders: checkout                              *)
(* (app/services/customer_checkout_service.py), the payment session and    *)
(* the return callback (app/services/webxpay/webxpay_service.py), and the  *)
(* page that sends the customer to the gateway (app/routers/payments.py).  *)
(*                                                                         *)
(* A checkout takes three transactions' worth of steps: it counts the      *)
(* orders of the day, inserts the order under the next number, and, in a   *)
(* second transaction, inserts its payment session.  The page reads the    *)
(* session and writes it later; both run in the threads of the server.     *)
(* The return handler is a coroutine that does not await between its first *)
(* SELECT and its commit: it is one action.                                *)
(*                                                                         *)
(* The gateway is outside: it charges the customer who submits a page, or  *)
(* declines, and its answer travels through the customer's browser, late,  *)
(* repeatedly or never.  An answer names the order by its number and the   *)
(* transaction by a reference, which may be missing.  Every order of the   *)
(* model is of one day.                                                    *)
(***************************************************************************)
EXTENDS Integers, FiniteSets

CONSTANTS
    Orders,      \* ids of orders, each used once
    Workers,     \* checkout and page requests in flight at once
    Txns,        \* transactions of the gateway
    Unreferenced, \* the ones whose answer carries no gateway_reference
    Removable,   \* orders an administrator may delete
    MaxPages,    \* bound on the pages served for one session
    NoOrder,
    NoTxn

ASSUME PaymentAssumption ==
    /\ IsFiniteSet(Orders)
    /\ IsFiniteSet(Txns)
    /\ Unreferenced \subseteq Txns
    /\ Removable \subseteq Orders
    /\ NoOrder \notin Orders
    /\ NoTxn \notin Txns

VARIABLES
    live,        \* orders that exist
    number,      \* orders.order_number of each order ever placed (0: none)
    payment,     \* orders.payment_status
    session,     \* payment_sessions.status of the order's session
    reference,   \* payment_sessions.gateway_reference
    old,         \* orders whose session was initiated over 30 minutes ago
    step,        \* per worker, how far its request has come
    held_number, \* the number a checkout has computed
    held_order,  \* the order a request works on
    held_status, \* the session status a page request has read
    pages,       \* pages sent to the customer, per order
    outcome,     \* what the gateway decided of each transaction
    charge_of,   \* the order on whose page the customer started it
    answer,      \* history: how its first callback was answered
    paid_by,     \* history: the transaction whose answer completed the session
    touched      \* history: orders whose payment_status was set by hand

rowVars     == <<live, number, payment, session, reference>>
reqVars     == <<step, held_number, held_order, held_status>>
gatewayVars == <<outcome, charge_of>>
historyVars == <<answer, paid_by, touched>>
vars        == <<rowVars, old, reqVars, pages, gatewayVars, historyVars>>

-----------------------------------------------------------------------------
(* Definitions *)

(* The statuses in which a session can be paid. *)
ActiveOrFailed == {"initiated", "redirected", "failed"}      \* mutant: a second attempt

ActiveOrCompleted == {"initiated", "redirected", "completed"}      \* mutant: a second charge

Active == {"initiated", "redirected"}

(* count_orders_for_prefix + 1 *)
NextNumber == Cardinality(live) + 1

Goto(w, s, n, o, st) ==
    /\ step' = [step EXCEPT ![w] = s]
    /\ held_number' = [held_number EXCEPT ![w] = n]
    /\ held_order' = [held_order EXCEPT ![w] = o]
    /\ held_status' = [held_status EXCEPT ![w] = st]

Done(w) == Goto(w, "idle", 0, NoOrder, "none")

(* The unique order_number. *)
NumberTaken(n) == TRUE      \* mutant: no constraint

NumberFree(n) == \A p \in live : number[p] # n

(* The order an answer names: the one that has its number today. *)
NamedFrom(t) ==      \* mutant: matched by a prefix of the number
    {o \in live : number[o] >= number[charge_of[t]] /\ session[o] # "none"}

Named(t) == {o \in live : number[o] = number[charge_of[t]] /\ session[o] # "none"}

(* _assign_gateway_reference: an answer without a reference assigns none,  *)
(* and a reference is kept off a session when another one has it.          *)
Assigned(t, o) == \E p \in live \ {o} : reference[p] = t

ReferenceIfTaken(t, o) ==      \* mutant: the second test is inverted
    IF t \in Unreferenced \/ ~Assigned(t, o) THEN reference[o] ELSE t

ReferenceFor(t, o) ==
    IF t \in Unreferenced \/ Assigned(t, o) THEN reference[o] ELSE t

-----------------------------------------------------------------------------
(* Checkout *)

CountOrders(w) ==
    /\ step[w] = "idle"
    /\ Goto(w, "numbered", NextNumber, NoOrder, "none")
    /\ UNCHANGED <<rowVars, old, pages, gatewayVars, historyVars>>

(* The order is inserted and committed; order_number is unique.  Only an   *)
(* order that is paid online goes on to a payment session.                 *)
PlaceOrder(w, o, online) ==
    /\ step[w] = "numbered"
    /\ number[o] = 0
    /\ NumberFree(held_number[w])
    /\ live' = live \cup {o}
    /\ number' = [number EXCEPT ![o] = held_number[w]]
    /\ payment' = [payment EXCEPT ![o] = "pending"]
    /\ IF online THEN Goto(w, "placed", 0, o, "none") ELSE Done(w)
    /\ UNCHANGED <<session, reference, old, pages, gatewayVars, historyVars>>

(* create_session, for the order that was just placed: it has none yet. *)
CreateSession(w) ==
    /\ step[w] = "placed"
    /\ held_order[w] \in live
    /\ session' = [session EXCEPT ![held_order[w]] = "initiated"]
    /\ Done(w)
    /\ UNCHANGED <<live, number, payment, reference, old, pages, gatewayVars, historyVars>>

(* A request fails or its process dies; what it had not committed is lost. *)
Abandon(w) ==
    /\ step[w] # "idle"
    /\ Done(w)
    /\ UNCHANGED <<rowVars, old, pages, gatewayVars, historyVars>>

-----------------------------------------------------------------------------
(* The page that redirects to the gateway *)

(* get_active_session: a session in an end state has no page, and neither  *)
(* has one that is too old.  That one is set to expired and flushed, but   *)
(* the request that refuses it returns without a commit: nothing is left.  *)
OpenPage(w, o) ==
    /\ step[w] = "idle"
    /\ o \in live \ old
    /\ session[o] \in Active
    /\ Goto(w, "page", 0, o, session[o])
    /\ UNCHANGED <<rowVars, old, pages, gatewayVars, historyVars>>

(* build_form_fields and mark_redirected, then the commit, then the page.  *)
(* mark_redirected goes by the status that was read; the row is written    *)
(* when that was initiated, and an UPDATE of no row is an error.           *)
ServePage(w) ==
    LET o == held_order[w] IN
    /\ step[w] = "page"
    /\ pages[o] < MaxPages
    /\ \/ /\ held_status[w] = "initiated"
          /\ o \in live
          /\ session' = [session EXCEPT ![o] = "redirected"]
       \/ /\ held_status[w] = "redirected"
          /\ UNCHANGED session
    /\ pages' = [pages EXCEPT ![o] = @ + 1]
    /\ Done(w)
    /\ UNCHANGED <<live, number, payment, reference, old, gatewayVars, historyVars>>

(* SESSION_EXPIRY_MINUTES pass. *)
Age(o) ==
    /\ o \in live \ old
    /\ session[o] # "none"
    /\ old' = old \cup {o}
    /\ UNCHANGED <<rowVars, reqVars, pages, gatewayVars, historyVars>>

-----------------------------------------------------------------------------
(* The gateway and its answer *)

(* The customer submits a page, each page once at most. *)
Pay(t, o, result) ==
    /\ outcome[t] = "none"
    /\ Cardinality({u \in Txns : charge_of[u] = o}) < pages[o]
    /\ outcome' = [outcome EXCEPT ![t] = result]
    /\ charge_of' = [charge_of EXCEPT ![t] = o]
    /\ UNCHANGED <<rowVars, old, reqVars, pages, historyVars>>

(* The end of session o and the payment status that goes with it. *)
SettleSession(o, s, v) ==      \* mutant: the order is not told
    /\ session' = [session EXCEPT ![o] = s]
    /\ UNCHANGED payment

Settle(o, s, v) ==
    /\ session' = [session EXCEPT ![o] = s]
    /\ payment' = [payment EXCEPT ![o] = v]

(* process_return on the session of the order that is named: a session in  *)
(* the end states completed and failed is answered and left as it is; the  *)
(* age of any other is not looked at.                                      *)
Return(t) ==
    /\ outcome[t] # "none"
    /\ \E o \in Named(t) :
          \/ /\ session[o] \in {"completed", "failed"}
             /\ answer' = [answer EXCEPT ![t] = IF @ = "none" THEN "repeated" ELSE @]
             /\ UNCHANGED <<session, reference, payment, paid_by>>
          \/ /\ session[o] \in Active
             /\ outcome[t] = "approved"
             /\ reference' = [reference EXCEPT ![o] = ReferenceFor(t, o)]
             /\ Settle(o, "completed", "paid")
             /\ answer' = [answer EXCEPT ![t] = "applied"]
             /\ paid_by' = [paid_by EXCEPT ![o] = t]
          \/ /\ session[o] \in Active
             /\ outcome[t] = "declined"
             /\ Settle(o, "failed", "failed")
             /\ answer' = [answer EXCEPT ![t] = "applied"]
             /\ UNCHANGED <<reference, paid_by>>
    /\ UNCHANGED <<live, number, old, reqVars, pages, gatewayVars, touched>>

-----------------------------------------------------------------------------
(* The administrator *)

(* PATCH /orders/{id} with a payment_status. *)
SetPayment(o, v) ==
    /\ o \in live
    /\ payment[o] # v
    /\ payment' = [payment EXCEPT ![o] = v]
    /\ touched' = touched \cup {o}
    /\ UNCHANGED <<live, number, session, reference, old, reqVars, pages, gatewayVars, answer,
                   paid_by>>

(* DELETE /orders/{id}: its payment session goes with it (delete-orphan). *)
DeleteOrder(o) ==
    /\ o \in live \cap Removable
    /\ live' = live \ {o}
    /\ payment' = [payment EXCEPT ![o] = "none"]
    /\ session' = [session EXCEPT ![o] = "none"]
    /\ reference' = [reference EXCEPT ![o] = NoTxn]
    /\ old' = old \ {o}
    /\ UNCHANGED <<number, reqVars, pages, gatewayVars, historyVars>>

-----------------------------------------------------------------------------

Init ==
    /\ live = {}
    /\ number = [o \in Orders |-> 0]
    /\ payment = [o \in Orders |-> "none"]
    /\ session = [o \in Orders |-> "none"]
    /\ reference = [o \in Orders |-> NoTxn]
    /\ old = {}
    /\ step = [w \in Workers |-> "idle"]
    /\ held_number = [w \in Workers |-> 0]
    /\ held_order = [w \in Workers |-> NoOrder]
    /\ held_status = [w \in Workers |-> "none"]
    /\ pages = [o \in Orders |-> 0]
    /\ outcome = [t \in Txns |-> "none"]
    /\ charge_of = [t \in Txns |-> NoOrder]
    /\ answer = [t \in Txns |-> "none"]
    /\ paid_by = [o \in Orders |-> NoTxn]
    /\ touched = {}

Request(w) ==
    \/ CountOrders(w)
    \/ \E o \in Orders, online \in BOOLEAN : PlaceOrder(w, o, online)
    \/ CreateSession(w)
    \/ \E o \in Orders : OpenPage(w, o)
    \/ ServePage(w)
    \/ Abandon(w)

Gateway(t) ==
    \/ \E o \in Orders, result \in {"approved", "declined"} : Pay(t, o, result)
    \/ Return(t)

Administrator(o) ==
    \/ \E v \in {"pending", "paid", "failed", "refunded"} : SetPayment(o, v)
    \/ DeleteOrder(o)

Next ==
    \/ \E w \in Workers : Request(w)
    \/ \E t \in Txns : Gateway(t)
    \/ \E o \in Orders : Age(o) \/ Administrator(o)

PaymentSpec == Init /\ [][Next]_vars

-----------------------------------------------------------------------------
(* Properties *)

(* Rows and requests keep their shape: among others, no page is ever in    *)
(* preparation for a session that was read in an end state.                *)
PaymentTypeOK ==
    /\ live \subseteq Orders
    /\ number \in [Orders -> Nat]
    /\ payment \in [Orders -> {"none", "pending", "paid", "failed", "refunded"}]
    /\ session \in [Orders -> {"none", "initiated", "redirected", "completed", "failed"}]
    /\ reference \in [Orders -> Txns \cup {NoTxn}]
    /\ old \subseteq Orders
    /\ step \in [Workers -> {"idle", "numbered", "placed", "page"}]
    /\ held_number \in [Workers -> Nat]
    /\ held_order \in [Workers -> Orders \cup {NoOrder}]
    /\ held_status \in [Workers -> {"none", "initiated", "redirected"}]
    /\ pages \in [Orders -> Nat]
    /\ outcome \in [Txns -> {"none", "approved", "declined"}]
    /\ charge_of \in [Txns -> Orders \cup {NoOrder}]
    /\ answer \in [Txns -> {"none", "applied", "repeated"}]
    /\ paid_by \in [Orders -> Txns \cup {NoTxn}]
    /\ touched \subseteq Orders

(* As long as no order is deleted the orders of the day are numbered 1, 2, *)
(* 3 and so on without a gap or a repetition, whatever checkouts overlap,  *)
(* fail or die between their count and their insert: the number the next   *)
(* checkout counts is free, so that one of several always gets it.         *)
NumbersGapless ==
    (\A o \in Orders : number[o] # 0 => o \in live)
        => {number[o] : o \in live} = 1 .. Cardinality(live)

(* The session and the order are decided together: unless somebody set the *)
(* payment status by hand, a completed session's order is paid and a       *)
(* failed session's order is failed, however pages and answers overlap.    *)
DecidedTogether ==
    \A o \in live \ touched :
        /\ session[o] = "completed" => payment[o] = "paid"
        /\ session[o] = "failed" => payment[o] = "failed"

(* Nothing is completed without a charge, and no charge completes two      *)
(* orders, however often an answer is repeated, whichever order it meets   *)
(* and whether or not it carries a reference; the reference that a session *)
(* shows is the one of the charge that completed it, unless that has none. *)
CompletedReferenced ==
    /\ \A o \in live : session[o] = "completed" =>
          /\ paid_by[o] # NoTxn
          /\ outcome[paid_by[o]] = "approved"
          /\ paid_by[o] \in Unreferenced \/ reference[o] = paid_by[o]
    /\ \A o, p \in live : o # p =>
          /\ paid_by[o] = paid_by[p] => paid_by[o] = NoTxn
          /\ reference[o] = reference[p] => reference[o] = NoTxn

(* A session is completed by a charge made on its own page, so for the     *)
(* amount it stores ("return handler verifies WebXPay's reported amount    *)
(* matches this value exactly").                                           *)
CompletedByOwnCharge ==
    \A o \in live : session[o] = "completed" => charge_of[paid_by[o]] = o

(* What is answered from the session's end state is a callback that came   *)
(* before ("Idempotency: duplicate callback for already-completed/failed   *)
(* session"): the first callback of an approved charge is always applied.  *)
OnlyDuplicatesIgnored ==
    \A t \in Txns : outcome[t] = "approved" => answer[t] # "repeated"

(* "WebXPay confirmed payment approved - terminal": a completed session    *)
(* stays completed while its order exists.                                 *)
CompletedTerminal ==
    [][\A o \in live : session[o] = "completed" /\ o \in live'
          => session'[o] = "completed"]_vars

(* With one request at a time and no order deleted, sessions live the life *)
(* that is documented.                                                     *)
Lifecycle == INSTANCE PaymentLifecycle WITH life <- session

LifecycleRefined == Lifecycle!Spec
=============================================================================
