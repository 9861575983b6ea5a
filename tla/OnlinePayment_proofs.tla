------------------------- MODULE OnlinePayment_proofs -------------------------
(***************************************************************************)
(* What holds of online payment for every set of orders, of overlapping    *)
(* requests and of gateway transactions.                                   *)
(***************************************************************************)
EXTENDS OnlinePayment, FiniteSetTheorems, TLAPS

(* Orders that exist have a number, and only they have a session; an order *)
(* that was never placed has never been paid.                              *)
RowsConsistent ==
    /\ \A o \in live : number[o] # 0
    /\ \A o \in Orders : number[o] = 0 => paid_by[o] = NoTxn
    /\ \A o \in Orders \ live : session[o] = "none" /\ reference[o] = NoTxn

(* Pages, requests and charges are about orders that were placed; their    *)
(* numbers stay what they were.                                            *)
WorkPlaced ==
    /\ \A o \in Orders : pages[o] # 0 => number[o] # 0
    /\ \A w \in Workers : step[w] = "numbered" => held_number[w] # 0
    /\ \A w \in Workers : step[w] \in {"placed", "page"} =>
          held_order[w] \in Orders /\ number[held_order[w]] # 0
    /\ \A t \in Txns : outcome[t] # "none" =>
          charge_of[t] \in Orders /\ number[charge_of[t]] # 0

(* A transaction that a session shows, or that completed it, is an         *)
(* approved charge for the number of the session's order.                  *)
NamedBy(t, o) ==
    t # NoTxn =>
        /\ t \in Txns
        /\ outcome[t] = "approved"
        /\ number[charge_of[t]] = number[o]

ReferencesNamed ==
    \A o \in live : NamedBy(reference[o], o) /\ NamedBy(paid_by[o], o)

(* The unique order_number. *)
NumbersUnique ==
    \A o, p \in live : number[o] = number[p] => o = p

(* A completed session has a charge, and its reference if that has one. *)
CompletedPaid ==
    \A o \in live : session[o] = "completed" =>
        /\ paid_by[o] # NoTxn
        /\ paid_by[o] \in Unreferenced \/ reference[o] = paid_by[o]

PaymentInv ==
    /\ PaymentTypeOK
    /\ RowsConsistent
    /\ WorkPlaced
    /\ ReferencesNamed
    /\ NumbersUnique
    /\ DecidedTogether
    /\ CompletedPaid

-----------------------------------------------------------------------------

LEMMA PaymentInitInv == Init => PaymentInv
<1> SUFFICES ASSUME Init PROVE PaymentInv
    OBVIOUS
<1> USE PaymentAssumption DEF Init
<1>1. PaymentTypeOK
    BY DEF PaymentTypeOK, Active
<1>2. RowsConsistent /\ WorkPlaced /\ ReferencesNamed
    BY DEF RowsConsistent, WorkPlaced, ReferencesNamed, NamedBy
<1>3. NumbersUnique /\ DecidedTogether /\ CompletedPaid
    BY DEF NumbersUnique, DecidedTogether, CompletedPaid
<1> QED BY <1>1, <1>2, <1>3 DEF PaymentInv

(* The next number is positive. *)
LEMMA NextNumberPositive ==
    ASSUME PaymentTypeOK
    PROVE  NextNumber \in Nat \ {0}
<1>1. IsFiniteSet(live)
    BY PaymentAssumption, FS_Subset DEF PaymentTypeOK
<1>2. Cardinality(live) \in Nat
    BY <1>1, FS_CardinalityType
<1> QED BY <1>2 DEF NextNumber

(* Steps that leave the rows alone and only change requests or the clock. *)
LEMMA RowsUntouched ==
    ASSUME PaymentInv, UNCHANGED <<rowVars, pages, gatewayVars, historyVars>>,
           PaymentTypeOK', WorkPlaced'
    PROVE  PaymentInv'
<1> USE DEF PaymentInv, rowVars, gatewayVars, historyVars
<1>1. RowsConsistent' /\ ReferencesNamed'
    BY DEF RowsConsistent, ReferencesNamed, NamedBy
<1>2. NumbersUnique' /\ DecidedTogether' /\ CompletedPaid'
    BY DEF NumbersUnique, DecidedTogether, CompletedPaid
<1> QED BY <1>1, <1>2

LEMMA RequestOnlyInv ==
    ASSUME PaymentInv, NEW w \in Workers,
           \/ CountOrders(w)
           \/ \E o \in Orders : OpenPage(w, o)
           \/ Abandon(w)
    PROVE  PaymentInv'
<1> USE DEF PaymentInv
<1>0. UNCHANGED <<rowVars, old, pages, gatewayVars, historyVars>>
    BY DEF CountOrders, OpenPage, Abandon
<1>1. PICK s \in {"idle", "numbered", "page"}, n \in Nat,
           o \in Orders \cup {NoOrder}, st \in {"none", "initiated", "redirected"} :
          /\ Goto(w, s, n, o, st)
          /\ s = "numbered" => n # 0
          /\ s = "page" => o \in live
    BY NextNumberPositive DEF CountOrders, OpenPage, Abandon, Done, PaymentTypeOK, Active
<1>2. PaymentTypeOK'
    BY <1>0, <1>1 DEF PaymentTypeOK, Goto, rowVars, gatewayVars, historyVars
<1>3. /\ \A v \in Workers : v # w => /\ step'[v] = step[v] /\ held_order'[v] = held_order[v]
                                     /\ held_number'[v] = held_number[v]
      /\ step'[w] = s /\ held_order'[w] = o /\ held_number'[w] = n
    BY <1>1 DEF PaymentTypeOK, Goto
<1>4. WorkPlaced'
    BY <1>0, <1>1, <1>3 DEF WorkPlaced, RowsConsistent, PaymentTypeOK, rowVars, gatewayVars
<1> QED BY <1>0, <1>2, <1>4, RowsUntouched

LEMMA AgeInv ==
    ASSUME PaymentInv, NEW o \in Orders, Age(o)
    PROVE  PaymentInv'
<1> USE DEF PaymentInv, Age, rowVars, reqVars, gatewayVars, historyVars
<1>1. PaymentTypeOK'
    BY DEF PaymentTypeOK
<1>2. WorkPlaced'
    BY DEF WorkPlaced
<1> QED BY <1>1, <1>2, RowsUntouched

LEMMA PlaceOrderInv ==
    ASSUME PaymentInv, NEW w \in Workers, NEW o \in Orders, NEW online \in BOOLEAN,
           PlaceOrder(w, o, online)
    PROVE  PaymentInv'
<1> USE DEF PaymentInv
<1>0. /\ step[w] = "numbered" /\ number[o] = 0 /\ o \notin live
      /\ held_number[w] \in Nat \ {0}
      /\ \A p \in live : number[p] # held_number[w]
    BY DEF PlaceOrder, NumberFree, WorkPlaced, RowsConsistent, PaymentTypeOK
<1>1. /\ live' = live \cup {o}
      /\ number'[o] = held_number[w]
      /\ \A p \in Orders : p # o => number'[p] = number[p] /\ payment'[p] = payment[p]
      /\ UNCHANGED <<session, reference, old, pages, gatewayVars, historyVars>>
    BY DEF PlaceOrder, PaymentTypeOK
<1>2. PICK s \in {"placed", "idle"}, q \in Orders \cup {NoOrder} :
          /\ Goto(w, s, 0, q, "none")
          /\ s = "placed" => q = o
    BY DEF PlaceOrder, Done
<1>3. PaymentTypeOK'
    <2>1. /\ number' \in [Orders -> Nat]
          /\ payment' \in [Orders -> {"none", "pending", "paid", "failed", "refunded"}]
        BY <1>0 DEF PlaceOrder, PaymentTypeOK
    <2>2. /\ step' \in [Workers -> {"idle", "numbered", "placed", "page"}]
          /\ held_number' \in [Workers -> Nat]
          /\ held_order' \in [Workers -> Orders \cup {NoOrder}]
          /\ held_status' \in [Workers -> {"none", "initiated", "redirected"}]
        BY <1>2 DEF Goto, PaymentTypeOK
    <2> QED BY <1>1, <2>1, <2>2 DEF PaymentTypeOK, gatewayVars, historyVars
<1>4. /\ \A v \in Workers : v # w => /\ step'[v] = step[v] /\ held_order'[v] = held_order[v]
                                     /\ held_number'[v] = held_number[v]
      /\ step'[w] = s /\ held_order'[w] = q
    BY <1>2 DEF PaymentTypeOK, Goto
<1>5. \A p \in Orders : number[p] # 0 => number'[p] = number[p] /\ number'[p] # 0
    BY <1>0, <1>1
<1>6. RowsConsistent'
    BY <1>0, <1>1, <1>5 DEF RowsConsistent, PaymentTypeOK, historyVars
<1>7. WorkPlaced'
    <2>1. \A v \in Workers : step'[v] = "numbered" => held_number'[v] # 0
        BY <1>2, <1>4 DEF WorkPlaced
    <2>2. \A v \in Workers : step'[v] \in {"placed", "page"} =>
              held_order'[v] \in Orders /\ number'[held_order'[v]] # 0
        BY <1>0, <1>1, <1>2, <1>4, <1>5 DEF WorkPlaced
    <2>3. \A p \in Orders : pages'[p] # 0 => number'[p] # 0
        BY <1>1, <1>5 DEF WorkPlaced
    <2>4. \A t \in Txns : outcome'[t] # "none" =>
              charge_of'[t] \in Orders /\ number'[charge_of'[t]] # 0
        BY <1>1, <1>5 DEF WorkPlaced, gatewayVars
    <2> QED BY <2>1, <2>2, <2>3, <2>4 DEF WorkPlaced
<1>8. reference[o] = NoTxn /\ session[o] = "none" /\ paid_by[o] = NoTxn
    BY <1>0 DEF RowsConsistent
<1>9. ReferencesNamed'
    <2> SUFFICES ASSUME NEW p \in live', NEW t \in {reference[p], paid_by[p]}, t # NoTxn
                 PROVE  /\ t \in Txns
                        /\ outcome[t] = "approved"
                        /\ number'[charge_of[t]] = number'[p]
        BY <1>1 DEF ReferencesNamed, NamedBy, gatewayVars, historyVars
    <2>1. p # o /\ p \in live /\ p \in Orders
        BY <1>1, <1>8 DEF PaymentTypeOK
    <2>2. /\ t \in Txns /\ outcome[t] = "approved" /\ number[charge_of[t]] = number[p]
          /\ charge_of[t] \in Orders /\ number[charge_of[t]] # 0
        BY <2>1 DEF ReferencesNamed, NamedBy, WorkPlaced
    <2> QED BY <1>1, <1>5, <2>1, <2>2
<1>10. NumbersUnique'
    BY <1>0, <1>1 DEF NumbersUnique, PaymentTypeOK
<1>11. DecidedTogether'
    BY <1>1, <1>8 DEF DecidedTogether, PaymentTypeOK, historyVars
<1>12. CompletedPaid'
    BY <1>1, <1>8 DEF CompletedPaid, PaymentTypeOK, historyVars
<1> QED BY <1>3, <1>6, <1>7, <1>9, <1>10, <1>11, <1>12

LEMMA SessionWritten ==
    ASSUME PaymentInv, NEW w \in Workers, CreateSession(w) \/ ServePage(w)
    PROVE  PaymentInv'
<1> DEFINE o == held_order[w]
<1> USE DEF PaymentInv
<1>0. /\ o \in Orders /\ number[o] # 0
      /\ UNCHANGED <<live, number, payment, reference, old, gatewayVars, historyVars>>
      /\ Done(w)
    BY DEF CreateSession, ServePage, WorkPlaced
<1>1. PICK st \in {"initiated", "redirected"} :
          \/ session' = session
          \/ o \in live /\ session' = [session EXCEPT ![o] = st]
    BY DEF CreateSession, ServePage
<1>2. \A p \in Orders : session'[p] = session[p] \/ (p \in live /\ session'[p] \in {"initiated", "redirected"})
    BY <1>0, <1>1 DEF PaymentTypeOK
<1>3. \/ pages' = pages
      \/ pages' = [pages EXCEPT ![o] = @ + 1]
    BY DEF CreateSession, ServePage
<1>4. PaymentTypeOK'
    <2>1. session' \in [Orders -> {"none", "initiated", "redirected", "completed", "failed"}]
        BY <1>0, <1>1 DEF PaymentTypeOK
    <2>2. pages' \in [Orders -> Nat]
        BY <1>0, <1>3 DEF PaymentTypeOK
    <2>3. /\ step' \in [Workers -> {"idle", "numbered", "placed", "page"}]
          /\ held_number' \in [Workers -> Nat]
          /\ held_order' \in [Workers -> Orders \cup {NoOrder}]
          /\ held_status' \in [Workers -> {"none", "initiated", "redirected"}]
        BY <1>0 DEF Done, Goto, PaymentTypeOK
    <2> QED BY <1>0, <2>1, <2>2, <2>3 DEF PaymentTypeOK, gatewayVars, historyVars
<1>5. RowsConsistent' /\ ReferencesNamed'
    BY <1>0, <1>2 DEF RowsConsistent, ReferencesNamed, NamedBy, gatewayVars, historyVars
<1>6. WorkPlaced'
    <2>1. \A p \in Orders : pages'[p] # 0 => number'[p] # 0
        BY <1>0, <1>3 DEF WorkPlaced, PaymentTypeOK
    <2>2. \A v \in Workers : step'[v] # "idle" =>
              /\ step'[v] = step[v] /\ held_order'[v] = held_order[v]
              /\ held_number'[v] = held_number[v]
        BY <1>0 DEF Done, Goto, PaymentTypeOK
    <2> QED BY <1>0, <2>1, <2>2 DEF WorkPlaced, gatewayVars
<1>7. NumbersUnique' /\ DecidedTogether' /\ CompletedPaid'
    BY <1>0, <1>2 DEF NumbersUnique, DecidedTogether, CompletedPaid, PaymentTypeOK, historyVars
<1> QED BY <1>4, <1>5, <1>6, <1>7

LEMMA PayInv ==
    ASSUME PaymentInv, NEW t \in Txns, NEW o \in Orders,
           NEW result \in {"approved", "declined"}, Pay(t, o, result)
    PROVE  PaymentInv'
<1> USE DEF PaymentInv
<1>1. pages[o] # 0
    <2> DEFINE C == {u \in Txns : charge_of[u] = o}
    <2>1. IsFiniteSet(C)
        BY PaymentAssumption, FS_Subset
    <2>2. Cardinality(C) \in Nat
        BY <2>1, FS_CardinalityType
    <2>3. Cardinality(C) < pages[o]
        BY DEF Pay
    <2> HIDE DEF C
    <2> QED BY <2>2, <2>3
<1>2. PaymentTypeOK'
    BY DEF Pay, PaymentTypeOK, rowVars, reqVars, historyVars
<1>3. \A u \in Txns :
          \/ u # t /\ outcome'[u] = outcome[u] /\ charge_of'[u] = charge_of[u]
          \/ u = t /\ outcome[u] = "none" /\ charge_of'[u] = o
    BY DEF Pay, PaymentTypeOK
<1>4. RowsConsistent' /\ NumbersUnique' /\ DecidedTogether'
    BY DEF Pay, RowsConsistent, NumbersUnique, DecidedTogether, rowVars, historyVars
<1>5. WorkPlaced'
    BY <1>1, <1>3 DEF Pay, WorkPlaced, rowVars, reqVars
<1>6. ReferencesNamed'
    BY <1>3 DEF Pay, ReferencesNamed, NamedBy, rowVars, historyVars
<1>7. CompletedPaid'
    BY DEF Pay, CompletedPaid, rowVars, historyVars
<1> QED BY <1>2, <1>4, <1>5, <1>6, <1>7

(* The reference of an answer is free, or it is the session's own already: *)
(* one live order at a time has the number the answer names.               *)
LEMMA ReferenceFree ==
    ASSUME PaymentInv, NEW t \in Txns, NEW o \in Named(t)
    PROVE  ReferenceFor(t, o) = IF t \in Unreferenced THEN reference[o] ELSE t
<1> USE DEF PaymentInv
<1> SUFFICES ASSUME NEW p \in live \ {o}, reference[p] = t PROVE FALSE
    BY DEF ReferenceFor, Assigned
<1>1. number[p] = number[charge_of[t]]
    BY PaymentAssumption DEF ReferencesNamed, NamedBy
<1> QED BY <1>1 DEF Named, NumbersUnique

LEMMA ReturnInv ==
    ASSUME PaymentInv, NEW t \in Txns, Return(t)
    PROVE  PaymentInv'
<1> USE DEF PaymentInv
<1>0. UNCHANGED <<live, number, old, reqVars, pages, gatewayVars, touched>>
    BY DEF Return
<1>1. PICK o \in Named(t) :
          \/ UNCHANGED <<session, reference, payment, paid_by>>
          \/ /\ outcome[t] = "approved"
             /\ reference' = [reference EXCEPT ![o] = ReferenceFor(t, o)]
             /\ session' = [session EXCEPT ![o] = "completed"]
             /\ payment' = [payment EXCEPT ![o] = "paid"]
             /\ paid_by' = [paid_by EXCEPT ![o] = t]
          \/ /\ session' = [session EXCEPT ![o] = "failed"]
             /\ payment' = [payment EXCEPT ![o] = "failed"]
             /\ UNCHANGED <<reference, paid_by>>
    BY DEF Return, Settle
<1>2. /\ o \in live /\ o \in Orders /\ number[o] = number[charge_of[t]]
      /\ ReferenceFor(t, o) = IF t \in Unreferenced THEN reference[o] ELSE t
    BY ReferenceFree DEF Named, PaymentTypeOK
<1>3. \A p \in Orders : p # o =>
          /\ session'[p] = session[p] /\ payment'[p] = payment[p]
          /\ reference'[p] = reference[p] /\ paid_by'[p] = paid_by[p]
    BY <1>1 DEF PaymentTypeOK
<1>4. \/ /\ session'[o] = session[o] /\ payment'[o] = payment[o]
         /\ reference'[o] = reference[o] /\ paid_by'[o] = paid_by[o]
      \/ /\ outcome[t] = "approved" /\ session'[o] = "completed" /\ payment'[o] = "paid"
         /\ reference'[o] = IF t \in Unreferenced THEN reference[o] ELSE t
         /\ paid_by'[o] = t
      \/ /\ session'[o] = "failed" /\ payment'[o] = "failed"
         /\ reference'[o] = reference[o] /\ paid_by'[o] = paid_by[o]
    BY <1>1, <1>2 DEF PaymentTypeOK
<1>5. PaymentTypeOK'
    <2>1. /\ session' \in [Orders -> {"none", "initiated", "redirected", "completed", "failed"}]
          /\ payment' \in [Orders -> {"none", "pending", "paid", "failed", "refunded"}]
          /\ reference' \in [Orders -> Txns \cup {NoTxn}]
          /\ paid_by' \in [Orders -> Txns \cup {NoTxn}]
        BY <1>1, <1>2 DEF PaymentTypeOK
    <2>2. answer' \in [Txns -> {"none", "applied", "repeated"}]
        BY DEF Return, PaymentTypeOK
    <2> QED BY <1>0, <2>1, <2>2 DEF PaymentTypeOK, reqVars, gatewayVars
<1>6. RowsConsistent' /\ WorkPlaced' /\ NumbersUnique'
    BY <1>0, <1>2, <1>3 DEF RowsConsistent, WorkPlaced, NumbersUnique, reqVars, gatewayVars
<1>7. ReferencesNamed'
    BY <1>0, <1>2, <1>3, <1>4 DEF ReferencesNamed, NamedBy, PaymentTypeOK, gatewayVars
<1>8. DecidedTogether'
    BY <1>0, <1>3, <1>4 DEF DecidedTogether, PaymentTypeOK
<1>9. CompletedPaid'
    BY <1>0, <1>3, <1>4, PaymentAssumption DEF CompletedPaid, PaymentTypeOK
<1> QED BY <1>5, <1>6, <1>7, <1>8, <1>9

LEMMA AdministratorInv ==
    ASSUME PaymentInv, NEW o \in Orders, Administrator(o)
    PROVE  PaymentInv'
<1> USE DEF PaymentInv
<1>1. ASSUME NEW v \in {"pending", "paid", "failed", "refunded"}, SetPayment(o, v)
      PROVE  PaymentInv'
    <2>1. PaymentTypeOK'
        BY <1>1 DEF SetPayment, PaymentTypeOK, reqVars, gatewayVars
    <2>2. RowsConsistent' /\ WorkPlaced' /\ ReferencesNamed' /\ NumbersUnique' /\ CompletedPaid'
        BY <1>1 DEF SetPayment, RowsConsistent, WorkPlaced, ReferencesNamed, NamedBy, NumbersUnique,
                    CompletedPaid, reqVars, gatewayVars
    <2>3. DecidedTogether'
        BY <1>1 DEF SetPayment, DecidedTogether, PaymentTypeOK
    <2> QED BY <2>1, <2>2, <2>3
<1>2. ASSUME DeleteOrder(o)
      PROVE  PaymentInv'
    <2>1. PaymentTypeOK'
        BY <1>2 DEF DeleteOrder, PaymentTypeOK, reqVars, gatewayVars, historyVars
    <2>2. /\ live' = live \ {o}
          /\ \A p \in live' : session'[p] = session[p] /\ payment'[p] = payment[p]
                              /\ reference'[p] = reference[p]
          /\ session'[o] = "none" /\ reference'[o] = NoTxn
          /\ UNCHANGED <<number, reqVars, pages, gatewayVars, paid_by, touched>>
        BY <1>2 DEF DeleteOrder, PaymentTypeOK, historyVars
    <2>3. RowsConsistent'
        <3>1. \A p \in Orders \ live : p # o => session'[p] = session[p] /\ reference'[p] = reference[p]
            BY <1>2 DEF DeleteOrder, PaymentTypeOK
        <3> QED BY <2>2, <3>1 DEF RowsConsistent
    <2>4. WorkPlaced' /\ ReferencesNamed'
        BY <2>2 DEF WorkPlaced, ReferencesNamed, NamedBy, reqVars, gatewayVars
    <2>5. NumbersUnique' /\ DecidedTogether' /\ CompletedPaid'
        BY <2>2 DEF NumbersUnique, DecidedTogether, CompletedPaid, gatewayVars
    <2> QED BY <2>1, <2>3, <2>4, <2>5
<1> QED BY <1>1, <1>2 DEF Administrator

LEMMA PaymentNextInv == PaymentInv /\ [Next]_vars => PaymentInv'
<1> SUFFICES ASSUME PaymentInv, [Next]_vars PROVE PaymentInv'
    OBVIOUS
<1>1. ASSUME NEW w \in Workers, Request(w) PROVE PaymentInv'
    BY <1>1, RequestOnlyInv, PlaceOrderInv, SessionWritten DEF Request
<1>2. ASSUME NEW t \in Txns, Gateway(t) PROVE PaymentInv'
    BY <1>2, PayInv, ReturnInv DEF Gateway
<1>3. ASSUME NEW o \in Orders, Age(o) \/ Administrator(o) PROVE PaymentInv'
    BY <1>3, AgeInv, AdministratorInv
<1>4. CASE UNCHANGED vars
    <2>1. PaymentTypeOK' /\ WorkPlaced'
        BY <1>4 DEF PaymentInv, PaymentTypeOK, WorkPlaced, vars, rowVars, reqVars, gatewayVars,
                     historyVars
    <2> QED BY <1>4, <2>1, RowsUntouched DEF vars
<1> QED BY <1>1, <1>2, <1>3, <1>4 DEF Next

(* One transaction is shown by, or completed, the session of one order. *)
LEMMA ChargesOnce == PaymentInv => CompletedReferenced
<1> SUFFICES ASSUME PaymentInv PROVE CompletedReferenced
    OBVIOUS
<1> USE DEF PaymentInv, ReferencesNamed, NamedBy
<1>1. \A o \in live : session[o] = "completed" =>
          /\ paid_by[o] # NoTxn
          /\ outcome[paid_by[o]] = "approved"
          /\ paid_by[o] \in Unreferenced \/ reference[o] = paid_by[o]
    BY DEF CompletedPaid
<1>2. \A o, p \in live : o # p => number[o] # number[p]
    BY DEF NumbersUnique
<1>3. \A o, p \in live : o # p =>
          /\ paid_by[o] = paid_by[p] => paid_by[o] = NoTxn
          /\ reference[o] = reference[p] => reference[o] = NoTxn
    BY <1>2
<1> QED BY <1>1, <1>3 DEF CompletedReferenced

(* Whatever checkouts, pages, answers and deletions overlap: an untouched  *)
(* order is paid or failed with its session, and a completed session has   *)
(* an approved charge of its own and its reference, if the answer carried  *)
(* one (process_return, _assign_gateway_reference).                        *)
THEOREM PaymentSafe ==
    PaymentSpec => [](PaymentTypeOK /\ DecidedTogether /\ CompletedReferenced)
<1>1. PaymentInv => PaymentTypeOK /\ DecidedTogether /\ CompletedReferenced
    BY ChargesOnce DEF PaymentInv
<1> QED BY <1>1, PaymentInitInv, PaymentNextInv, PTL DEF PaymentSpec

-----------------------------------------------------------------------------
(* The numbers of the day *)

(* A number belongs to an order that still exists. *)
NumbersLive == \A o \in Orders : number[o] # 0 => o \in live

Gapless == {number[o] : o \in live} = 1 .. Cardinality(live)

(* The numbers have no gap, and no checkout has counted beyond the next.   *)
NumbersCounted ==
    NumbersLive =>
        /\ Gapless
        /\ \A w \in Workers : step[w] = "numbered" => held_number[w] <= NextNumber

LEMMA LiveCounted ==
    ASSUME PaymentTypeOK
    PROVE  IsFiniteSet(live) /\ Cardinality(live) \in Nat
<1>1. IsFiniteSet(live)
    BY PaymentAssumption, FS_Subset DEF PaymentTypeOK
<1> QED BY <1>1, FS_CardinalityType

(* The unique number leaves the insert only the number that is next. *)
LEMMA PlacedCounted ==
    ASSUME PaymentInv, NumbersCounted,
           NEW w \in Workers, NEW o \in Orders, NEW online \in BOOLEAN, PlaceOrder(w, o, online)
    PROVE  NumbersCounted'
<1> USE DEF PaymentInv
<1> DEFINE c == Cardinality(live)
<1>0. IsFiniteSet(live) /\ c \in Nat
    BY LiveCounted
<1>1. /\ step[w] = "numbered" /\ number[o] = 0 /\ o \notin live
      /\ \A p \in live : number[p] # held_number[w]
      /\ held_number[w] \in Nat \ {0}
    BY DEF PlaceOrder, NumberFree, RowsConsistent, WorkPlaced, PaymentTypeOK
<1>2. /\ live' = live \cup {o}
      /\ number'[o] = held_number[w]
      /\ \A p \in Orders : p # o => number'[p] = number[p]
      /\ live \subseteq Orders
    BY DEF PlaceOrder, PaymentTypeOK
<1>3. Cardinality(live)' = c + 1
    BY <1>0, <1>1, <1>2, FS_AddElement
<1>4. \A v \in Workers : step'[v] = "numbered" => step[v] = "numbered" /\ held_number'[v] = held_number[v]
    BY DEF PlaceOrder, Done, Goto, PaymentTypeOK
<1> SUFFICES ASSUME NumbersLive' PROVE NumbersCounted'
    BY DEF NumbersCounted
<1>5. NumbersLive
    BY <1>1, <1>2 DEF NumbersLive
<1>6. /\ {number[p] : p \in live} = 1 .. c
      /\ \A v \in Workers : step[v] = "numbered" => held_number[v] <= c + 1
    BY <1>5 DEF NumbersCounted, Gapless, NextNumber
<1>7. {number'[p] : p \in live'} = {number[p] : p \in live} \cup {held_number[w]}
    BY <1>1, <1>2
<1>8. held_number[w] = c + 1
    <2>1. held_number[w] \notin 1 .. c
        BY <1>1, <1>6
    <2>2. held_number[w] <= c + 1
        BY <1>1, <1>6
    <2> HIDE DEF c
    <2> QED BY <1>0, <1>1, <2>1, <2>2
<1>9. Gapless'
    <2>1. {number'[p] : p \in live'} = (1 .. c) \cup {c + 1}
        BY <1>6, <1>7, <1>8
    <2>2. (1 .. c) \cup {c + 1} = 1 .. (c + 1)
        <3> HIDE DEF c
        <3> QED BY <1>0
    <2> QED BY <1>3, <2>1, <2>2 DEF Gapless
<1>10. \A v \in Workers : step'[v] = "numbered" => held_number'[v] <= NextNumber'
    <2> SUFFICES ASSUME NEW v \in Workers, step'[v] = "numbered"
                 PROVE  held_number'[v] <= Cardinality(live)' + 1
        BY DEF NextNumber
    <2>1. held_number'[v] <= c + 1 /\ held_number'[v] \in Nat
        BY <1>4, <1>6 DEF PaymentTypeOK
    <2> HIDE DEF c
    <2> QED BY <1>0, <1>3, <2>1
<1> QED BY <1>9, <1>10 DEF NumbersCounted

(* Steps that neither place nor delete an order leave the numbers. *)
LEMMA SameCounted ==
    ASSUME PaymentTypeOK, NumbersCounted, UNCHANGED <<live, number>>,
           \A w \in Workers : step'[w] = "numbered" =>
               \/ step[w] = "numbered" /\ held_number'[w] = held_number[w]
               \/ held_number'[w] = NextNumber
    PROVE  NumbersCounted'
<1>1. NumbersLive' => NumbersLive
    BY DEF NumbersLive
<1>2. Gapless => Gapless'
    BY DEF Gapless
<1>3. NextNumber' = NextNumber
    BY DEF NextNumber
<1>4. NextNumber <= NextNumber
    BY LiveCounted DEF NextNumber
<1> QED BY <1>1, <1>2, <1>3, <1>4 DEF NumbersCounted

LEMMA NumbersCountedStep ==
    ASSUME PaymentInv, NumbersCounted, [Next]_vars
    PROVE  NumbersCounted'
<1> USE DEF PaymentInv
<1>1. ASSUME NEW w \in Workers, Request(w)
      PROVE  NumbersCounted'
    <2>1. CASE CountOrders(w)
        <3>1. \A v \in Workers : v # w => step'[v] = step[v] /\ held_number'[v] = held_number[v]
            BY <2>1 DEF CountOrders, Goto, PaymentInv, PaymentTypeOK
        <3>2. held_number'[w] = NextNumber /\ UNCHANGED <<live, number>>
            BY <2>1 DEF CountOrders, Goto, PaymentInv, PaymentTypeOK, rowVars
        <3> QED BY <3>1, <3>2, SameCounted
    <2>2. CASE \/ CreateSession(w) \/ ServePage(w) \/ Abandon(w)
               \/ \E o \in Orders : OpenPage(w, o)
        <3>1. PICK s \in {"idle", "page"}, o \in Orders \cup {NoOrder},
                   st \in {"none", "initiated", "redirected"} : Goto(w, s, 0, o, st)
            BY <2>2 DEF CreateSession, ServePage, Abandon, OpenPage, Done, Active
        <3>2. \A v \in Workers : step'[v] = "numbered" =>
                  step[v] = "numbered" /\ held_number'[v] = held_number[v]
            BY <3>1 DEF Goto, PaymentInv, PaymentTypeOK
        <3>3. UNCHANGED <<live, number>>
            BY <2>2 DEF CreateSession, ServePage, Abandon, OpenPage, rowVars
        <3> QED BY <3>2, <3>3, SameCounted
    <2> QED BY <1>1, <2>1, <2>2, PlacedCounted DEF Request
<1>2. ASSUME NEW t \in Txns, Gateway(t)
      PROVE  NumbersCounted'
    <2>1. UNCHANGED <<live, number, reqVars>>
        BY <1>2 DEF Gateway, Pay, Return, rowVars
    <2> QED BY <2>1, SameCounted DEF reqVars
<1>3. ASSUME NEW o \in Orders, Age(o) \/ Administrator(o)
      PROVE  NumbersCounted'
    <2>1. CASE DeleteOrder(o)
        <3>1. number'[o] # 0 /\ o \notin live'
            BY <2>1 DEF DeleteOrder, PaymentInv, RowsConsistent
        <3> QED BY <3>1 DEF NumbersCounted, NumbersLive
    <2>2. CASE ~DeleteOrder(o)
        <3>1. UNCHANGED <<live, number, reqVars>>
            BY <1>3, <2>2 DEF Age, Administrator, SetPayment, rowVars
        <3> QED BY <3>1, SameCounted DEF reqVars
    <2> QED BY <2>1, <2>2
<1>4. CASE UNCHANGED vars
    BY <1>4, SameCounted DEF vars, rowVars, reqVars
<1> QED BY <1>1, <1>2, <1>3, <1>4 DEF Next

(* While no order is deleted the orders are numbered without a gap, for    *)
(* any number of overlapping checkouts: none has counted beyond the next   *)
(* number, and the unique order_number refuses the ones that have counted  *)
(* an earlier one (_generate_order_number).                                *)
THEOREM NumbersNext == PaymentSpec => []NumbersGapless
<1>1. Init => NumbersCounted
    <2> SUFFICES ASSUME Init PROVE NumbersCounted
        OBVIOUS
    <2>1. live = {} /\ Cardinality(live) = 0
        BY FS_EmptySet DEF Init
    <2>2. Gapless
        BY <2>1 DEF Gapless
    <2> QED BY <2>2 DEF Init, NumbersCounted
<1>2. PaymentInv /\ NumbersCounted /\ [Next]_vars => (PaymentInv /\ NumbersCounted)'
    BY PaymentNextInv, NumbersCountedStep
<1>3. NumbersCounted => NumbersGapless
    BY DEF NumbersCounted, NumbersLive, Gapless, NumbersGapless
<1> QED BY <1>1, <1>2, <1>3, PaymentInitInv, PTL DEF PaymentSpec

-----------------------------------------------------------------------------
(* Nothing deleted *)

NothingRemoved == Removable = {}

LEMMA NumbersLiveStep ==
    ASSUME NothingRemoved, PaymentTypeOK, NumbersLive, [Next]_vars
    PROVE  NumbersLive'
<1>1. ASSUME NEW w \in Workers, NEW o \in Orders, NEW online \in BOOLEAN,
             PlaceOrder(w, o, online)
      PROVE  NumbersLive'
    BY <1>1 DEF PlaceOrder, NumbersLive, PaymentTypeOK
<1>2. CASE UNCHANGED <<live, number>>
    BY <1>2 DEF NumbersLive
<1>3. ASSUME NEW w \in Workers, Request(w)
      PROVE  NumbersLive'
    BY <1>1, <1>2, <1>3
       DEF Request, CountOrders, CreateSession, OpenPage, ServePage, Abandon, rowVars
<1>4. ASSUME NEW t \in Txns, Gateway(t)
      PROVE  UNCHANGED <<live, number>>
    BY <1>4 DEF Gateway, Pay, Return, rowVars
<1>5. ASSUME NEW o \in Orders, Age(o) \/ Administrator(o)
      PROVE  UNCHANGED <<live, number>>
    BY <1>5 DEF Age, Administrator, SetPayment, DeleteOrder, NothingRemoved, rowVars
<1>6. CASE UNCHANGED vars
    BY <1>2, <1>6 DEF vars, rowVars
<1> QED BY <1>2, <1>3, <1>4, <1>5, <1>6 DEF Next

(* As long as no order is deleted, a session is completed only by a charge *)
(* made on its own page, whatever else overlaps: process_return finds the  *)
(* order by a number that no other order has ever had.                     *)
THEOREM OwnCharge ==
    ASSUME NothingRemoved
    PROVE  PaymentSpec => []CompletedByOwnCharge
<1>1. Init => NumbersLive
    BY DEF Init, NumbersLive
<1>2. PaymentInv /\ NumbersLive /\ [Next]_vars => (PaymentInv /\ NumbersLive)'
    BY PaymentNextInv, NumbersLiveStep DEF PaymentInv
<1>3. PaymentInv /\ NumbersLive => CompletedByOwnCharge
    BY PaymentAssumption
       DEF PaymentInv, NumbersLive, WorkPlaced, ReferencesNamed, NamedBy, NumbersUnique,
           CompletedPaid, CompletedByOwnCharge, PaymentTypeOK
<1> QED BY <1>1, <1>2, <1>3, PaymentInitInv, PTL DEF PaymentSpec

-----------------------------------------------------------------------------
(* One request at a time, nothing deleted *)

OneRequest == \A v, w \in Workers : v = w

(* A page is out only for a session that was redirected before, a charge   *)
(* only for a page that is out.                                            *)
SerialPages ==
    /\ NumbersLive
    /\ \A o \in Orders : pages[o] # 0 => session[o] \in {"redirected", "completed", "failed"}
    /\ \A t \in Txns : outcome[t] # "none" => pages[charge_of[t]] # 0

(* What the only request in flight has read is still so. *)
SerialRequest ==
    \A w \in Workers :
        /\ step[w] = "placed" => session[held_order[w]] = "none"
        /\ step[w] = "page" =>
              \/ held_status[w] = "initiated" /\ session[held_order[w]] = "initiated"
              \/ /\ held_status[w] = "redirected"
                 /\ session[held_order[w]] \in {"redirected", "completed", "failed"}

SerialInv == PaymentInv /\ SerialPages /\ SerialRequest

(* Every change of a session is a step of its documented life. *)
LifeStep ==
    \/ UNCHANGED session
    \/ \E o \in Orders :
          \/ session[o] = "none" /\ session' = [session EXCEPT ![o] = "initiated"]
          \/ session[o] = "initiated" /\ session' = [session EXCEPT ![o] = "redirected"]
          \/ \E e \in {"completed", "failed"} :
                session[o] = "redirected" /\ session' = [session EXCEPT ![o] = e]

LEMMA SerialRequestStep ==
    ASSUME OneRequest, SerialInv, NEW w \in Workers, Request(w)
    PROVE  SerialPages' /\ SerialRequest' /\ LifeStep
<1> USE DEF SerialInv
<1>0. \A v \in Workers : v = w
    BY DEF OneRequest
<1>1. CASE CountOrders(w) \/ Abandon(w)
    <2>1. UNCHANGED <<rowVars, pages, gatewayVars>> /\ step'[w] \in {"numbered", "idle"}
        BY <1>1 DEF CountOrders, Abandon, Done, Goto, PaymentInv, PaymentTypeOK
    <2> QED BY <1>0, <2>1 DEF SerialPages, NumbersLive, SerialRequest, LifeStep, rowVars, gatewayVars
<1>2. ASSUME NEW o \in Orders, OpenPage(w, o)
      PROVE  SerialPages' /\ SerialRequest' /\ LifeStep
    <2>1. /\ UNCHANGED <<rowVars, pages, gatewayVars>>
          /\ session[o] \in {"initiated", "redirected"}
          /\ step'[w] = "page" /\ held_order'[w] = o /\ held_status'[w] = session[o]
        BY <1>2 DEF OpenPage, Goto, Active, PaymentInv, PaymentTypeOK
    <2> QED BY <1>0, <2>1 DEF SerialPages, NumbersLive, SerialRequest, LifeStep, rowVars, gatewayVars
<1>3. ASSUME NEW o \in Orders, NEW online \in BOOLEAN, PlaceOrder(w, o, online)
      PROVE  SerialPages' /\ SerialRequest' /\ LifeStep
    <2>1. /\ UNCHANGED <<session, pages, gatewayVars>>
          /\ number[o] = 0 /\ live' = live \cup {o}
          /\ \A p \in Orders : p # o => number'[p] = number[p]
          /\ \/ step'[w] = "idle"
             \/ step'[w] = "placed" /\ held_order'[w] = o
        BY <1>3 DEF PlaceOrder, Done, Goto, PaymentInv, PaymentTypeOK
    <2>2. session[o] = "none"
        BY <2>1 DEF PaymentInv, RowsConsistent
    <2> QED BY <1>0, <2>1, <2>2 DEF SerialPages, NumbersLive, SerialRequest, LifeStep, gatewayVars
<1>4. CASE CreateSession(w)
    <2> DEFINE o == held_order[w]
    <2>1. /\ o \in Orders /\ session[o] = "none"
          /\ session' = [session EXCEPT ![o] = "initiated"]
          /\ UNCHANGED <<live, number, pages, gatewayVars>> /\ step'[w] = "idle"
        BY <1>4 DEF CreateSession, Done, Goto, SerialRequest, PaymentInv, WorkPlaced, PaymentTypeOK
    <2>2. pages[o] = 0
        BY <2>1 DEF SerialPages
    <2>3. SerialPages'
        BY <2>1, <2>2 DEF SerialPages, NumbersLive, gatewayVars, PaymentInv, PaymentTypeOK
    <2> QED BY <1>0, <2>1, <2>3 DEF SerialRequest, LifeStep
<1>5. CASE ServePage(w)
    <2> DEFINE o == held_order[w]
    <2>1. /\ o \in Orders /\ step[w] = "page" /\ step'[w] = "idle"
          /\ UNCHANGED <<live, number, gatewayVars>>
          /\ pages' = [pages EXCEPT ![o] = @ + 1]
        BY <1>5 DEF ServePage, Done, Goto, PaymentInv, WorkPlaced, PaymentTypeOK
    <2>2. \/ session[o] = "initiated" /\ session' = [session EXCEPT ![o] = "redirected"]
          \/ session[o] \in {"redirected", "completed", "failed"} /\ UNCHANGED session
        BY <1>5, <2>1 DEF ServePage, SerialRequest
    <2>3. pages'[o] # 0 /\ \A p \in Orders : p # o => pages'[p] = pages[p]
        BY <2>1 DEF PaymentInv, PaymentTypeOK
    <2>4. session'[o] \in {"redirected", "completed", "failed"}
          /\ \A p \in Orders : p # o => session'[p] = session[p]
        BY <2>1, <2>2 DEF PaymentInv, PaymentTypeOK
    <2>5. SerialPages'
        <3>1. \A t \in Txns : outcome[t] # "none" =>
                  charge_of[t] \in Orders /\ pages'[charge_of[t]] # 0
            BY <2>3 DEF SerialPages, PaymentInv, WorkPlaced
        <3> QED BY <2>1, <2>3, <2>4, <3>1 DEF SerialPages, NumbersLive, gatewayVars
    <2> QED BY <1>0, <2>1, <2>2, <2>5 DEF SerialRequest, LifeStep
<1> QED BY <1>1, <1>2, <1>3, <1>4, <1>5 DEF Request

LEMMA SerialGatewayStep ==
    ASSUME SerialInv, NEW t \in Txns, Gateway(t)
    PROVE  SerialPages' /\ SerialRequest' /\ LifeStep
<1> USE DEF SerialInv
<1>1. ASSUME NEW o \in Orders, NEW result \in {"approved", "declined"}, Pay(t, o, result)
      PROVE  SerialPages' /\ SerialRequest' /\ LifeStep
    <2>1. pages[o] # 0
        <3> DEFINE C == {u \in Txns : charge_of[u] = o}
        <3>1. Cardinality(C) \in Nat
            BY PaymentAssumption, FS_Subset, FS_CardinalityType
        <3>2. Cardinality(C) < pages[o]
            BY <1>1 DEF Pay
        <3> HIDE DEF C
        <3> QED BY <3>1, <3>2
    <2>2. UNCHANGED <<rowVars, reqVars, pages>>
        BY <1>1 DEF Pay
    <2>3. \A u \in Txns :
              \/ outcome'[u] = outcome[u] /\ charge_of'[u] = charge_of[u]
              \/ charge_of'[u] = o
        BY <1>1 DEF Pay, PaymentInv, PaymentTypeOK
    <2> QED BY <2>1, <2>2, <2>3 DEF SerialPages, NumbersLive, SerialRequest, LifeStep, rowVars, reqVars
<1>2. CASE Return(t)
    <2>0. UNCHANGED <<live, number, reqVars, pages, gatewayVars>> /\ outcome[t] # "none"
        BY <1>2 DEF Return
    <2>1. PICK o \in Named(t) :
              \/ UNCHANGED session
              \/ /\ session[o] \in Active
                 /\ \E e \in {"completed", "failed"} : session' = [session EXCEPT ![o] = e]
        BY <1>2 DEF Return, Settle
    <2>2. o \in Orders /\ o = charge_of[t] /\ pages[o] # 0
        BY <2>0 DEF Named, NumbersLive, SerialPages, PaymentInv, NumbersUnique, WorkPlaced, PaymentTypeOK
    <2>3. session[o] \in {"redirected", "completed", "failed"}
        BY <2>2 DEF SerialPages
    <2>4. LifeStep
        BY <2>1, <2>2, <2>3 DEF LifeStep, Active
    <2>5. /\ \A p \in Orders : p # o => session'[p] = session[p]
          /\ session'[o] \in {"redirected", "completed", "failed"}
        BY <2>1, <2>2, <2>3 DEF PaymentInv, PaymentTypeOK
    <2>6. SerialPages'
        BY <2>0, <2>5 DEF SerialPages, NumbersLive, gatewayVars
    <2>7. SerialRequest'
        <3> SUFFICES ASSUME NEW w \in Workers
                     PROVE  /\ step[w] = "placed" => session'[held_order[w]] = "none"
                            /\ step[w] = "page" =>
                                  \/ held_status[w] = "initiated" /\ session'[held_order[w]] = "initiated"
                                  \/ /\ held_status[w] = "redirected"
                                     /\ session'[held_order[w]] \in {"redirected", "completed", "failed"}
            BY <2>0 DEF SerialRequest, reqVars
        <3>1. step[w] \in {"placed", "page"} => held_order[w] \in Orders
            BY DEF PaymentInv, WorkPlaced
        <3> QED BY <2>3, <2>5, <3>1 DEF SerialRequest
    <2> QED BY <2>4, <2>6, <2>7
<1> QED BY <1>1, <1>2 DEF Gateway

LEMMA SerialNextInv ==
    ASSUME OneRequest, NothingRemoved, SerialInv, [Next]_vars
    PROVE  SerialInv' /\ LifeStep
<1>1. PaymentInv'
    BY PaymentNextInv DEF SerialInv
<1>2. ASSUME NEW o \in Orders, Age(o) \/ Administrator(o)
      PROVE  SerialPages' /\ SerialRequest' /\ LifeStep
    <2>1. UNCHANGED <<live, number, session, reqVars, pages, gatewayVars>>
        BY <1>2 DEF Age, Administrator, SetPayment, DeleteOrder, NothingRemoved, rowVars
    <2> QED BY <2>1 DEF SerialInv, SerialPages, NumbersLive, SerialRequest, LifeStep, reqVars, gatewayVars
<1>3. ASSUME UNCHANGED vars
      PROVE  SerialPages' /\ SerialRequest' /\ LifeStep
    <2>1. UNCHANGED <<live, number, session, reqVars, pages, gatewayVars>>
        BY <1>3 DEF vars, rowVars
    <2> QED BY <2>1 DEF SerialInv, SerialPages, NumbersLive, SerialRequest, LifeStep, reqVars, gatewayVars
<1>4. SerialPages' /\ SerialRequest' /\ LifeStep
    <2>1. ASSUME NEW w \in Workers, Request(w)
          PROVE  SerialPages' /\ SerialRequest' /\ LifeStep
        BY <2>1, SerialRequestStep
    <2>2. ASSUME NEW t \in Txns, Gateway(t)
          PROVE  SerialPages' /\ SerialRequest' /\ LifeStep
        BY <2>2, SerialGatewayStep
    <2> QED BY <1>2, <1>3, <2>1, <2>2 DEF Next
<1> QED BY <1>1, <1>4 DEF SerialInv

LEMMA SerialInitInv == Init => SerialInv
<1>1. Init => SerialPages /\ SerialRequest
    BY DEF Init, NumbersLive, SerialPages, SerialRequest
<1> QED BY <1>1, PaymentInitInv DEF SerialInv

(* Without overlapping requests and deletions a completed session stays    *)
(* completed.                                                              *)
THEOREM SerialCompletedTerminal ==
    ASSUME OneRequest, NothingRemoved
    PROVE  PaymentSpec => CompletedTerminal
<1>1. SerialInv /\ [Next]_vars => SerialInv'
    BY SerialNextInv
<1>2. ASSUME SerialInv, [Next]_vars
      PROVE  \A o \in live : session[o] = "completed" /\ o \in live'
                 => session'[o] = "completed"
    <2>1. LifeStep
        BY <1>2, SerialNextInv
    <2>2. live \subseteq Orders /\ session \in [Orders -> {"none", "initiated", "redirected", "completed", "failed"}]
        BY <1>2 DEF SerialInv, PaymentInv, PaymentTypeOK
    <2> QED BY <2>1, <2>2 DEF LifeStep
<1> QED BY <1>1, <1>2, SerialInitInv, PTL DEF PaymentSpec, CompletedTerminal

(* Without overlapping requests and deletions sessions live the life that  *)
(* models/payment_session.py documents.                                    *)
THEOREM SerialLifecycle ==
    ASSUME OneRequest, NothingRemoved
    PROVE  PaymentSpec => LifecycleRefined
<1>1. SerialInv /\ [Next]_vars => SerialInv'
    BY SerialNextInv
<1>2. Init => Lifecycle!Init
    BY DEF Init, Lifecycle!Init
<1>3. ASSUME SerialInv, [Next]_vars
      PROVE  [Lifecycle!Next]_session
    <2>1. LifeStep
        BY <1>3, SerialNextInv
    <2> QED BY <2>1 DEF LifeStep, Lifecycle!Next, Lifecycle!Begin, Lifecycle!Redirect,
                        Lifecycle!End, Lifecycle!Ends
<1> QED BY <1>1, <1>2, <1>3, SerialInitInv, PTL DEF PaymentSpec, LifecycleRefined, Lifecycle!Spec
=============================================================================
