------------------------- MODULE InventoryFlow_proofs -------------------------
(***************************************************************************)
(* The inventory as a whole: receipts and reviews share nothing but the    *)
(* lots, so what each of them keeps by itself it keeps beside the other,   *)
(* for every set of receipts, orders, lots and overlapping requests; and   *)
(* with requests one at a time the two together implement the stock in     *)
(* which every request is atomic.                                          *)
(***************************************************************************)
EXTENDS InventoryFlow, PurchaseReceipts_proofs, ConsumptionReview_proofs

FlowInv == RowInv /\ LedgerInv /\ ReviewInv

LEMMA FlowInitInv == FlowInit => FlowInv
<1>1. FlowInit => LedgerInit
    BY DEF FlowInit, ReceiptInit
<1> QED BY <1>1, ReceiptInitInv, LedgerInitInv, ReviewInitInv DEF FlowInit, FlowInv

(* A review only takes off lots: it brings none. *)
LEMMA ReviewingBringsNoLot ==
    ASSUME NEW w \in Workers, ReviewRequest(w)
    PROVE  UNCHANGED present
<1>1. OrderRequest(w) \/ BuildReview(w) => UNCHANGED present
    BY DEF OrderRequest, CreateOrder, UpdateOrder, DeleteOrder, BuildReview, Refresh,
           FindEmptied, CommitDrop, Generate, CheckBlocked, FindPending, CommitGenerate, ledgerVars
<1>2. WorkReview(w) => UNCHANGED present
    BY DEF WorkReview, Load, CommitEdit, CommitDismiss, Allocate, CommitApprove, PostMovements,
           ledgerVars, lotVars
<1>3. AbandonReview(w) => UNCHANGED present
    BY DEF AbandonReview, Rollback, ledgerVars, lotVars
<1> QED BY <1>1, <1>2, <1>3 DEF ReviewRequest

LEMMA FlowNextInv == FlowInv /\ [FlowNext]_flowVars => FlowInv'
<1> SUFFICES ASSUME FlowInv, [FlowNext]_flowVars PROVE FlowInv'
    OBVIOUS
<1>0. RowInv /\ LedgerInv /\ ReviewInv
    BY DEF FlowInv
<1>1. ASSUME NEW w \in Workers, Receiving(w)
      PROVE  FlowInv'
    <2>1. ReceiptNext /\ UNCHANGED <<dataVars, reqVars>>
        BY <1>1 DEF Receiving, ReceiptNext
    <2> QED BY <1>0, <2>1, ReceiptNextInv, ReviewsAlone DEF FlowInv
<1>2. ASSUME NEW w \in Workers, Reviewing(w)
      PROVE  FlowInv'
    <2>1. ReviewNext /\ UNCHANGED <<rowVars, taskVars>> /\ UNCHANGED present
        BY <1>2, ReviewingBringsNoLot DEF Reviewing, ReviewNext
    <2>2. UNCHANGED <<rowVars, taskVars, present>>
        BY <2>1
    <2> QED BY <1>0, <2>1, <2>2, RowsUntouched, ReviewLedgerNext, ReviewNextInv DEF FlowInv
<1>3. ASSUME NEW w \in Workers, Counting(w)
      PROVE  FlowInv'
    <2>1. ManualUnlessReceiving(w) /\ UNCHANGED <<dataVars, reqVars>>
        BY <1>3 DEF Counting, ManualUnlessReceiving
    <2>2. ReceiptNext
        BY <2>1 DEF ReceiptNext
    <2> QED BY <1>0, <2>1, <2>2, ReceiptNextInv, ReviewsAlone DEF FlowInv
<1>4. CASE UNCHANGED flowVars
    <2>1. UNCHANGED receiptVars /\ UNCHANGED <<dataVars, reqVars>>
        BY <1>4 DEF flowVars, receiptVars
    <2> QED BY <1>0, <2>1, ReceiptNextInv, ReviewsAlone DEF FlowInv
<1> QED BY <1>1, <1>2, <1>3, <1>4 DEF FlowNext

(* The requests of a receipt buffer no movement of their own. *)
LEMMA ReceivingBuffersNone ==
    ASSUME NEW w \in Workers, ReceiptRequest(w)
    PROVE  UNCHANGED change
BY DEF ReceiptRequest, Create, Read, CommitUpdate, CommitDelete, AbandonReceipt, CommitConfirm,
       bufferVars, ledgerVars

LEMMA FlowAllocationNext ==
    FlowInv /\ AllocationInv /\ [FlowNext]_flowVars => FlowInv' /\ AllocationInv'
<1> SUFFICES ASSUME FlowInv, AllocationInv, [FlowNext]_flowVars PROVE FlowInv' /\ AllocationInv'
    OBVIOUS
<1>0. FlowInv' /\ LedgerInv'
    BY FlowNextInv DEF FlowInv
<1>1. ASSUME NEW w \in Workers, Receiving(w)
      PROVE  ReviewTypeOK' /\ AllocatedExact'
    <2>1. step[w] = "idle" /\ UNCHANGED <<dataVars, reqVars>> /\ UNCHANGED reqVars
        BY <1>1 DEF Receiving
    <2>2. \A u \in Workers : u # w => change'[u] = change[u]
        BY <1>1, ReceivingBuffersNone DEF Receiving
    <2> QED BY <2>1, <2>2, TypesAlone, AllocatedBeside DEF AllocationInv
<1>2. ASSUME NEW w \in Workers, Reviewing(w)
      PROVE  ReviewTypeOK' /\ AllocatedExact'
    BY <1>2, ReviewRequestTypes, AllocatedRequest DEF Reviewing, AllocationInv
<1>3. ASSUME NEW w \in Workers, Counting(w)
      PROVE  ReviewTypeOK' /\ AllocatedExact'
    <2>1. /\ step[w] = "idle" /\ ManualRequest(w) /\ UNCHANGED <<dataVars, reqVars>>
          /\ UNCHANGED reqVars
        BY <1>3 DEF Counting
    <2>2. \A u \in Workers : u # w => change'[u] = change[u]
        BY <2>1, ManualFillsOwn DEF AllocationInv, LedgerInv
    <2> QED BY <2>1, <2>2, TypesAlone, AllocatedBeside DEF AllocationInv
<1>4. ASSUME UNCHANGED flowVars
      PROVE  ReviewTypeOK' /\ AllocatedExact'
    <2>1. UNCHANGED <<ledgerVars, dataVars, reqVars>> /\ UNCHANGED <<dataVars, reqVars>>
        BY <1>4 DEF flowVars
    <2>2. ReviewTypeOK'
        BY <2>1, TypesAlone DEF AllocationInv
    <2>3. AllocatedExact'
        BY <2>1 DEF AllocationInv, AllocatedExact, ledgerVars, reqVars
    <2> QED BY <2>2, <2>3
<1>5. ReviewTypeOK' /\ AllocatedExact'
    BY <1>1, <1>2, <1>3, <1>4 DEF FlowNext
<1> QED BY <1>0, <1>5 DEF AllocationInv

LEMMA FlowAllocationInit == FlowInit => FlowInv /\ AllocationInv
BY FlowInitInv, AllocationInitInv DEF FlowInit

(* However receipts, reviews, adjustments and waste overlap, a receipt is  *)
(* posted once, an applied review has consumed the orders it lists, only a *)
(* stale write separates a lot from its movements, and rows and requests   *)
(* keep their types (confirm, approve, adjust and record_waste on the same *)
(* lots).                                                                  *)
THEOREM FlowSafe ==
    FlowSpec => [](/\ ReceiptTypeOK /\ ConfirmedOnce /\ StockFromConfirmed
                   /\ LedgerTypeOK /\ BalancedUnlessOverwritten /\ OpenIffStocked
                   /\ ReviewTypeOK /\ LinksConsistent /\ ApprovedConsumed)
<1>1. FlowInv /\ AllocationInv =>
          /\ ReceiptTypeOK /\ ConfirmedOnce /\ StockFromConfirmed
          /\ LedgerTypeOK /\ BalancedUnlessOverwritten /\ OpenIffStocked
          /\ ReviewTypeOK /\ LinksConsistent /\ ApprovedConsumed
    BY DEF FlowInv, RowInv, LedgerInv, ReviewInv, AllocationInv
<1> QED BY <1>1, FlowAllocationInit, FlowAllocationNext, PTL DEF FlowSpec

(* Also while receipts add lots, an approval posts exactly what it read    *)
(* for the review.                                                         *)
THEOREM FlowApprovals == FlowSpec => [][ApprovalExact]_flowVars
<1>1. AllocationInv => ApprovalExact
    BY ApprovalPosts DEF ApprovalExact
<1> QED BY <1>1, FlowAllocationInit, FlowAllocationNext, PTL DEF FlowSpec

-----------------------------------------------------------------------------
(* One request at a time *)

FlowSerialInv == SerialRowInv /\ SerialInv /\ SerialReviewInv

LEMMA FlowSerialInit == FlowInit => FlowSerialInv
<1>1. FlowInit => LedgerInit
    BY DEF FlowInit, ReceiptInit
<1>2. LedgerInit => SerialInv
    BY LedgerInitInv DEF SerialInv, LedgerInit
<1> QED BY <1>1, <1>2, SerialRowInit, SerialReviewInit DEF FlowInit, FlowSerialInv

(* With one worker no read is overtaken. *)
LEMMA NothingStale ==
    ASSUME OneRequest, SerialInv, NEW w \in Workers, PostMovements(w)
    PROVE  stale' = {} /\ overwritten' = {}
<1>1. Workers \ {w} = {}
    BY DEF OneRequest
<1> QED BY <1>1 DEF PostMovements, SerialInv

(* What the steps of reviews and receipts do to the lots: nothing, one     *)
(* posting, or the receipt of new lots.                                    *)
LEMMA ReviewingSteps ==
    ASSUME NEW w \in Workers, ReviewRequest(w)
    PROVE  PostMovements(w) \/ (UNCHANGED lotVars /\ stale' \subseteq stale /\ UNCHANGED overwritten)
<1>1. OrderRequest(w) \/ BuildReview(w) => UNCHANGED ledgerVars
    BY DEF OrderRequest, CreateOrder, UpdateOrder, DeleteOrder, BuildReview, Refresh,
           FindEmptied, CommitDrop, Generate, CheckBlocked, FindPending, CommitGenerate
<1>2. WorkReview(w) =>
          \/ PostMovements(w)
          \/ UNCHANGED ledgerVars
          \/ UNCHANGED lotVars /\ stale' \subseteq stale /\ UNCHANGED overwritten
    BY DEF WorkReview, Load, CommitEdit, CommitDismiss, Allocate, CommitApprove, Buffer
<1>3. AbandonReview(w) =>
          \/ UNCHANGED ledgerVars
          \/ UNCHANGED lotVars /\ stale' \subseteq stale /\ UNCHANGED overwritten
    BY DEF AbandonReview, Rollback
<1>4. UNCHANGED ledgerVars => UNCHANGED lotVars /\ stale' \subseteq stale /\ UNCHANGED overwritten
    BY DEF ledgerVars, lotVars
<1> QED BY <1>1, <1>2, <1>3, <1>4 DEF ReviewRequest

LEMMA ManualSteps ==
    ASSUME NEW w \in Workers, ManualRequest(w)
    PROVE  PostMovements(w) \/ (UNCHANGED lotVars /\ stale' \subseteq stale /\ UNCHANGED overwritten)
BY DEF ManualRequest, Adjust, Waste, Buffer, CommitMovements, Rollback

LEMMA ReceivingSteps ==
    ASSUME NEW w \in Workers, ReceiptRequest(w)
    PROVE  \/ \E f \in [Lines -> Lots] : CommitConfirm(w, f)
           \/ UNCHANGED ledgerVars
BY DEF ReceiptRequest, Create, Read, CommitUpdate, CommitDelete, AbandonReceipt

LEMMA FlowSerialNext ==
    ASSUME OneRequest, FlowSerialInv, [FlowNext]_flowVars
    PROVE  /\ FlowSerialInv'
           /\ \A r \in Receipts : rstatus[r] = "confirmed" => rstatus'[r] = "confirmed"
<1>0. /\ SerialRowInv /\ SerialInv /\ SerialReviewInv /\ LedgerInv
      /\ stale = {} /\ overwritten = {}
    BY DEF FlowSerialInv, SerialInv
<1>1. LedgerInv'
    <2>1. FlowInv
        BY <1>0 DEF FlowInv, SerialRowInv, SerialReviewInv
    <2> QED BY <2>1, FlowNextInv DEF FlowInv
<1>2. ASSUME NEW w \in Workers, Receiving(w)
      PROVE  /\ FlowSerialInv'
             /\ \A r \in Receipts : rstatus[r] = "confirmed" => rstatus'[r] = "confirmed"
    <2>1. ReceiptNext /\ ReceiptRequest(w) /\ UNCHANGED <<dataVars, reqVars>>
        BY <1>2 DEF Receiving, ReceiptNext
    <2>2. stale' = {} /\ overwritten' = {}
        BY <1>0, <2>1, ReceivingSteps DEF CommitConfirm, bufferVars, ledgerVars
    <2> QED BY <1>0, <1>1, <2>1, <2>2, SerialReceiptNext, SerialReviewsAlone
            DEF FlowSerialInv, SerialInv
<1>3. ASSUME NEW w \in Workers, Reviewing(w)
      PROVE  /\ FlowSerialInv'
             /\ \A r \in Receipts : rstatus[r] = "confirmed" => rstatus'[r] = "confirmed"
    <2>1. ReviewNext /\ ReviewRequest(w)
        BY <1>3 DEF Reviewing, ReviewNext
    <2>2. UNCHANGED <<rowVars, taskVars, present>>
        BY <1>3, <2>1, ReviewingBringsNoLot DEF Reviewing
    <2>3. stale' = {} /\ overwritten' = {}
        BY <1>0, <2>1, ReviewingSteps, NothingStale
    <2> QED BY <1>0, <1>1, <2>1, <2>2, <2>3, SerialRowsUntouched, SerialReviewNext
            DEF FlowSerialInv, SerialInv, rowVars
<1>4. ASSUME NEW w \in Workers, Counting(w)
      PROVE  /\ FlowSerialInv'
             /\ \A r \in Receipts : rstatus[r] = "confirmed" => rstatus'[r] = "confirmed"
    <2>1. ManualUnlessReceiving(w) /\ ManualRequest(w) /\ UNCHANGED <<dataVars, reqVars>>
        BY <1>4 DEF Counting, ManualUnlessReceiving
    <2>2. ReceiptNext
        BY <2>1 DEF ReceiptNext
    <2>3. stale' = {} /\ overwritten' = {}
        BY <1>0, <2>1, ManualSteps, NothingStale
    <2> QED BY <1>0, <1>1, <2>1, <2>2, <2>3, SerialReceiptNext, SerialReviewsAlone
            DEF FlowSerialInv, SerialInv
<1>5. CASE UNCHANGED flowVars
    <2>1. UNCHANGED receiptVars /\ UNCHANGED <<dataVars, reqVars>> /\ UNCHANGED ledgerVars
        BY <1>5 DEF flowVars, receiptVars
    <2>2. stale' = {} /\ overwritten' = {}
        BY <1>0, <2>1 DEF ledgerVars
    <2> QED BY <1>0, <1>1, <2>1, <2>2, SerialReceiptNext, SerialReviewsAlone
            DEF FlowSerialInv, SerialInv
<1> QED BY <1>2, <1>3, <1>4, <1>5 DEF FlowNext

(* With requests one at a time every service keeps what it promises, also  *)
(* where it uses the lots of the other: the lots of a confirmed receipt    *)
(* are those of its lines, no order is consumed twice or untraced, and     *)
(* "movement sums are the source of truth".                                *)
THEOREM FlowSerial ==
    ASSUME OneRequest
    PROVE  FlowSpec =>
              /\ [](/\ ConfirmedMatchesStock /\ LedgerExact
                    /\ ConsumedOnce /\ PendingUnconsumed /\ ConsumedTraced /\ OnePendingPerDate)
              /\ ConfirmedKept
<1>1. FlowSerialInv /\ [FlowNext]_flowVars => FlowSerialInv'
    BY FlowSerialNext
<1>2. FlowSerialInv /\ [FlowNext]_flowVars =>
          [\A r \in Receipts : rstatus[r] = "confirmed" => rstatus'[r] = "confirmed"]_receiptVars
    BY FlowSerialNext
<1>3. SerialInv => LedgerExact
    BY DEF SerialInv, LedgerInv, BalancedUnlessOverwritten, LedgerExact
<1>4. SerialReviewInv => ConsumedOnce /\ PendingUnconsumed /\ ConsumedTraced /\ OnePendingPerDate
    BY SerialReviewSafe
<1>5. FlowSerialInv => /\ ConfirmedMatchesStock /\ LedgerExact
                       /\ ConsumedOnce /\ PendingUnconsumed /\ ConsumedTraced /\ OnePendingPerDate
    BY <1>3, <1>4 DEF FlowSerialInv, SerialRowInv
<1> QED BY <1>1, <1>2, <1>5, FlowSerialInit, PTL DEF FlowSpec, ConfirmedKept
(* Confirming a receipt receives its lots in the abstract stock. *)
LEMMA ConfirmReceives ==
    ASSUME RowInv, LedgerInv, LedgerInv', NEW w \in Workers, NEW f \in [Lines -> Lots],
           CommitConfirm(w, f)
    PROVE  Stock!Next
<1> DEFINE S == loaded[w]
           New == {f[i] : i \in S}
<1>1. /\ S \subseteq Lines
      /\ \A i \in S : f[i] \in Lots /\ f[i] \notin present
      /\ ReceiveLots(f, target[w], S)
    BY DEF CommitConfirm, RowInv, ReceiptTypeOK
<1>2. /\ present' = present \cup New
      /\ \A i \in S : /\ lotLine'[f[i]] = i /\ receiptOf'[f[i]] = target[w]
                      /\ qty'[f[i]] = 0 + LineQty[i] /\ posted'[f[i]] = LineQty[i]
                      /\ active'[f[i]] = TRUE
      /\ \A l \in Lots : l \notin New =>
             /\ lotLine'[l] = lotLine[l] /\ receiptOf'[l] = receiptOf[l]
             /\ qty'[l] = qty[l] /\ posted'[l] = posted[l] /\ active'[l] = active[l]
    <2>1. ReceiptTypeOK
        BY DEF RowInv
    <2> HIDE DEF New
    <2> QED BY <2>1, ReceivedLots DEF New
<1>3. \A i \in S : LineQty[i] \in 1 .. MaxQty
    BY <1>1, ReceiptAssumption
<1>4. New \subseteq Lots \ present
    BY <1>1
<1>5. \A l \in New : qty'[l] > 0 /\ posted'[l] = qty'[l]
    BY <1>2, <1>3, LedgerAssumption
<1>6. qty' = [l \in Lots |-> qty'[l]] /\ posted' = [l \in Lots |-> posted'[l]]
    BY <1>1 DEF ReceiveLots
<1>7. /\ qty' = [l \in Lots |-> IF l \in New THEN qty'[l] ELSE qty[l]]
      /\ posted' = [l \in Lots |-> IF l \in New THEN qty'[l] ELSE posted[l]]
    <2> HIDE DEF New, S
    <2> QED BY <1>2, <1>5, <1>6
<1>8. Stock!Receive(New, qty')
    <2> HIDE DEF New, S
    <2> QED BY <1>2, <1>4, <1>5, <1>7 DEF Stock!Receive
<1>9. qty' \in [Lots -> 0 .. MaxQty]
    BY DEF LedgerInv, LedgerTypeOK, Quantities
<1>10. New \in SUBSET Lots
    BY <1>4
<1> HIDE DEF New, S
<1> QED BY <1>8, <1>9, <1>10 DEF Stock!Next

LEMMA PostingIsStockStep ==
    ASSUME SerialInv, LedgerInv', NEW w \in Workers, PostMovements(w)
    PROVE  Stock!Next
<1>1. Stock!Post(LotsOf(w), qty') /\ LotsOf(w) \in SUBSET Lots
    BY CommitPosts DEF LotsOf
<1>2. qty' \in [Lots -> 0 .. MaxQty]
    BY DEF LedgerInv, LedgerTypeOK, Quantities
<1> QED BY <1>1, <1>2 DEF Stock!Next

(* Receipts, approvals, adjustments and waste, one at a time, implement    *)
(* the atomic stock: a lot is opened once, by the receipt that confirms    *)
(* it, is posted to while it holds stock, and closes for good when it is   *)
(* drained.                                                                *)
THEOREM FlowRefinesStock ==
    ASSUME OneRequest
    PROVE  FlowSpec => StockRefined
<1>1. FlowInit => Stock!Init
    BY DEF FlowInit, ReceiptInit, LedgerInit, Stock!Init, Quantities
<1>2. ASSUME FlowSerialInv, FlowSerialInv', [FlowNext]_flowVars
      PROVE  [Stock!Next]_(Stock!vars)
    <2>1. RowInv /\ SerialInv /\ LedgerInv /\ LedgerInv'
        BY <1>2 DEF FlowSerialInv, SerialRowInv, SerialInv
    <2>2. UNCHANGED lotVars => UNCHANGED Stock!vars
        BY DEF lotVars, Stock!vars
    <2>3. ASSUME NEW w \in Workers, Receiving(w)
          PROVE  [Stock!Next]_(Stock!vars)
        <3>1. \/ \E f \in [Lines -> Lots] : CommitConfirm(w, f)
              \/ UNCHANGED ledgerVars
            BY <2>3, ReceivingSteps DEF Receiving
        <3> QED BY <2>1, <2>2, <3>1, ConfirmReceives DEF ledgerVars, lotVars
    <2>4. ASSUME NEW w \in Workers, Reviewing(w) \/ Counting(w)
          PROVE  [Stock!Next]_(Stock!vars)
        <3>1. PostMovements(w) \/ UNCHANGED lotVars
            BY <2>4, ReviewingSteps, ManualSteps DEF Reviewing, Counting
        <3> QED BY <2>1, <2>2, <3>1, PostingIsStockStep
    <2>5. UNCHANGED flowVars => UNCHANGED lotVars
        BY DEF flowVars, ledgerVars, lotVars
    <2> QED BY <1>2, <2>2, <2>3, <2>4, <2>5 DEF FlowNext
<1>3. FlowSerialInv /\ [FlowNext]_flowVars => FlowSerialInv'
    BY FlowSerialNext
<1> QED BY <1>1, <1>2, <1>3, FlowSerialInit, PTL DEF FlowSpec, Stock!Spec, StockRefined
=============================================================================
