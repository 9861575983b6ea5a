---------------------------- MODULE InventoryFlow ----------------------------
(***************************************************************************)
(* The inventory as a whole: receipts put lots on the ledger, reviews of   *)
(* delivered orders take them off again, adjustments and waste come in     *)
(* between.  A worker runs one request at a time, of either kind; the two  *)
(* services share nothing but the lots.                                    *)
(***************************************************************************)
EXTENDS PurchaseReceipts, ConsumptionReview

flowVars == <<ledgerVars, rowVars, taskVars, dataVars, reqVars>>

FlowInit == ReceiptInit /\ ReviewInit

Receiving(w) ==
    /\ step[w] = "idle"
    /\ ReceiptRequest(w)
    /\ UNCHANGED <<dataVars, reqVars>>

Reviewing(w) ==
    /\ op[w] = "none"
    /\ ReviewRequest(w)
    /\ UNCHANGED <<rowVars, taskVars>>

Counting(w) ==
    /\ op[w] = "none"
    /\ step[w] = "idle"
    /\ ManualRequest(w)
    /\ UNCHANGED <<rowVars, taskVars, dataVars, reqVars>>

FlowNext == \E w \in Workers : Receiving(w) \/ Reviewing(w) \/ Counting(w)

FlowSpec == FlowInit /\ [][FlowNext]_flowVars
=============================================================================
