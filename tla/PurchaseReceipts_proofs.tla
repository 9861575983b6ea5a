------------------------ MODULE PurchaseReceipts_proofs ------------------------
(***************************************************************************)
(* A receipt is posted to stock at most once, and the ledger stays as      *)
(* exact as manual requests leave it, for every set of receipts, lines,    *)
(* lots and overlapping operations.                                        *)
(***************************************************************************)
EXTENDS PurchaseReceipts, InventoryLedger_proofs

(* The rows: a draft is untouched stock-wise, has lines, and shares no     *)
(* line with another receipt.                                              *)
RowsConsistent ==
    /\ present \subseteq Lots
    /\ \A r \in Receipts : rstatus[r] = "draft" =>
          confirms[r] = 0 /\ linesOf[r] # {} /\ \A i \in linesOf[r] : ~HasLot(i)
    /\ \A r \in Receipts : rstatus[r] = "confirmed" => confirms[r] = 1
    /\ \A r \in Receipts : rstatus[r] = "unused" => confirms[r] = 0
    /\ \A r \in Receipts : rstatus[r] \in {"unused", "deleted"} => linesOf[r] = {}
    /\ \A q, r \in Receipts : q # r => linesOf[q] \cap linesOf[r] = {}
    /\ \A l \in Lots : lotLine[l] # NoLine => l \in present /\ lotLine[l] \in usedLines

(* What an operation in flight has read: lines of its own receipt only. *)
TasksOwnLines ==
    /\ \A w \in Workers : op[w] # "none" =>
          /\ rstatus[target[w]] # "unused"
          /\ loaded[w] # {}
          /\ \A r \in Receipts : r # target[w] => loaded[w] \cap linesOf[r] = {}
    /\ \A v, w \in Workers : op[v] # "none" /\ op[w] # "none" /\ target[v] # target[w]
          => loaded[v] \cap loaded[w] = {}

(* Two operations on one receipt that still see nothing but live lines    *)
(* share a line, so the first confirmation to commit blocks the other.    *)
TasksCollide ==
    \A v, w \in Workers :
        /\ op[v] # "none" /\ op[w] # "none" /\ target[v] = target[w]
        /\ loaded[v] \subseteq linesOf[target[v]]
        /\ loaded[w] \subseteq linesOf[target[v]]
        => loaded[v] \cap loaded[w] # {}

(* Once a receipt is confirmed, the lots of what any other operation read *)
(* can no longer be inserted.                                             *)
ConfirmedBlocks ==
    \A w \in Workers : op[w] # "none" /\ rstatus[target[w]] = "confirmed"
        => ~LotsInsertable(target[w], loaded[w])

RowInv ==
    /\ ReceiptTypeOK
    /\ RowsConsistent
    /\ TasksOwnLines
    /\ TasksCollide
    /\ ConfirmedBlocks
    /\ ConfirmedOnce
    /\ StockFromConfirmed

-----------------------------------------------------------------------------

LEMMA ReceiptInitInv == ReceiptInit => RowInv
<1> SUFFICES ASSUME ReceiptInit PROVE RowInv
    OBVIOUS
<1> USE ReceiptAssumption DEF ReceiptInit
<1>1. ReceiptTypeOK
    BY DEF ReceiptTypeOK
<1>2. RowsConsistent
    BY DEF RowsConsistent, LedgerInit
<1>3. TasksOwnLines /\ TasksCollide /\ ConfirmedBlocks
    BY DEF TasksOwnLines, TasksCollide, ConfirmedBlocks
<1>4. ConfirmedOnce /\ StockFromConfirmed
    BY DEF ConfirmedOnce, StockFromConfirmed, LedgerInit
<1> QED BY <1>1, <1>2, <1>3, <1>4 DEF RowInv

(* A step that leaves the rows and the tasks alone. *)
LEMMA RowsUntouched ==
    ASSUME RowInv, UNCHANGED <<rowVars, taskVars, present>>
    PROVE  RowInv'
<1> USE DEF RowInv, rowVars, taskVars
<1>1. ReceiptTypeOK'
    BY DEF ReceiptTypeOK
<1>2. RowsConsistent'
    BY DEF RowsConsistent, HasLot
<1>3. TasksOwnLines' /\ TasksCollide'
    BY DEF TasksOwnLines, TasksCollide
<1>4. ConfirmedBlocks'
    BY DEF ConfirmedBlocks, LotsInsertable, HasLot
<1>5. ConfirmedOnce' /\ StockFromConfirmed'
    BY DEF ConfirmedOnce, StockFromConfirmed
<1> QED BY <1>1, <1>2, <1>3, <1>4, <1>5

LEMMA ManualRows ==
    ASSUME RowInv, NEW w \in Workers, ManualUnlessReceiving(w)
    PROVE  RowInv'
<1>1. UNCHANGED present
    BY DEF ManualUnlessReceiving, ManualRequest, Adjust, Waste, CommitMovements, PostMovements, Rollback, lotVars
<1> QED BY <1>1, RowsUntouched DEF ManualUnlessReceiving

LEMMA AbandonRows ==
    ASSUME RowInv, NEW w \in Workers, AbandonReceipt(w)
    PROVE  RowInv'
<1> USE DEF RowInv, rowVars, ledgerVars, AbandonReceipt, Finish
<1>1. ReceiptTypeOK'
    BY DEF ReceiptTypeOK
<1>2. \A v \in Workers : op'[v] # "none" =>
          op[v] # "none" /\ target'[v] = target[v] /\ loaded'[v] = loaded[v]
    BY DEF ReceiptTypeOK
<1>3. RowsConsistent'
    BY DEF RowsConsistent, HasLot
<1>4. TasksOwnLines'
    BY <1>2 DEF TasksOwnLines
<1>5. TasksCollide'
    BY <1>2 DEF TasksCollide
<1>6. ConfirmedBlocks'
    BY <1>2 DEF ConfirmedBlocks, LotsInsertable, HasLot
<1>7. ConfirmedOnce' /\ StockFromConfirmed'
    BY DEF ConfirmedOnce, StockFromConfirmed
<1> QED BY <1>1, <1>3, <1>4, <1>5, <1>6, <1>7

LEMMA ReadRows ==
    ASSUME RowInv, NEW w \in Workers, NEW r \in Receipts,
           NEW o \in {"update", "delete", "confirm"}, Read(w, o, r)
    PROVE  RowInv'
<1> USE DEF RowInv, rowVars, ledgerVars, Read, Editable
<1>1. ReceiptTypeOK'
    BY DEF ReceiptTypeOK
<1>2. op'[w] = o /\ target'[w] = r /\ loaded'[w] = linesOf[r]
    BY DEF ReceiptTypeOK
<1>3. \A v \in Workers : v # w =>
          op'[v] = op[v] /\ target'[v] = target[v] /\ loaded'[v] = loaded[v]
    BY DEF ReceiptTypeOK
<1>4. RowsConsistent'
    BY DEF RowsConsistent, HasLot
<1>5. TasksOwnLines'
    <2>1. \A v \in Workers : op'[v] # "none" =>
              /\ rstatus[target'[v]] # "unused"
              /\ loaded'[v] # {}
              /\ \A q \in Receipts : q # target'[v] => loaded'[v] \cap linesOf[q] = {}
        <3> TAKE v \in Workers
        <3>1. CASE v = w
            BY <1>2, <3>1 DEF RowsConsistent
        <3>2. CASE v # w
            BY <1>3, <3>2 DEF TasksOwnLines
        <3> QED BY <3>1, <3>2
    <2>2. \A u, v \in Workers : op'[u] # "none" /\ op'[v] # "none" /\ target'[u] # target'[v]
              => loaded'[u] \cap loaded'[v] = {}
        <3> TAKE u, v \in Workers
        <3>1. CASE u = w /\ v = w
            BY <3>1
        <3>2. CASE u = w /\ v # w
            BY <1>2, <1>3, <3>2 DEF TasksOwnLines
        <3>3. CASE u # w /\ v = w
            BY <1>2, <1>3, <3>3 DEF TasksOwnLines
        <3>4. CASE u # w /\ v # w
            BY <1>3, <3>4 DEF TasksOwnLines
        <3> QED BY <3>1, <3>2, <3>3, <3>4
    <2> QED BY <2>1, <2>2 DEF TasksOwnLines
<1>6. TasksCollide'
    <2> SUFFICES ASSUME NEW u \in Workers, NEW v \in Workers,
                        op'[u] # "none", op'[v] # "none", target'[u] = target'[v],
                        loaded'[u] \subseteq linesOf[target'[u]],
                        loaded'[v] \subseteq linesOf[target'[u]]
                 PROVE  loaded'[u] \cap loaded'[v] # {}
        BY DEF TasksCollide
    <2>1. loaded'[u] # {} /\ loaded'[v] # {}
        BY <1>5 DEF TasksOwnLines
    <2>2. CASE u = w \/ v = w
        BY <1>2, <2>1, <2>2
    <2>3. CASE u # w /\ v # w
        BY <1>3, <2>3 DEF TasksCollide
    <2> QED BY <2>2, <2>3
<1>7. ConfirmedBlocks'
    <2> SUFFICES ASSUME NEW v \in Workers, op'[v] # "none", rstatus[target'[v]] = "confirmed"
                 PROVE  ~LotsInsertable(target'[v], loaded'[v])
        BY DEF ConfirmedBlocks, LotsInsertable, HasLot
    <2>1. v # w
        BY <1>2
    <2> QED BY <1>3, <2>1 DEF ConfirmedBlocks
<1>8. ConfirmedOnce' /\ StockFromConfirmed'
    BY DEF ConfirmedOnce, StockFromConfirmed
<1> QED BY <1>1, <1>4, <1>5, <1>6, <1>7, <1>8

LEMMA CreateRows ==
    ASSUME RowInv, NEW w \in Workers, NEW r \in Receipts, NEW N \in SUBSET Lines,
           Create(w, r, N)
    PROVE  RowInv'
<1> USE DEF RowInv, taskVars, ledgerVars, Create
<1>1. ReceiptTypeOK'
    BY DEF ReceiptTypeOK
<1>2. /\ linesOf'[r] = N /\ rstatus'[r] = "draft"
      /\ \A q \in Receipts : q # r => linesOf'[q] = linesOf[q] /\ rstatus'[q] = rstatus[q]
    BY DEF ReceiptTypeOK
<1>3. \A i \in N : ~HasLot(i)
    BY ReceiptAssumption DEF RowsConsistent, HasLot, ReceiptTypeOK
<1>4. \A i \in Lines : HasLot(i)' <=> HasLot(i)
    BY DEF HasLot
<1>5. \A q \in Receipts : linesOf[q] \cap N = {}
    BY DEF ReceiptTypeOK
<1>6. RowsConsistent'
    BY <1>2, <1>3, <1>4, <1>5 DEF RowsConsistent, ReceiptTypeOK
<1>7. \A v \in Workers : op[v] # "none" =>
          target[v] \in Receipts /\ target[v] # r /\ loaded[v] \cap N = {}
    BY DEF TasksOwnLines, ReceiptTypeOK
<1>8. TasksOwnLines'
    BY <1>2, <1>7 DEF TasksOwnLines
<1>9. TasksCollide'
    BY <1>2, <1>7 DEF TasksCollide
<1>10. ConfirmedBlocks'
    BY <1>2, <1>4, <1>7 DEF ConfirmedBlocks, LotsInsertable, HasLot
<1>11. ConfirmedOnce'
    BY <1>2 DEF ConfirmedOnce, RowsConsistent
<1>12. StockFromConfirmed'
    BY DEF StockFromConfirmed
<1> QED BY <1>1, <1>6, <1>8, <1>9, <1>10, <1>11, <1>12

LEMMA UpdateRows ==
    ASSUME RowInv, NEW w \in Workers, NEW N \in SUBSET Lines, CommitUpdate(w, N)
    PROVE  RowInv'
<1> DEFINE r == target[w]
           S == loaded[w]
<1> USE DEF RowInv, ledgerVars, CommitUpdate
<1>0. r \in Receipts /\ S \subseteq usedLines /\ op[w] # "none" /\ NoLine \notin S
    BY ReceiptAssumption DEF ReceiptTypeOK
<1>1. ReceiptTypeOK'
    BY <1>0 DEF ReceiptTypeOK, Finish, Unlink
<1>2. /\ linesOf'[r] = (linesOf[r] \ S) \cup N
      /\ \A q \in Receipts : q # r => linesOf'[q] = linesOf[q]
    BY <1>0 DEF ReceiptTypeOK
<1>3. \A v \in Workers : op'[v] # "none" =>
          v # w /\ op[v] # "none" /\ target'[v] = target[v] /\ loaded'[v] = loaded[v]
    BY DEF ReceiptTypeOK, Finish
<1>4. \A i \in Lines : HasLot(i)' <=> HasLot(i) /\ i \notin S
    BY ReceiptAssumption DEF HasLot, Unlink, ReceiptTypeOK, RowsConsistent
<1>5. \A i \in N : ~HasLot(i) /\ i \notin usedLines
    BY ReceiptAssumption DEF RowsConsistent, HasLot, ReceiptTypeOK
<1>6. RowsConsistent'
    <2>1. \A q \in Receipts : rstatus'[q] = "draft" =>
              confirms'[q] = 0 /\ linesOf'[q] # {} /\ \A i \in linesOf'[q] : ~HasLot(i)'
        BY <1>0, <1>2, <1>4, <1>5 DEF RowsConsistent, ReceiptTypeOK
    <2>2. \A q \in Receipts : rstatus'[q] \in {"unused", "deleted"} => linesOf'[q] = {}
        BY <1>0, <1>2 DEF RowsConsistent, Exists
    <2>3. \A p, q \in Receipts : p # q => linesOf'[p] \cap linesOf'[q] = {}
        BY <1>0, <1>2, <1>5 DEF RowsConsistent, ReceiptTypeOK
    <2>4. \A l \in Lots : lotLine'[l] # NoLine => l \in present' /\ lotLine'[l] \in usedLines'
        BY DEF RowsConsistent, Unlink
    <2> QED BY <2>1, <2>2, <2>3, <2>4 DEF RowsConsistent, Exists
<1>7. TasksOwnLines'
    <2>1. \A v \in Workers : op[v] # "none" => loaded[v] \cap N = {}
        BY <1>5 DEF ReceiptTypeOK
    <2> QED BY <1>0, <1>2, <1>3, <2>1 DEF TasksOwnLines
<1>8. \A v \in Workers : op'[v] # "none" =>
          /\ target[v] \in Receipts
          /\ loaded[v] \subseteq linesOf'[target[v]] => loaded[v] \subseteq linesOf[target[v]]
    BY <1>0, <1>2, <1>3, <1>5 DEF ReceiptTypeOK
<1>9. TasksCollide'
    BY <1>3, <1>8 DEF TasksCollide
<1>10. ConfirmedBlocks'
    <2> SUFFICES ASSUME NEW v \in Workers, op'[v] # "none", rstatus[target[v]] = "confirmed",
                        loaded[v] \subseteq linesOf'[target[v]],
                        \A i \in loaded[v] : ~HasLot(i)'
                 PROVE  FALSE
        BY <1>3 DEF ConfirmedBlocks, LotsInsertable, HasLot
    <2>1. \A i \in loaded[v] : ~HasLot(i)
        <3>1. CASE target[v] = r
            <4>1. loaded[v] \cap S = {}
                BY <1>0, <1>2, <1>3, <1>5, <3>1 DEF ReceiptTypeOK
            <4> QED BY <1>3, <1>4, <4>1 DEF ReceiptTypeOK
        <3>2. CASE target[v] # r
            <4>1. loaded[v] \cap S = {}
                BY <1>0, <1>3, <3>2 DEF TasksOwnLines
            <4> QED BY <1>3, <1>4, <4>1 DEF ReceiptTypeOK
        <3> QED BY <3>1, <3>2
    <2> QED BY <1>3, <1>8, <2>1 DEF ConfirmedBlocks, LotsInsertable
<1>11. ConfirmedOnce'
    BY DEF ConfirmedOnce
<1>12. StockFromConfirmed'
    BY DEF StockFromConfirmed, Unlink, LedgerInit, RowsConsistent, ReceiptTypeOK
<1> QED BY <1>1, <1>6, <1>7, <1>9, <1>10, <1>11, <1>12

LEMMA DeleteRows ==
    ASSUME RowInv, NEW w \in Workers, CommitDelete(w)
    PROVE  RowInv'
<1> DEFINE r == target[w]
           S == linesOf[r]
<1> USE DEF RowInv, ledgerVars, CommitDelete
<1>0. r \in Receipts /\ S \subseteq Lines /\ op[w] # "none" /\ NoLine \notin S
    BY ReceiptAssumption DEF ReceiptTypeOK
<1>1. ReceiptTypeOK'
    BY <1>0 DEF ReceiptTypeOK, Finish, Unlink
<1>2. /\ linesOf'[r] = {} /\ rstatus'[r] = "deleted"
      /\ \A q \in Receipts : q # r => linesOf'[q] = linesOf[q] /\ rstatus'[q] = rstatus[q]
    BY <1>0 DEF ReceiptTypeOK
<1>3. \A v \in Workers : op'[v] # "none" =>
          /\ v # w /\ op[v] # "none" /\ target'[v] = target[v] /\ loaded'[v] = loaded[v]
          /\ target[v] \in Receipts /\ loaded[v] \subseteq Lines
    BY DEF ReceiptTypeOK, Finish
<1>4. \A i \in Lines : HasLot(i)' <=> HasLot(i) /\ i \notin S
    BY ReceiptAssumption DEF HasLot, Unlink, ReceiptTypeOK, RowsConsistent
<1>5. RowsConsistent'
    <2>1. \A q \in Receipts : rstatus'[q] = "draft" =>
              confirms'[q] = 0 /\ linesOf'[q] # {} /\ \A i \in linesOf'[q] : ~HasLot(i)'
        BY <1>0, <1>2, <1>4 DEF RowsConsistent, ReceiptTypeOK
    <2>2. \A q \in Receipts :
              /\ rstatus'[q] = "confirmed" => confirms'[q] = 1
              /\ rstatus'[q] = "unused" => confirms'[q] = 0
              /\ rstatus'[q] \in {"unused", "deleted"} => linesOf'[q] = {}
        BY <1>0, <1>2 DEF RowsConsistent
    <2>3. \A p, q \in Receipts : p # q => linesOf'[p] \cap linesOf'[q] = {}
        BY <1>0, <1>2 DEF RowsConsistent
    <2>4. \A l \in Lots : lotLine'[l] # NoLine => l \in present' /\ lotLine'[l] \in usedLines'
        BY DEF RowsConsistent, Unlink
    <2> QED BY <2>1, <2>2, <2>3, <2>4 DEF RowsConsistent
<1>6. TasksOwnLines'
    BY <1>0, <1>2, <1>3 DEF TasksOwnLines
<1>7. \A v \in Workers : op'[v] # "none" /\ loaded[v] \subseteq linesOf'[target[v]] =>
          target[v] # r /\ loaded[v] \subseteq linesOf[target[v]]
    BY <1>2, <1>3 DEF TasksOwnLines
<1>8. TasksCollide'
    BY <1>3, <1>7 DEF TasksCollide
<1>9. ConfirmedBlocks'
    <2> SUFFICES ASSUME NEW v \in Workers, op'[v] # "none", rstatus'[target[v]] = "confirmed",
                        loaded[v] \subseteq linesOf'[target[v]],
                        \A i \in loaded[v] : ~HasLot(i)'
                 PROVE  FALSE
        BY <1>3 DEF ConfirmedBlocks, LotsInsertable, HasLot
    <2>1. target[v] # r /\ loaded[v] \subseteq linesOf[target[v]]
        BY <1>7
    <2>2. loaded[v] \cap S = {}
        BY <1>0, <1>3, <2>1 DEF TasksOwnLines
    <2>3. \A i \in loaded[v] : ~HasLot(i)
        BY <1>3, <1>4, <2>2
    <2> QED BY <1>2, <1>3, <2>1, <2>3 DEF ConfirmedBlocks, LotsInsertable
<1>10. ConfirmedOnce'
    <2>1. confirms[r] <= 1
        BY <1>0 DEF ConfirmedOnce
    <2> QED BY <1>2, <2>1 DEF ConfirmedOnce
<1>11. StockFromConfirmed'
    BY DEF StockFromConfirmed, Unlink, RowsConsistent, ReceiptTypeOK
<1> QED BY <1>1, <1>5, <1>6, <1>8, <1>9, <1>10, <1>11

(* Every new lot stands for exactly one line of the confirmed receipt. *)
LEMMA ReceivedLots ==
    ASSUME ReceiptTypeOK, NEW w \in Workers, NEW f \in [Lines -> Lots],
           NEW New, New = {f[i] : i \in loaded[w]},
           CommitConfirm(w, f)
    PROVE  /\ present' = present \cup New
           /\ \A i \in loaded[w] :
                  /\ lotLine'[f[i]] = i /\ receiptOf'[f[i]] = target[w]
                  /\ qty'[f[i]] = 0 + LineQty[i] /\ posted'[f[i]] = LineQty[i]
                  /\ active'[f[i]] = TRUE
           /\ \A l \in Lots : l \notin New =>
                  /\ lotLine'[l] = lotLine[l] /\ receiptOf'[l] = receiptOf[l]
                  /\ qty'[l] = qty[l] /\ posted'[l] = posted[l] /\ active'[l] = active[l]
<1> DEFINE S == loaded[w]
           r == target[w]
           line(l) == CHOOSE i \in S : f[i] = l
<1>0. S \subseteq Lines /\ \A i, j \in S : f[i] = f[j] => i = j
    BY DEF ReceiptTypeOK, CommitConfirm
<1>1. \A i \in S : line(f[i]) = i
    <2> TAKE i \in S
    <2>1. \E j \in S : f[j] = f[i]
        OBVIOUS
    <2>2. line(f[i]) \in S /\ f[line(f[i])] = f[i]
        BY <2>1
    <2> QED BY <1>0, <2>2
<1>2. \A i \in S : f[i] \in Lots /\ f[i] \in New
    BY <1>0
<1> HIDE DEF line
<1>3. /\ lotLine' = [l \in Lots |-> IF l \in New THEN line(l) ELSE lotLine[l]]
      /\ receiptOf' = [l \in Lots |-> IF l \in New THEN r ELSE receiptOf[l]]
      /\ qty' = [l \in Lots |-> IF l \in New THEN 0 + LineQty[line(l)] ELSE qty[l]]
      /\ posted' = [l \in Lots |-> IF l \in New THEN LineQty[line(l)] ELSE posted[l]]
      /\ active' = [l \in Lots |-> IF l \in New THEN TRUE ELSE active[l]]
      /\ present' = present \cup New
    BY DEF CommitConfirm, ReceiveLots, Opening, line
<1>4. \A i \in S : /\ lotLine'[f[i]] = i /\ receiptOf'[f[i]] = r
                   /\ qty'[f[i]] = 0 + LineQty[i] /\ posted'[f[i]] = LineQty[i]
                   /\ active'[f[i]] = TRUE
    BY <1>1, <1>2, <1>3
<1>5. \A l \in Lots : l \notin New =>
          /\ lotLine'[l] = lotLine[l] /\ receiptOf'[l] = receiptOf[l]
          /\ qty'[l] = qty[l] /\ posted'[l] = posted[l] /\ active'[l] = active[l]
    BY <1>3
<1> QED BY <1>3, <1>4, <1>5

LEMMA ConfirmRows ==
    ASSUME RowInv, LedgerInv, NEW w \in Workers, NEW f \in [Lines -> Lots],
           CommitConfirm(w, f)
    PROVE  RowInv' /\ LedgerInv'
<1> DEFINE r == target[w]
           S == loaded[w]
           New == {f[i] : i \in S}
<1> USE DEF RowInv
<1>0. /\ r \in Receipts /\ S \in SUBSET Lines /\ op[w] # "none"
      /\ \A i, j \in S : f[i] = f[j] => i = j
      /\ \A i \in S : f[i] \in Lots /\ f[i] \notin present
      /\ S \subseteq linesOf[r] /\ \A i \in S : ~HasLot(i)
      /\ ReceiveLots(f, r, S)
    BY DEF ReceiptTypeOK, CommitConfirm, LotsInsertable
<1>1. /\ present' = present \cup New
      /\ \A i \in S : /\ lotLine'[f[i]] = i /\ receiptOf'[f[i]] = r
                      /\ qty'[f[i]] = 0 + LineQty[i] /\ posted'[f[i]] = LineQty[i]
                      /\ active'[f[i]] = TRUE
      /\ \A l \in Lots : l \notin New =>
             /\ lotLine'[l] = lotLine[l] /\ receiptOf'[l] = receiptOf[l]
             /\ qty'[l] = qty[l] /\ posted'[l] = posted[l] /\ active'[l] = active[l]
    <2> HIDE DEF New
    <2> QED BY ReceivedLots DEF New
<1>2. /\ rstatus[r] = "draft" /\ confirms[r] = 0
      /\ rstatus'[r] = "confirmed" /\ confirms'[r] = 1
      /\ \A q \in Receipts : q # r => rstatus'[q] = rstatus[q] /\ confirms'[q] = confirms[q]
    <2>1. rstatus[r] = "draft"
        BY <1>0 DEF CommitConfirm, Exists, ConfirmedBlocks
    <2>2. confirms[r] = 0
        BY <1>0, <2>1 DEF RowsConsistent
    <2> QED BY <1>0, <2>1, <2>2 DEF CommitConfirm, ReceiptTypeOK
<1>3. ReceiptTypeOK'
    <2>1. lotLine' \in [Lots -> Lines \cup {NoLine}] /\ receiptOf' \in [Lots -> Receipts \cup {NoReceipt}]
        <3>1. \A l \in Lots : /\ lotLine'[l] \in Lines \cup {NoLine}
                              /\ receiptOf'[l] \in Receipts \cup {NoReceipt}
            BY <1>0, <1>1 DEF ReceiptTypeOK
        <3>2. /\ lotLine' = [l \in Lots |-> lotLine'[l]]
              /\ receiptOf' = [l \in Lots |-> receiptOf'[l]]
            BY <1>0 DEF ReceiveLots
        <3> QED BY <3>1, <3>2
    <2>2. confirms' \in [Receipts -> Nat] /\ rstatus' \in [Receipts -> {"unused", "draft", "confirmed", "deleted"}]
        BY <1>0 DEF CommitConfirm, ReceiptTypeOK
    <2>3. /\ op' \in [Workers -> {"none", "update", "delete", "confirm"}]
          /\ target' \in [Workers -> Receipts \cup {NoReceipt}]
          /\ loaded' \in [Workers -> SUBSET usedLines]
          /\ \A v \in Workers : op'[v] # "none" => target'[v] \in Receipts
        BY DEF CommitConfirm, ReceiptTypeOK, Finish
    <2> QED BY <2>1, <2>2, <2>3 DEF CommitConfirm, ReceiptTypeOK
<1>4. \A v \in Workers : op'[v] # "none" =>
          /\ v # w /\ op[v] # "none" /\ target'[v] = target[v] /\ loaded'[v] = loaded[v]
          /\ target[v] \in Receipts /\ loaded[v] \subseteq Lines
    BY DEF ReceiptTypeOK, Finish, CommitConfirm
<1>5. \A i \in Lines : HasLot(i)' <=> HasLot(i) \/ i \in S
    <2> TAKE i \in Lines
    <2>1. HasLot(i) => HasLot(i)'
        BY <1>0, <1>1 DEF HasLot, RowsConsistent
    <2>2. i \in S => HasLot(i)'
        BY <1>0, <1>1 DEF HasLot
    <2>3. HasLot(i)' => HasLot(i) \/ i \in S
        BY <1>0, <1>1 DEF HasLot, RowsConsistent
    <2> QED BY <2>1, <2>2, <2>3
<1>6. linesOf' = linesOf /\ usedLines' = usedLines
    BY DEF CommitConfirm
<1>7. RowsConsistent'
    <2>1. present' \subseteq Lots
        BY <1>0, <1>1 DEF RowsConsistent
    <2>2. \A q \in Receipts : rstatus'[q] = "draft" =>
              confirms'[q] = 0 /\ linesOf[q] # {} /\ \A i \in linesOf[q] : ~HasLot(i)'
        <3> SUFFICES ASSUME NEW q \in Receipts, rstatus'[q] = "draft"
                     PROVE  confirms'[q] = 0 /\ linesOf[q] # {} /\ \A i \in linesOf[q] : ~HasLot(i)'
            OBVIOUS
        <3>1. q # r /\ rstatus[q] = "draft" /\ confirms'[q] = confirms[q]
            BY <1>2
        <3>2. linesOf[q] \cap S = {} /\ linesOf[q] \subseteq Lines
            BY <1>0, <3>1 DEF RowsConsistent, ReceiptTypeOK
        <3> QED BY <1>5, <3>1, <3>2 DEF RowsConsistent
    <2>3. \A q \in Receipts :
              /\ rstatus'[q] = "confirmed" => confirms'[q] = 1
              /\ rstatus'[q] = "unused" => confirms'[q] = 0
              /\ rstatus'[q] \in {"unused", "deleted"} => linesOf[q] = {}
        BY <1>2 DEF RowsConsistent
    <2>4. \A l \in Lots : lotLine'[l] # NoLine => l \in present' /\ lotLine'[l] \in usedLines
        BY <1>0, <1>1 DEF RowsConsistent, ReceiptTypeOK
    <2> QED BY <1>6, <2>1, <2>2, <2>3, <2>4 DEF RowsConsistent
<1>8. TasksOwnLines'
    <2>1. \A v \in Workers : op'[v] # "none" => rstatus'[target[v]] # "unused"
        BY <1>2, <1>4 DEF TasksOwnLines
    <2> QED BY <1>4, <1>6, <2>1 DEF TasksOwnLines
<1>9. TasksCollide'
    BY <1>4, <1>6 DEF TasksCollide
<1>10. ConfirmedBlocks'
    <2> SUFFICES ASSUME NEW v \in Workers, op'[v] # "none", rstatus'[target[v]] = "confirmed",
                        loaded[v] \subseteq linesOf[target[v]],
                        \A i \in loaded[v] : ~HasLot(i)'
                 PROVE  FALSE
        BY <1>4, <1>6 DEF ConfirmedBlocks, LotsInsertable, HasLot
    <2>1. \A i \in loaded[v] : ~HasLot(i) /\ i \notin S
        BY <1>4, <1>5
    <2>2. target[v] # r
        BY <1>0, <1>4, <2>1 DEF TasksCollide
    <2> QED BY <1>2, <1>4, <2>1, <2>2 DEF ConfirmedBlocks, LotsInsertable
<1>11. ConfirmedOnce'
    BY <1>2 DEF ConfirmedOnce
<1>12. StockFromConfirmed'
    <2>1. ASSUME NEW l \in present', receiptOf'[l] # NoReceipt
          PROVE  confirms'[receiptOf'[l]] = 1
        <3>1. CASE l \in New
            BY <1>1, <1>2, <3>1
        <3>2. CASE l \notin New
            <4>1. l \in present /\ l \in Lots /\ receiptOf'[l] = receiptOf[l]
                BY <1>1, <3>2 DEF RowsConsistent
            <4>2. confirms[receiptOf[l]] = 1 /\ receiptOf[l] \in Receipts
                BY <2>1, <4>1 DEF StockFromConfirmed, ReceiptTypeOK
            <4> QED BY <1>2, <4>1, <4>2
        <3> QED BY <3>1, <3>2
    <2>2. ASSUME NEW k \in present', NEW l \in present',
                 lotLine'[k] = lotLine'[l], lotLine'[k] # NoLine
          PROVE  k = l
        <3>1. CASE k \in New /\ l \in New
            BY <1>0, <1>1, <2>2, <3>1
        <3>2. CASE k \notin New /\ l \notin New
            BY <1>1, <2>2, <3>2 DEF RowsConsistent, StockFromConfirmed
        <3>3. CASE k \in New /\ l \notin New
            BY <1>0, <1>1, <2>2, <3>3 DEF RowsConsistent, HasLot
        <3>4. CASE k \notin New /\ l \in New
            BY <1>0, <1>1, <2>2, <3>4 DEF RowsConsistent, HasLot
        <3> QED BY <3>1, <3>2, <3>3, <3>4
    <2> QED BY <2>1, <2>2 DEF StockFromConfirmed
<1>13. LedgerInv'
    <2>1. UNCHANGED <<bufferVars, overwritten>>
        BY DEF CommitConfirm
    <2>2. \A i \in S : LineQty[i] \in 1 .. MaxQty /\ 0 + LineQty[i] = LineQty[i]
        BY <1>0, ReceiptAssumption, LedgerAssumption
    <2>3. LedgerTypeOK'
        <3>1. \A l \in Lots : qty'[l] \in Quantities /\ posted'[l] \in Int
            BY <1>1, <2>2, LedgerAssumption DEF LedgerInv, LedgerTypeOK, Quantities
        <3>2. /\ qty' = [l \in Lots |-> qty'[l]]
              /\ posted' = [l \in Lots |-> posted'[l]]
            BY <1>0 DEF ReceiveLots
        <3>3. qty' \in [Lots -> Quantities] /\ posted' \in [Lots -> Int]
            BY <3>1, <3>2
        <3>6. active' \in [Lots -> BOOLEAN]
            BY <1>0, Zenon DEF ReceiveLots, LedgerInv, LedgerTypeOK
        <3>4. present' \subseteq Lots
            BY <1>7 DEF RowsConsistent
        <3>5. Quantities' = Quantities
            BY DEF Quantities
        <3> QED BY <2>1, <3>3, <3>4, <3>5, <3>6 DEF LedgerInv, LedgerTypeOK, bufferVars
    <2>4. \A l \in present : l \in Lots /\ l \notin New
        <3>1. \A i \in S : f[i] \notin present
            BY <1>0
        <3>2. present \subseteq Lots
            BY DEF RowsConsistent
        <3> HIDE DEF S, RowInv
        <3> QED BY <3>1, <3>2
    <2>5. BuffersCurrent'
        BY <1>1, <2>1, <2>4 DEF LedgerInv, BuffersCurrent, bufferVars, Quantities
    <2>6. ASSUME NEW l \in present', l \notin overwritten'
          PROVE  qty'[l] = posted'[l] /\ (active'[l] <=> qty'[l] > 0)
        <3>1. CASE l \in New
            BY <1>1, <2>2, <3>1, LedgerAssumption
        <3>2. CASE l \notin New
            BY <1>1, <2>1, <2>4, <2>6, <3>2
               DEF LedgerInv, BalancedUnlessOverwritten, OpenIffStocked
        <3> QED BY <3>1, <3>2
    <2> QED BY <2>3, <2>5, <2>6 DEF LedgerInv, BalancedUnlessOverwritten, OpenIffStocked
<1> QED BY <1>3, <1>7, <1>8, <1>9, <1>10, <1>11, <1>12, <1>13

LEMMA ReceiptNextInv ==
    RowInv /\ LedgerInv /\ [ReceiptNext]_receiptVars => RowInv' /\ LedgerInv'
<1> SUFFICES ASSUME RowInv, LedgerInv, [ReceiptNext]_receiptVars
             PROVE  RowInv' /\ LedgerInv'
    OBVIOUS
<1>0. ASSUME UNCHANGED ledgerVars PROVE LedgerInv'
    BY <1>0, LedgerNextInv
<1>1. ASSUME NEW w \in Workers, ManualUnlessReceiving(w) PROVE RowInv' /\ LedgerInv'
    <2>1. LedgerNext
        BY <1>1 DEF ManualUnlessReceiving, LedgerNext
    <2> QED BY <1>1, <2>1, ManualRows, LedgerNextInv
<1>2. ASSUME NEW w \in Workers, NEW r \in Receipts, NEW N \in SUBSET Lines, Create(w, r, N)
      PROVE  RowInv' /\ LedgerInv'
    BY <1>0, <1>2, CreateRows DEF Create
<1>3. ASSUME NEW w \in Workers, NEW r \in Receipts, NEW o \in {"update", "delete", "confirm"},
             Read(w, o, r)
      PROVE  RowInv' /\ LedgerInv'
    BY <1>0, <1>3, ReadRows DEF Read
<1>4. ASSUME NEW w \in Workers, NEW N \in SUBSET Lines, CommitUpdate(w, N)
      PROVE  RowInv' /\ LedgerInv'
    BY <1>0, <1>4, UpdateRows DEF CommitUpdate
<1>5. ASSUME NEW w \in Workers, CommitDelete(w) PROVE RowInv' /\ LedgerInv'
    BY <1>0, <1>5, DeleteRows DEF CommitDelete
<1>6. ASSUME NEW w \in Workers, NEW f \in [Lines -> Lots], CommitConfirm(w, f)
      PROVE  RowInv' /\ LedgerInv'
    BY <1>6, ConfirmRows
<1>7. ASSUME NEW w \in Workers, AbandonReceipt(w) PROVE RowInv' /\ LedgerInv'
    BY <1>0, <1>7, AbandonRows DEF AbandonReceipt
<1>8. CASE UNCHANGED receiptVars
    BY <1>0, <1>8, RowsUntouched DEF receiptVars, ledgerVars
<1> QED BY <1>1, <1>2, <1>3, <1>4, <1>5, <1>6, <1>7, <1>8 DEF ReceiptNext, ReceiptRequest

(* No overlap of confirmations, edits and deletions posts a receipt twice  *)
(* or gives one line two lots (confirm, the unique lot line).              *)
THEOREM ReceiptPostedOnce ==
    ReceiptSpec => [](ReceiptTypeOK /\ ConfirmedOnce /\ StockFromConfirmed)
<1>1. ReceiptInit => RowInv /\ LedgerInv
    BY ReceiptInitInv, LedgerInitInv DEF ReceiptInit
<1>2. RowInv => ReceiptTypeOK /\ ConfirmedOnce /\ StockFromConfirmed
    BY DEF RowInv
<1> QED BY <1>1, <1>2, ReceiptNextInv, PTL DEF ReceiptSpec

(* Confirming receipts keeps the ledger as exact as manual requests do:    *)
(* only a stale write separates a lot from its movements.                  *)
THEOREM ReceiptsKeepLedger ==
    ReceiptSpec => [](BalancedUnlessOverwritten /\ OpenIffStocked)
<1>1. ReceiptInit => RowInv /\ LedgerInv
    BY ReceiptInitInv, LedgerInitInv DEF ReceiptInit
<1>2. LedgerInv => BalancedUnlessOverwritten /\ OpenIffStocked
    BY DEF LedgerInv
<1> QED BY <1>1, <1>2, ReceiptNextInv, PTL DEF ReceiptSpec
-----------------------------------------------------------------------------
(* One request at a time *)

(* What an operation in flight has read is still so when it commits: its   *)
(* receipt is a draft with the lines it read.                              *)
DraftsCurrent ==
    \A w \in Workers : op[w] # "none" =>
        rstatus[target[w]] = "draft" /\ loaded[w] = linesOf[target[w]]

SerialRowInv == RowInv /\ DraftsCurrent /\ ConfirmedMatchesStock

(* Line i is one of receipt r's, and a lot stands for line i of receipt r. *)
StockedFor(r, i) == \E l \in present : receiptOf[l] = r /\ lotLine[l] = i

LEMMA MatchesLineByLine ==
    ConfirmedMatchesStock <=>
        \A r \in Receipts : rstatus[r] = "confirmed" =>
            \A i : i \in linesOf[r] <=> StockedFor(r, i)
BY DEF ConfirmedMatchesStock, StockedFor

LEMMA MatchesLineByLineNext ==
    ConfirmedMatchesStock' <=>
        \A r \in Receipts : rstatus'[r] = "confirmed" =>
            \A i : i \in linesOf'[r] <=> StockedFor(r, i)'
BY DEF ConfirmedMatchesStock, StockedFor

(* Nothing was received for a receipt that is not confirmed. *)
LEMMA NothingForDrafts ==
    ASSUME RowInv, NEW r \in Receipts, rstatus[r] \in {"draft", "unused"}
    PROVE  \A i : ~StockedFor(r, i)
<1>1. confirms[r] = 0
    BY DEF RowInv, RowsConsistent
<1>2. r # NoReceipt
    BY ReceiptAssumption
<1> QED BY <1>1, <1>2 DEF RowInv, StockFromConfirmed, StockedFor

LEMMA SerialRowInit == ReceiptInit => SerialRowInv
<1> SUFFICES ASSUME ReceiptInit PROVE SerialRowInv
    OBVIOUS
<1>1. DraftsCurrent /\ ConfirmedMatchesStock
    BY DEF ReceiptInit, DraftsCurrent, ConfirmedMatchesStock
<1> QED BY <1>1, ReceiptInitInv DEF SerialRowInv

LEMMA SerialRowsUntouched ==
    ASSUME SerialRowInv, UNCHANGED <<rowVars, taskVars, present>>
    PROVE  SerialRowInv'
<1>1. DraftsCurrent' /\ ConfirmedMatchesStock'
    BY DEF SerialRowInv, DraftsCurrent, ConfirmedMatchesStock, rowVars, taskVars
<1> QED BY <1>1, RowsUntouched DEF SerialRowInv

(* A commit on a draft leaves the confirmed receipts and their lots alone. *)
LEMMA DraftCommit ==
    ASSUME OneRequest, SerialRowInv, NEW w \in Workers, NEW S,
           rstatus[target[w]] = "draft", target[w] \in Receipts, S = linesOf[target[w]],
           rstatus'[target[w]] # "confirmed",
           \A q \in Receipts : q # target[w] =>
               rstatus'[q] = rstatus[q] /\ linesOf'[q] = linesOf[q],
           Unlink(S), UNCHANGED <<present, receiptOf>>, Finish(w)
    PROVE  DraftsCurrent' /\ ConfirmedMatchesStock'
<1> USE DEF SerialRowInv, RowInv
<1>1. DraftsCurrent'
    BY DEF DraftsCurrent, OneRequest, Finish, ReceiptTypeOK
<1>2. \A l \in present : lotLine'[l] = lotLine[l]
    BY DEF RowsConsistent, HasLot, Unlink
<1>3. \A q, i : StockedFor(q, i)' <=> StockedFor(q, i)
    BY <1>2 DEF StockedFor
<1>4. \A q \in Receipts : rstatus'[q] = "confirmed" =>
          rstatus[q] = "confirmed" /\ linesOf'[q] = linesOf[q]
    OBVIOUS
<1> HIDE DEF SerialRowInv, RowInv
<1>5. ConfirmedMatchesStock
    BY DEF SerialRowInv
<1> QED BY <1>1, <1>3, <1>4, <1>5, MatchesLineByLine, MatchesLineByLineNext

LEMMA SerialConfirm ==
    ASSUME OneRequest, SerialRowInv, NEW w \in Workers, NEW f \in [Lines -> Lots],
           NEW r, r = target[w], NEW S, S = loaded[w],
           CommitConfirm(w, f)
    PROVE  DraftsCurrent' /\ ConfirmedMatchesStock'
<1> DEFINE New == {f[i] : i \in loaded[w]}
<1>1. /\ r \in Receipts /\ rstatus[r] = "draft" /\ S = linesOf[r]
      /\ \A i \in S : f[i] \notin present
      /\ \A q \in Receipts : q # r => rstatus'[q] = rstatus[q]
      /\ linesOf' = linesOf
    BY DEF CommitConfirm, ReceiptTypeOK, DraftsCurrent, SerialRowInv, RowInv
<1>2. DraftsCurrent'
    BY DEF DraftsCurrent, OneRequest, CommitConfirm, Finish, ReceiptTypeOK, SerialRowInv, RowInv
<1>3. /\ present' = present \cup New
      /\ \A i \in S : lotLine'[f[i]] = i /\ receiptOf'[f[i]] = r
      /\ \A l \in Lots : l \notin New =>
             lotLine'[l] = lotLine[l] /\ receiptOf'[l] = receiptOf[l]
    <2>1. ReceiptTypeOK
        BY DEF SerialRowInv, RowInv
    <2>2. /\ present' = present \cup New
          /\ \A i \in loaded[w] :
                 /\ lotLine'[f[i]] = i /\ receiptOf'[f[i]] = target[w]
                 /\ qty'[f[i]] = 0 + LineQty[i] /\ posted'[f[i]] = LineQty[i]
                 /\ active'[f[i]] = TRUE
          /\ \A l \in Lots : l \notin New =>
                 /\ lotLine'[l] = lotLine[l] /\ receiptOf'[l] = receiptOf[l]
                 /\ qty'[l] = qty[l] /\ posted'[l] = posted[l] /\ active'[l] = active[l]
        <3> HIDE DEF New
        <3> QED BY <2>1, ReceivedLots DEF New
    <2> QED BY <2>2
<1>4. \A l \in present : l \in Lots /\ l \notin New
    BY <1>1 DEF SerialRowInv, RowInv, RowsConsistent
<1>5. \A i : ~StockedFor(r, i)
    BY <1>1, NothingForDrafts DEF SerialRowInv
<1>6. /\ \A l \in present : l \in present' /\ lotLine'[l] = lotLine[l] /\ receiptOf'[l] = receiptOf[l]
      /\ \A l \in present' : l \in present \/ \E i \in S : l = f[i]
      /\ \A i \in S : f[i] \in present'
    BY <1>3, <1>4
<1> HIDE DEF New
<1>7. \A i : StockedFor(r, i)' <=> i \in S
    BY <1>3, <1>5, <1>6 DEF StockedFor
<1>8. \A q \in Receipts : q # r => \A i : StockedFor(q, i)' <=> StockedFor(q, i)
    BY <1>3, <1>6 DEF StockedFor
<1>9. ConfirmedMatchesStock
    BY DEF SerialRowInv
<1>10. ASSUME NEW q \in Receipts, rstatus'[q] = "confirmed", NEW i
       PROVE  i \in linesOf'[q] <=> StockedFor(q, i)'
    <2>1. CASE q = r
        BY <1>1, <1>7, <2>1
    <2>2. CASE q # r
        BY <1>1, <1>8, <1>9, <1>10, <2>2, MatchesLineByLine
    <2> QED BY <2>1, <2>2
<1> QED BY <1>2, <1>10, MatchesLineByLineNext

(* The only request in flight finds its receipt as it read it, so every    *)
(* operation keeps the lots of a confirmed receipt those of its lines.     *)
LEMMA SerialRequestRows ==
    ASSUME OneRequest, SerialRowInv, NEW w \in Workers, ReceiptRequest(w)
    PROVE  DraftsCurrent' /\ ConfirmedMatchesStock'
<1> USE DEF SerialRowInv, RowInv
<1>1. ASSUME NEW r \in Receipts, NEW N \in SUBSET Lines, Create(w, r, N)
      PROVE  DraftsCurrent' /\ ConfirmedMatchesStock'
    <2>1. DraftsCurrent'
        BY <1>1 DEF Create, Idle, OneRequest, DraftsCurrent, taskVars
    <2>2. \A q, i : StockedFor(q, i)' <=> StockedFor(q, i)
        BY <1>1 DEF Create, StockedFor, ledgerVars
    <2>3. \A q \in Receipts : rstatus'[q] = "confirmed" =>
              rstatus[q] = "confirmed" /\ linesOf'[q] = linesOf[q]
        BY <1>1 DEF Create, ReceiptTypeOK
    <2>4. ConfirmedMatchesStock
        OBVIOUS
    <2> QED BY <2>1, <2>2, <2>3, <2>4, MatchesLineByLine, MatchesLineByLineNext
<1>2. ASSUME NEW r \in Receipts, NEW o \in {"update", "delete", "confirm"}, Read(w, o, r)
      PROVE  DraftsCurrent' /\ ConfirmedMatchesStock'
    <2>1. DraftsCurrent'
        BY <1>2 DEF Read, Editable, OneRequest, DraftsCurrent, ReceiptTypeOK, rowVars
    <2>2. ConfirmedMatchesStock'
        BY <1>2 DEF Read, ConfirmedMatchesStock, rowVars, ledgerVars
    <2> QED BY <2>1, <2>2
<1>3. ASSUME NEW N \in SUBSET Lines, CommitUpdate(w, N)
      PROVE  DraftsCurrent' /\ ConfirmedMatchesStock'
    <2>1. /\ target[w] \in Receipts /\ rstatus[target[w]] = "draft"
          /\ loaded[w] = linesOf[target[w]]
        BY <1>3 DEF CommitUpdate, DraftsCurrent, ReceiptTypeOK
    <2>2. /\ Unlink(loaded[w]) /\ Finish(w) /\ UNCHANGED <<present, receiptOf, rstatus>>
          /\ \A q \in Receipts : q # target[w] => linesOf'[q] = linesOf[q]
        BY <1>3 DEF CommitUpdate, ledgerVars, ReceiptTypeOK
    <2> QED BY <2>1, <2>2, DraftCommit
<1>4. ASSUME CommitDelete(w)
      PROVE  DraftsCurrent' /\ ConfirmedMatchesStock'
    <2>1. target[w] \in Receipts /\ rstatus[target[w]] = "draft"
        BY <1>4 DEF CommitDelete, DraftsCurrent, ReceiptTypeOK
    <2>2. /\ Unlink(linesOf[target[w]]) /\ Finish(w) /\ UNCHANGED <<present, receiptOf>>
          /\ rstatus'[target[w]] = "deleted"
          /\ \A q \in Receipts : q # target[w] => rstatus'[q] = rstatus[q] /\ linesOf'[q] = linesOf[q]
        BY <1>4, <2>1 DEF CommitDelete, ledgerVars, ReceiptTypeOK
    <2> QED BY <2>1, <2>2, DraftCommit
<1>5. ASSUME NEW f \in [Lines -> Lots], CommitConfirm(w, f)
      PROVE  DraftsCurrent' /\ ConfirmedMatchesStock'
    BY <1>5, SerialConfirm
<1>6. ASSUME AbandonReceipt(w)
      PROVE  DraftsCurrent' /\ ConfirmedMatchesStock'
    <2>1. DraftsCurrent'
        BY <1>6 DEF AbandonReceipt, Finish, OneRequest, DraftsCurrent, ReceiptTypeOK
    <2>2. ConfirmedMatchesStock'
        BY <1>6 DEF AbandonReceipt, ConfirmedMatchesStock, rowVars, ledgerVars
    <2> QED BY <2>1, <2>2
<1> QED BY <1>1, <1>2, <1>3, <1>4, <1>5, <1>6 DEF ReceiptRequest

(* No operation takes a confirmed receipt out of its status. *)
LEMMA SerialKeepsConfirmed ==
    ASSUME OneRequest, SerialRowInv, NEW w \in Workers, ReceiptRequest(w),
           NEW r \in Receipts, rstatus[r] = "confirmed"
    PROVE  rstatus'[r] = "confirmed"
<1>1. op[w] # "none" => target[w] # r /\ target[w] \in Receipts
    BY DEF SerialRowInv, DraftsCurrent, RowInv, ReceiptTypeOK
<1>2. rstatus \in [Receipts -> {"unused", "draft", "confirmed", "deleted"}]
    BY DEF SerialRowInv, RowInv, ReceiptTypeOK
<1> QED BY <1>1, <1>2 DEF ReceiptRequest, Create, Read, CommitUpdate, CommitDelete, CommitConfirm,
                          AbandonReceipt, rowVars

LEMMA SerialReceiptNext ==
    ASSUME OneRequest, SerialRowInv, LedgerInv, [ReceiptNext]_receiptVars
    PROVE  /\ SerialRowInv'
           /\ \A r \in Receipts : rstatus[r] = "confirmed" => rstatus'[r] = "confirmed"
<1>1. RowInv'
    BY ReceiptNextInv DEF SerialRowInv
<1>2. ASSUME UNCHANGED <<rowVars, taskVars, present>>
      PROVE  /\ SerialRowInv'
             /\ \A r \in Receipts : rstatus[r] = "confirmed" => rstatus'[r] = "confirmed"
    BY <1>2, SerialRowsUntouched DEF rowVars
<1>3. ASSUME NEW w \in Workers, ManualUnlessReceiving(w)
      PROVE  UNCHANGED <<rowVars, taskVars, present>>
    BY <1>3 DEF ManualUnlessReceiving, ManualRequest, Adjust, Waste, CommitMovements,
                PostMovements, Rollback, lotVars
<1>4. ASSUME NEW w \in Workers, ReceiptRequest(w)
      PROVE  /\ SerialRowInv'
             /\ \A r \in Receipts : rstatus[r] = "confirmed" => rstatus'[r] = "confirmed"
    BY <1>1, <1>4, SerialRequestRows, SerialKeepsConfirmed DEF SerialRowInv
<1>5. UNCHANGED receiptVars => UNCHANGED <<rowVars, taskVars, present>>
    BY DEF receiptVars, ledgerVars
<1> QED BY <1>2, <1>3, <1>4, <1>5 DEF ReceiptNext

(* With requests one at a time the lots of a confirmed receipt are those   *)
(* of its lines, and it is never deleted ("Only draft receipts can be      *)
(* edited", "... deleted").                                                *)
THEOREM SerialReceipts ==
    ASSUME OneRequest
    PROVE  ReceiptSpec => []ConfirmedMatchesStock /\ ConfirmedKept
<1>1. ReceiptInit => SerialRowInv /\ LedgerInv
    BY SerialRowInit, LedgerInitInv DEF ReceiptInit
<1>2. SerialRowInv /\ LedgerInv /\ [ReceiptNext]_receiptVars => SerialRowInv' /\ LedgerInv'
    BY SerialReceiptNext, ReceiptNextInv DEF SerialRowInv
<1>3. SerialRowInv /\ LedgerInv /\ [ReceiptNext]_receiptVars =>
          [\A r \in Receipts : rstatus[r] = "confirmed" => rstatus'[r] = "confirmed"]_receiptVars
    BY SerialReceiptNext
<1>4. SerialRowInv => ConfirmedMatchesStock
    BY DEF SerialRowInv
<1> QED BY <1>1, <1>2, <1>3, <1>4, PTL DEF ReceiptSpec, ConfirmedKept
=============================================================================
