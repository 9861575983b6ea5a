--------------------------- MODULE PurchaseReceipts ---------------------------
(***************************************************************************)
(* app/services/purchase_receipt_service.py on top of the lot ledger: a    *)
(* draft receipt is edited or deleted freely, and confirming it creates    *)
(* one lot per line and posts the line's quantity to it.                   *)
(*                                                                         *)
(* confirm, update and delete read the receipt with its lines in one       *)
(* SELECT (get_by_id, joinedload), check the status they read and commit   *)
(* later: each is a read action and a commit action.  The database still   *)
(* guards what it has constraints for at the commit: the unique            *)
(* inventory_lots.purchase_receipt_line_id, the foreign keys to lines and  *)
(* receipts, and the row count of an UPDATE.                               *)
(***************************************************************************)
EXTENDS InventoryLedger

CONSTANTS
    Receipts,
    Lines,       \* rows of purchase_receipt_lines; an id is used once
    LineQty,     \* quantity of each line, in lot units
    Tracked,     \* lines whose product item has track_inventory set
    NoLine,      \* a null purchase_receipt_line_id
    NoReceipt

ASSUME ReceiptAssumption ==
    /\ LineQty \in [Lines -> 1 .. MaxQty]
    /\ Tracked \subseteq Lines
    /\ NoLine \notin Lines
    /\ NoReceipt \notin Receipts

VARIABLES
    rstatus,      \* purchase_receipts.status, with "unused" and "deleted" for no row
    linesOf,      \* lines of each receipt
    usedLines,    \* lines ever inserted
    lotLine,      \* inventory_lots.purchase_receipt_line_id
    receiptOf,    \* reference_id of the lot's receipt movement
    op,           \* per worker, the receipt operation that has read and not committed
    target,       \* the receipt it read
    loaded,       \* the lines it read
    confirms      \* history: how often each receipt was confirmed

rowVars     == <<rstatus, linesOf, usedLines, lotLine, receiptOf, confirms>>
taskVars    == <<op, target, loaded>>
receiptVars == <<ledgerVars, rowVars, taskVars>>

-----------------------------------------------------------------------------
(* Definitions *)

Idle(w) == op[w] = "none" /\ Unbuffered(w)

Exists(r) == rstatus[r] \in {"draft", "confirmed"}

(* A lot was received for line i. *)
HasOpenLot(i) == \E l \in present : active[l] /\ lotLine[l] = i      \* mutant: drained lots are forgotten

HasLot(i) == \E l \in present : lotLine[l] = i

(* _get_draft_receipt *)
EditableAlways(r) == Exists(r)      \* mutant: the status is not looked at

Editable(r) == rstatus[r] = "draft"

(* The receipt operation o reads receipt r; all of them accept drafts only. *)
Read(w, o, r) ==
    /\ Idle(w)
    /\ Editable(r)
    /\ op' = [op EXCEPT ![w] = o]
    /\ target' = [target EXCEPT ![w] = r]
    /\ loaded' = [loaded EXCEPT ![w] = linesOf[r]]
    /\ UNCHANGED <<ledgerVars, rowVars>>

(* The operation of w is over. *)
FinishHalf(w) ==      \* mutant: its operation is left open, without a receipt
    /\ UNCHANGED <<op, loaded>>
    /\ target' = [target EXCEPT ![w] = NoReceipt]

Finish(w) ==
    /\ op' = [op EXCEPT ![w] = "none"]
    /\ target' = [target EXCEPT ![w] = NoReceipt]
    /\ loaded' = [loaded EXCEPT ![w] = {}]

(* Removing lines S clears the reference of the lots received for them     *)
(* (ON DELETE SET NULL).                                                   *)
Unlink(S) ==
    lotLine' = [l \in Lots |-> IF lotLine[l] \in S THEN NoLine ELSE lotLine[l]]

-----------------------------------------------------------------------------
(* Operations *)

(* POST /purchase-receipts: a draft with at least one line. *)
Create(w, r, N) ==
    /\ Idle(w)
    /\ rstatus[r] = "unused"
    /\ N # {} /\ N \cap usedLines = {}
    /\ rstatus' = [rstatus EXCEPT ![r] = "draft"]
    /\ linesOf' = [linesOf EXCEPT ![r] = N]
    /\ usedLines' = usedLines \cup N
    /\ UNCHANGED <<ledgerVars, taskVars, lotLine, receiptOf, confirms>>

(* update with new lines: the lines that were read are replaced by N.  The *)
(* status is not written, so nothing re-checks it.                         *)
CommitUpdate(w, N) ==
    LET r == target[w] IN
    /\ op[w] = "update"
    /\ Exists(r)
    /\ N # {} /\ N \cap usedLines = {}
    /\ linesOf' = [linesOf EXCEPT ![r] = (@ \ loaded[w]) \cup N]
    /\ usedLines' = usedLines \cup N
    /\ Unlink(loaded[w])
    /\ Finish(w)
    /\ UNCHANGED <<ledgerVars, rstatus, receiptOf, confirms>>

(* delete: the receipt row and, by cascade, its lines.  Deleting a row     *)
(* that is already gone is no error.                                       *)
CommitDelete(w) ==
    LET r == target[w] IN
    /\ op[w] = "delete"
    /\ rstatus' = [rstatus EXCEPT ![r] = "deleted"]
    /\ linesOf' = [linesOf EXCEPT ![r] = {}]
    /\ Unlink(linesOf[r])
    /\ Finish(w)
    /\ UNCHANGED <<ledgerVars, usedLines, receiptOf, confirms>>

(* confirm inserts a lot with nothing on hand; its movement brings the     *)
(* quantity.                                                               *)
OpeningFull(i) == LineQty[i]      \* mutant: the quantity is there before the movement

Opening(i) == 0

(* The lots of confirm: f names the new lot of each line.  Each lot starts *)
(* at zero and takes the line's quantity through a receipt movement.       *)
ReceiveLots(f, r, S) ==
    LET line(l) == CHOOSE i \in S : f[i] = l
        New == {f[i] : i \in S}
    IN
    /\ present' = present \cup New
    /\ qty' = [l \in Lots |-> IF l \in New THEN Opening(line(l)) + LineQty[line(l)] ELSE qty[l]]
    /\ active' = [l \in Lots |-> IF l \in New THEN TRUE ELSE active[l]]
    /\ posted' = [l \in Lots |-> IF l \in New THEN LineQty[line(l)] ELSE posted[l]]
    /\ lotLine' = [l \in Lots |-> IF l \in New THEN line(l) ELSE lotLine[l]]
    /\ receiptOf' = [l \in Lots |-> IF l \in New THEN r ELSE receiptOf[l]]

(* What the database checks when confirm inserts lots for the lines S. *)
LotsInsertableTwice(r, S) == S \subseteq linesOf[r]      \* mutant: the line of a lot is not unique

LotsInsertable(r, S) ==
    /\ S \subseteq linesOf[r]
    /\ \A i \in S : ~HasLot(i)

(* confirm: every line must be of a tracked item; all lots and the status  *)
(* commit together.                                                        *)
CommitConfirm(w, f) ==
    LET r == target[w]
        S == loaded[w]
    IN
    /\ op[w] = "confirm"
    /\ S # {} /\ S \subseteq Tracked
    /\ Exists(r)
    /\ LotsInsertable(r, S)
    /\ \A i \in S : f[i] \notin present
    /\ \A i, j \in S : f[i] = f[j] => i = j
    /\ ReceiveLots(f, r, S)
    /\ rstatus' = [rstatus EXCEPT ![r] = "confirmed"]
    /\ confirms' = [confirms EXCEPT ![r] = @ + 1]
    /\ Finish(w)
    /\ UNCHANGED <<bufferVars, overwritten, linesOf, usedLines>>

(* An operation ends without a commit: a check or a constraint fails, or   *)
(* the process dies, and the transaction is rolled back.                   *)
AbandonReceipt(w) ==
    /\ op[w] # "none"
    /\ Finish(w)
    /\ UNCHANGED <<ledgerVars, rowVars>>

(* An adjustment or a waste record, between receipt operations. *)
ManualUnlessReceiving(w) ==
    /\ op[w] = "none"
    /\ ManualRequest(w)
    /\ UNCHANGED <<rowVars, taskVars>>

ReceiptInit ==
    /\ LedgerInit
    /\ rstatus = [r \in Receipts |-> "unused"]
    /\ linesOf = [r \in Receipts |-> {}]
    /\ usedLines = {}
    /\ lotLine = [l \in Lots |-> NoLine]
    /\ receiptOf = [l \in Lots |-> NoReceipt]
    /\ op = [w \in Workers |-> "none"]
    /\ target = [w \in Workers |-> NoReceipt]
    /\ loaded = [w \in Workers |-> {}]
    /\ confirms = [r \in Receipts |-> 0]

ReceiptRequest(w) ==
    \/ \E r \in Receipts, N \in SUBSET Lines : Create(w, r, N)
    \/ \E r \in Receipts, o \in {"update", "delete", "confirm"} : Read(w, o, r)
    \/ \E N \in SUBSET Lines : CommitUpdate(w, N)
    \/ CommitDelete(w)
    \/ \E f \in [Lines -> Lots] : CommitConfirm(w, f)
    \/ AbandonReceipt(w)

ReceiptNext == \E w \in Workers : ReceiptRequest(w) \/ ManualUnlessReceiving(w)

ReceiptSpec == ReceiptInit /\ [][ReceiptNext]_receiptVars

-----------------------------------------------------------------------------
(* Properties *)

(* Rows and requests keep their shape whatever overlaps: a receipt has     *)
(* lines that were inserted, a request in flight has a receipt.            *)
ReceiptTypeOK ==
    /\ rstatus \in [Receipts -> {"unused", "draft", "confirmed", "deleted"}]
    /\ linesOf \in [Receipts -> SUBSET usedLines]
    /\ usedLines \subseteq Lines
    /\ lotLine \in [Lots -> Lines \cup {NoLine}]
    /\ receiptOf \in [Lots -> Receipts \cup {NoReceipt}]
    /\ op \in [Workers -> {"none", "update", "delete", "confirm"}]
    /\ target \in [Workers -> Receipts \cup {NoReceipt}]
    /\ loaded \in [Workers -> SUBSET usedLines]
    /\ \A w \in Workers : op[w] # "none" => target[w] \in Receipts
    /\ confirms \in [Receipts -> Nat]

(* A receipt is posted to stock at most once, however confirmations, edits *)
(* and deletions overlap: the unique line of a lot and the foreign key to  *)
(* the line reject every second confirmation that the status read earlier  *)
(* would have let through.                                                 *)
ConfirmedOnce ==
    \A r \in Receipts :
        /\ confirms[r] <= 1
        /\ confirms[r] = 1 => rstatus[r] \in {"confirmed", "deleted"}

(* Stock comes from confirmed receipts only: no lot was received from a    *)
(* draft, and no two lots stand for one line.                              *)
StockFromConfirmed ==
    /\ \A l \in present : receiptOf[l] # NoReceipt => confirms[receiptOf[l]] = 1
    /\ \A k, l \in present : lotLine[k] = lotLine[l] /\ lotLine[k] # NoLine => k = l

(* The lots of a confirmed receipt are the lots of its lines, one each.    *)
(* ("Only draft receipts can be edited")                                   *)
ConfirmedMatchesStock ==
    \A r \in Receipts : rstatus[r] = "confirmed" =>
        {lotLine[l] : l \in {k \in present : receiptOf[k] = r}} = linesOf[r]

(* A confirmed receipt is never deleted.                                   *)
(* ("Only draft receipts can be deleted")                                  *)
ConfirmedKept ==
    [][\A r \in Receipts : rstatus[r] = "confirmed" => rstatus'[r] = "confirmed"]_receiptVars
=============================================================================
