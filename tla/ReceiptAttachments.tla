-------------------------- MODULE ReceiptAttachments --------------------------
(***************************************************************************)
(* The files of one purchase receipt: rows of purchase_receipt_attachments *)
(* in the database, objects in S3 (app/services/purchase_receipt_service.py*)
(* and app/services/storage/purchase_receipt_storage_service.py).          *)
(*                                                                         *)
(* A request loads the receipt with its attachments once and works on that *)
(* list; storage is called between the load and the commit, and is not     *)
(* undone when the commit does not come.                                   *)
(***************************************************************************)
EXTENDS Integers, FiniteSets

CONSTANTS
    Assets,       \* asset ids, each made once
    Rows,         \* ids of attachments, each used once
    AWorkers,     \* requests in flight at once
    MaxFiles,     \* MAX_ATTACHMENTS_PER_RECEIPT
    NoAsset

ASSUME AttachmentAssumption ==
    /\ IsFiniteSet(Rows)
    /\ IsFiniteSet(AWorkers)
    /\ AWorkers # {}
    /\ MaxFiles \in Nat \ {0}
    /\ NoAsset \notin Assets

VARIABLES
    receipt,      \* draft, confirmed or gone
    asset,        \* the file an attachment points to; NoAsset: no row yet
    removed,      \* attachments whose row has been deleted
    legacy_bill,  \* the receipt's bill_asset_id
    given,        \* assets for which an upload address has been given out
    stored,       \* assets with an object in storage
    a_step,       \* per worker, how far its request has come
    a_asset,      \* the file it uploads or registers, or the bill it deletes
    a_found,      \* the rows it deletes
    a_left,       \* those whose file it has still to delete
    uploaded,     \* history: assets that have had an object
    torn          \* history: assets whose object was deleted by a request that
                  \* did not commit

a_objects      == <<given, stored, uploaded>>
a_reqs         == <<a_step, a_asset, a_found, a_left>>
attachmentVars == <<receipt, asset, removed, legacy_bill, a_objects, a_reqs, torn>>

-----------------------------------------------------------------------------
(* Definitions *)

Attached == {r \in Rows : asset[r] # NoAsset /\ r \notin removed}

Inserting == {w \in AWorkers : a_step[w] = "insert"}

AssetsOf(R) == {asset[r] : r \in R}

(* A new row or file gets an id not used before; which makes no difference. *)
FirstOf(S) == IF S = {} THEN {} ELSE {CHOOSE x \in S : TRUE}

NewRow == FirstOf({r \in Rows : asset[r] = NoAsset})

NewAsset == FirstOf(Assets \ (given \cup uploaded))

(* The check of all three ways to add a file. *)
RoomUpTo == Cardinality(Attached) <= MaxFiles      \* mutant: one too many

Room == Cardinality(Attached) < MaxFiles

AGoto(w, s, a, found, left) ==
    /\ a_step' = [a_step EXCEPT ![w] = s]
    /\ a_asset' = [a_asset EXCEPT ![w] = a]
    /\ a_found' = [a_found EXCEPT ![w] = found]
    /\ a_left' = [a_left EXCEPT ![w] = left]

ADone(w) == AGoto(w, "idle", NoAsset, {}, {})

-----------------------------------------------------------------------------
(* Adding a file *)

(* upload_attachment up to its INSERT.  The file goes to storage under an   *)
(* id nobody else has; register_attachment checks the list already loaded.  *)
StartUpload(w, a) ==
    /\ a_step[w] = "idle"
    /\ receipt # "gone"
    /\ Room
    /\ a \in NewAsset
    /\ stored' = stored \cup {a}
    /\ uploaded' = uploaded \cup {a}
    /\ AGoto(w, "insert", a, {}, {})
    /\ UNCHANGED <<receipt, asset, removed, legacy_bill, given, torn>>

(* create_attachment_upload_url writes nothing; the client may use the      *)
(* address later, never, or again.                                          *)
GiveAddress(a) ==
    /\ receipt # "gone"
    /\ Room
    /\ a \in NewAsset
    /\ given' = given \cup {a}
    /\ UNCHANGED <<receipt, asset, removed, legacy_bill, stored, uploaded, a_reqs, torn>>

ClientPut(a) ==
    /\ a \in given
    /\ stored' = stored \cup {a}
    /\ uploaded' = uploaded \cup {a}
    /\ UNCHANGED <<receipt, asset, removed, legacy_bill, given, a_reqs, torn>>

(* register_attachment by the client, perhaps once more after a timeout;    *)
(* whether the file is there is not asked.                                  *)
StartRegister(w, a) ==
    /\ a_step[w] = "idle"
    /\ receipt # "gone"
    /\ Room
    /\ a \in given
    /\ AGoto(w, "insert", a, {}, {})
    /\ UNCHANGED <<receipt, asset, removed, legacy_bill, a_objects, torn>>

(* The INSERT and its commit; the foreign key refuses it without a receipt. *)
InsertRow(w, r) ==
    /\ a_step[w] = "insert"
    /\ receipt # "gone"
    /\ r \in NewRow
    /\ asset' = [asset EXCEPT ![r] = a_asset[w]]
    /\ ADone(w)
    /\ UNCHANGED <<receipt, removed, legacy_bill, a_objects, torn>>

-----------------------------------------------------------------------------
(* Deleting *)

(* delete_attachment *)
StartRemove(w, r) ==
    /\ a_step[w] = "idle"
    /\ receipt = "draft"
    /\ r \in Attached
    /\ AGoto(w, "remove", NoAsset, {r}, {r})
    /\ UNCHANGED <<receipt, asset, removed, legacy_bill, a_objects, torn>>

(* delete, of a receipt with the bill and the attachments found. *)
StartDeleteReceipt(w) ==
    /\ a_step[w] = "idle"
    /\ receipt = "draft"
    /\ AGoto(w, IF legacy_bill = NoAsset THEN "delete" ELSE "unbill", legacy_bill,
             Attached, Attached)
    /\ UNCHANGED <<receipt, asset, removed, legacy_bill, a_objects, torn>>

(* delete_asset, for the bill and then for one row after another; an error  *)
(* of storage is logged and the request goes on.                            *)
DropBill(w) ==
    /\ a_step[w] = "unbill"
    /\ stored' \in {stored, stored \ {a_asset[w]}}
    /\ AGoto(w, "delete", a_asset[w], a_found[w], a_left[w])
    /\ UNCHANGED <<receipt, asset, removed, legacy_bill, given, uploaded, torn>>

DropFile(w, r) ==
    /\ a_step[w] \in {"remove", "delete"}
    /\ r \in FirstOf(a_left[w])
    /\ stored' \in {stored, stored \ {asset[r]}}
    /\ AGoto(w, a_step[w], a_asset[w], a_found[w], a_left[w] \ {r})
    /\ UNCHANGED <<receipt, asset, removed, legacy_bill, given, uploaded, torn>>

(* The files it has asked storage to delete. *)
Dropped(w) ==
    AssetsOf(a_found[w] \ a_left[w])
        \cup (IF a_step[w] = "delete" THEN {a_asset[w]} \ {NoAsset} ELSE {})

(* The commit.  The rows of a receipt go with it, those added since it was  *)
(* read as well (ON DELETE CASCADE).                                        *)
NoCascade(w) == a_found[w]      \* mutant: only the rows that were read

RowsGone(w) == IF a_step[w] = "delete" THEN {r \in Rows : asset[r] # NoAsset} ELSE a_found[w]

CommitDelete(w) ==
    /\ a_step[w] \in {"remove", "delete"}
    /\ a_left[w] = {}
    /\ removed' = removed \cup RowsGone(w)
    /\ receipt' = IF a_step[w] = "delete" THEN "gone" ELSE receipt
    /\ ADone(w)
    /\ UNCHANGED <<asset, legacy_bill, a_objects, torn>>

-----------------------------------------------------------------------------

(* confirm, whose postings PurchaseReceipts models. *)
ConfirmReceipt ==
    /\ receipt = "draft"
    /\ receipt' = "confirmed"
    /\ UNCHANGED <<asset, removed, legacy_bill, a_objects, a_reqs, torn>>

(* The request fails or its process dies before the commit. *)
Fail(w) ==
    /\ a_step[w] # "idle"
    /\ torn' = torn \cup Dropped(w)
    /\ ADone(w)
    /\ UNCHANGED <<receipt, asset, removed, legacy_bill, a_objects>>

(* A new draft, or one whose bill the migration to attachments has copied   *)
(* into a row and left in bill_asset_id as well.                            *)
AttachmentInit ==
    /\ receipt = "draft"
    /\ legacy_bill \in {NoAsset} \cup FirstOf(Assets)
    /\ asset = [r \in Rows |-> IF r \in FirstOf(Rows) THEN legacy_bill ELSE NoAsset]
    /\ removed = {}
    /\ given = {}
    /\ stored = {legacy_bill} \ {NoAsset}
    /\ a_step = [w \in AWorkers |-> "idle"]
    /\ a_asset = [w \in AWorkers |-> NoAsset]
    /\ a_found = [w \in AWorkers |-> {}]
    /\ a_left = [w \in AWorkers |-> {}]
    /\ uploaded = stored
    /\ torn = {}

AttachmentStep(w) ==
    \/ \E a \in Assets : StartUpload(w, a) \/ StartRegister(w, a)
    \/ \E r \in Rows : InsertRow(w, r) \/ StartRemove(w, r) \/ DropFile(w, r)
    \/ StartDeleteReceipt(w)
    \/ DropBill(w)
    \/ CommitDelete(w)
    \/ Fail(w)

AttachmentNext ==
    \/ \E w \in AWorkers : AttachmentStep(w)
    \/ \E a \in Assets : GiveAddress(a) \/ ClientPut(a)
    \/ ConfirmReceipt

AttachmentSpec == AttachmentInit /\ [][AttachmentNext]_attachmentVars

-----------------------------------------------------------------------------
(* Properties *)

AttachmentTypeOK ==
    /\ receipt \in {"draft", "confirmed", "gone"}
    /\ asset \in [Rows -> Assets \cup {NoAsset}]
    /\ removed \subseteq Rows
    /\ legacy_bill \in Assets \cup {NoAsset}
    /\ given \subseteq Assets
    /\ stored \subseteq Assets
    /\ a_step \in [AWorkers -> {"idle", "insert", "remove", "unbill", "delete"}]
    /\ a_asset \in [AWorkers -> Assets \cup {NoAsset}]
    /\ a_found \in [AWorkers -> SUBSET Rows]
    /\ a_left \in [AWorkers -> SUBSET Rows]
    /\ uploaded \subseteq Assets
    /\ torn \subseteq Assets

(* Overlapping uploads exceed MAX_ATTACHMENTS_PER_RECEIPT by no more than    *)
(* the other requests in flight, those that have yet to insert counted.      *)
FilesBounded ==
    Cardinality(Attached) + Cardinality(Inserting)
        <= MaxFiles - 1 + Cardinality(AWorkers)

(* An attachment whose file was uploaded and is not there has lost it to a   *)
(* deletion under way, of an attachment or of the bill, to one that failed   *)
(* after its call of storage, or to the deletion of another attachment       *)
(* registered for the same file; a receipt that is gone has left none.       *)
FileLossAccounted ==
    /\ \A r \in Attached : asset[r] \in uploaded \ stored =>
          \/ asset[r] \in torn
          \/ \E w \in AWorkers : asset[r] \in AssetsOf(a_found[w]) \cup Dropped(w)
          \/ \E q \in removed : asset[q] = asset[r]
    /\ receipt = "gone" => Attached = {}
=============================================================================
