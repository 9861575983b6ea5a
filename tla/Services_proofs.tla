---------------------------- MODULE Services_proofs ----------------------------
(***************************************************************************)
(* What holds of the attachments of a receipt, of the saved addresses, the *)
(* profiles and the sessions of a customer for every number of files,      *)
(* rows, addresses, profiles, tokens and overlapping requests, and, with   *)
(* the proofs of the other services, of all of them together.              *)
(***************************************************************************)
EXTENDS Services, OrderDetails_proofs

-----------------------------------------------------------------------------
(* Attachments *)

(* Rows that a request deletes or that are deleted have been inserted; what *)
(* is left to delete was found; what is to be inserted has a file.          *)
RowsReal ==
    /\ \A r \in removed : asset[r] # NoAsset
    /\ \A w \in AWorkers : \A r \in a_found[w] : asset[r] # NoAsset
    /\ \A w \in AWorkers : a_left[w] \subseteq a_found[w]
    /\ \A w \in AWorkers : a_step[w] = "insert" => a_asset[w] \in Assets
    /\ \A w \in AWorkers : a_step[w] \in {"idle", "insert"} => a_found[w] = {}

(* While there is a receipt, every file that storage has lost was deleted    *)
(* for a row or as the bill that a request found, for a row that is removed, *)
(* or by a request that failed afterwards.                                  *)
LossesAccounted ==
    /\ stored \subseteq uploaded
    /\ receipt # "gone" => \A a \in uploaded \ stored :
          \/ a \in torn
          \/ \E w \in AWorkers : a_step[w] = "delete" /\ a_asset[w] = a
          \/ \E w \in AWorkers : \E r \in a_found[w] \ a_left[w] : asset[r] = a
          \/ \E q \in removed : asset[q] = a

GoneEmpty == receipt = "gone" => Attached = {}

AttachmentInv ==
    /\ AttachmentTypeOK
    /\ RowsReal
    /\ LossesAccounted
    /\ GoneEmpty
    /\ FilesBounded

LEMMA AttachmentInitInv == AttachmentInit => AttachmentInv
<1> SUFFICES ASSUME AttachmentInit PROVE AttachmentInv
    OBVIOUS
<1> USE AttachmentAssumption DEF AttachmentInit
<1>1. AttachmentTypeOK
    BY DEF AttachmentTypeOK, FirstOf
<1>2. RowsReal /\ LossesAccounted /\ GoneEmpty
    BY DEF RowsReal, LossesAccounted, GoneEmpty, Attached
<1>3. FilesBounded
    <2>1. PICK w \in AWorkers : TRUE
        OBVIOUS
    <2>2. Attached \subseteq FirstOf(Rows) /\ Inserting = {}
        BY DEF Attached, Inserting
    <2>3. \E r : Attached \subseteq {r}
        BY <2>2 DEF FirstOf
    <2>4. PICK r : Attached \subseteq {r}
        BY <2>3
    <2>5. /\ Cardinality(Attached) \in Nat /\ Cardinality(Attached) <= 1
          /\ Cardinality(Inserting) = 0
        <3>1. IsFiniteSet({r}) /\ Cardinality({r}) = 1
            BY FS_Singleton
        <3>2. Cardinality(Attached) \in Nat /\ Cardinality(Attached) <= 1
            BY <2>4, <3>1, FS_Subset, FS_CardinalityType
        <3>3. Cardinality(Inserting) = 0
            BY <2>2, FS_EmptySet
        <3> QED BY <3>2, <3>3
    <2>6. Cardinality(AWorkers) \in Nat /\ Cardinality(AWorkers) # 0
        BY <2>1, FS_CardinalityType, FS_EmptySet
    <2> QED BY <2>5, <2>6 DEF FilesBounded
<1> QED BY <1>1, <1>2, <1>3 DEF AttachmentInv

(* The rows and the requests counted are finitely many. *)
LEMMA RowsCounted ==
    ASSUME NEW S \in SUBSET Rows
    PROVE  IsFiniteSet(S) /\ Cardinality(S) \in Nat
BY AttachmentAssumption, FS_Subset, FS_CardinalityType

LEMMA RequestsCounted ==
    ASSUME NEW S \in SUBSET AWorkers
    PROVE  /\ IsFiniteSet(S) /\ Cardinality(S) \in Nat /\ Cardinality(AWorkers) \in Nat
           /\ Cardinality(S) <= Cardinality(AWorkers)
BY AttachmentAssumption, FS_Subset, FS_CardinalityType

ASteps == {"idle", "insert", "remove", "unbill", "delete"}

LEMMA AGotoOthers ==
    ASSUME AttachmentTypeOK, NEW w \in AWorkers, NEW s \in ASteps,
           NEW a \in Assets \cup {NoAsset}, NEW F \in SUBSET Rows, NEW L \in SUBSET Rows,
           AGoto(w, s, a, F, L)
    PROVE  /\ a_step' \in [AWorkers -> ASteps] /\ a_asset' \in [AWorkers -> Assets \cup {NoAsset}]
           /\ a_found' \in [AWorkers -> SUBSET Rows] /\ a_left' \in [AWorkers -> SUBSET Rows]
           /\ a_step'[w] = s /\ a_asset'[w] = a /\ a_found'[w] = F /\ a_left'[w] = L
           /\ \A v \in AWorkers : v # w =>
                 /\ a_step'[v] = a_step[v] /\ a_asset'[v] = a_asset[v]
                 /\ a_found'[v] = a_found[v] /\ a_left'[v] = a_left[v]
BY DEF AGoto, AttachmentTypeOK, ASteps

LEMMA ADoneOthers ==
    ASSUME AttachmentTypeOK, NEW w \in AWorkers, ADone(w)
    PROVE  /\ a_step' \in [AWorkers -> ASteps] /\ a_asset' \in [AWorkers -> Assets \cup {NoAsset}]
           /\ a_found' \in [AWorkers -> SUBSET Rows] /\ a_left' \in [AWorkers -> SUBSET Rows]
           /\ a_step'[w] = "idle" /\ a_found'[w] = {} /\ a_left'[w] = {}
           /\ \A v \in AWorkers : v # w =>
                 /\ a_step'[v] = a_step[v] /\ a_asset'[v] = a_asset[v]
                 /\ a_found'[v] = a_found[v] /\ a_left'[v] = a_left[v]
<1>1. "idle" \in ASteps /\ {} \in SUBSET Rows /\ NoAsset \in Assets \cup {NoAsset}
    BY DEF ASteps
<1> QED BY <1>1, AGotoOthers DEF ADone

(* Fewer rows and fewer requests about to insert keep the bound. *)
LEMMA StillBounded ==
    ASSUME AttachmentInv, Attached' \subseteq Attached, Inserting' \subseteq Inserting
    PROVE  FilesBounded'
<1>1. Attached \in SUBSET Rows /\ Inserting \in SUBSET AWorkers
    BY DEF Attached, Inserting
<1>2. /\ Cardinality(Attached') <= Cardinality(Attached)
      /\ Cardinality(Inserting') <= Cardinality(Inserting)
    BY <1>1, RowsCounted, RequestsCounted, FS_Subset
<1>3. /\ Cardinality(Attached) \in Nat /\ Cardinality(Attached') \in Nat
      /\ Cardinality(Inserting) \in Nat /\ Cardinality(Inserting') \in Nat
      /\ Cardinality(AWorkers) \in Nat /\ MaxFiles \in Nat
    <2>1. Attached' \in SUBSET Rows /\ Inserting' \in SUBSET AWorkers
        BY <1>1
    <2> QED BY <1>1, <2>1, RowsCounted, RequestsCounted, AttachmentAssumption
<1> QED BY <1>2, <1>3 DEF AttachmentInv, FilesBounded

(* One more request about to insert, which has found room. *)
LEMMA RoomBounds ==
    ASSUME AttachmentInv, Room, Attached' = Attached, Inserting' \subseteq AWorkers
    PROVE  FilesBounded'
<1>1. Attached \in SUBSET Rows
    BY DEF Attached
<1>2. /\ Cardinality(Attached) \in Nat /\ Cardinality(Inserting') \in Nat
      /\ Cardinality(AWorkers) \in Nat /\ MaxFiles \in Nat
      /\ Cardinality(Inserting') <= Cardinality(AWorkers)
    BY <1>1, RowsCounted, RequestsCounted, AttachmentAssumption
<1> QED BY <1>2 DEF Room, FilesBounded

LEMMA AddFileInv ==
    ASSUME AttachmentInv, NEW w \in AWorkers, NEW a \in Assets,
           StartUpload(w, a) \/ StartRegister(w, a)
    PROVE  AttachmentInv'
<1> USE DEF AttachmentInv
<1>1. /\ AGoto(w, "insert", a, {}, {}) /\ a_step[w] = "idle" /\ Room
      /\ UNCHANGED <<receipt, asset, removed, legacy_bill, given, torn>>
      /\ \/ UNCHANGED <<stored, uploaded>>
         \/ stored' = stored \cup {a} /\ uploaded' = uploaded \cup {a}
    BY DEF StartUpload, StartRegister, a_objects
<1>2. /\ a_step' \in [AWorkers -> ASteps] /\ a_asset' \in [AWorkers -> Assets \cup {NoAsset}]
      /\ a_found' \in [AWorkers -> SUBSET Rows] /\ a_left' \in [AWorkers -> SUBSET Rows]
      /\ a_step'[w] = "insert" /\ a_asset'[w] = a /\ a_found'[w] = {} /\ a_left'[w] = {}
      /\ \A v \in AWorkers : v # w =>
            /\ a_step'[v] = a_step[v] /\ a_asset'[v] = a_asset[v]
            /\ a_found'[v] = a_found[v] /\ a_left'[v] = a_left[v]
    <2>1. "insert" \in ASteps /\ {} \in SUBSET Rows /\ a \in Assets \cup {NoAsset}
        BY DEF ASteps
    <2> QED BY <1>1, <2>1, AGotoOthers
<1>3. AttachmentTypeOK'
    BY <1>1, <1>2 DEF AttachmentTypeOK, ASteps
<1>4. RowsReal'
    BY <1>1, <1>2 DEF RowsReal
<1>5. LossesAccounted'
    BY <1>1, <1>2 DEF LossesAccounted, RowsReal
<1>6. Attached' = Attached /\ Inserting' \subseteq AWorkers
    BY <1>1 DEF Attached, Inserting
<1>7. GoneEmpty' /\ FilesBounded'
    BY <1>1, <1>6, RoomBounds DEF GoneEmpty
<1> QED BY <1>3, <1>4, <1>5, <1>7

(* A row takes the place of a request that was about to insert it. *)
LEMMA InsertRowInv ==
    ASSUME AttachmentInv, NEW w \in AWorkers, NEW r \in Rows, InsertRow(w, r)
    PROVE  AttachmentInv'
<1> USE DEF AttachmentInv
<1>1. /\ a_step[w] = "insert" /\ receipt # "gone" /\ a_asset[w] \in Assets
      /\ asset[r] = NoAsset /\ asset' = [asset EXCEPT ![r] = a_asset[w]]
      /\ ADone(w)
      /\ UNCHANGED <<receipt, removed, legacy_bill, given, stored, uploaded, torn>>
    BY DEF InsertRow, NewRow, FirstOf, a_objects, RowsReal
<1>2. /\ a_step' \in [AWorkers -> ASteps] /\ a_asset' \in [AWorkers -> Assets \cup {NoAsset}]
      /\ a_found' \in [AWorkers -> SUBSET Rows] /\ a_left' \in [AWorkers -> SUBSET Rows]
      /\ a_step'[w] = "idle" /\ a_found'[w] = {} /\ a_left'[w] = {}
      /\ \A v \in AWorkers : v # w =>
            /\ a_step'[v] = a_step[v] /\ a_asset'[v] = a_asset[v]
            /\ a_found'[v] = a_found[v] /\ a_left'[v] = a_left[v]
    BY <1>1, ADoneOthers
<1>3. asset' \in [Rows -> Assets \cup {NoAsset}] /\ asset'[r] # NoAsset
      /\ \A q \in Rows : q # r => asset'[q] = asset[q]
    BY <1>1, AttachmentAssumption DEF AttachmentTypeOK
<1>4. r \notin removed /\ \A v \in AWorkers : r \notin a_found[v]
    BY <1>1 DEF RowsReal
<1>5. AttachmentTypeOK'
    BY <1>1, <1>2, <1>3 DEF AttachmentTypeOK, ASteps
<1>6. RowsReal'
    BY <1>1, <1>2, <1>3, <1>4 DEF RowsReal, AttachmentTypeOK
<1>7. LossesAccounted'
    <2> SUFFICES ASSUME NEW a \in uploaded \ stored, a \notin torn
                 PROVE  \/ \E v \in AWorkers : a_step'[v] = "delete" /\ a_asset'[v] = a
                        \/ \E v \in AWorkers : \E q \in a_found'[v] \ a_left'[v] : asset'[q] = a
                        \/ \E q \in removed : asset'[q] = a
        BY <1>1 DEF LossesAccounted
    <2>0. CASE \E v \in AWorkers : a_step[v] = "delete" /\ a_asset[v] = a
        BY <1>1, <1>2, <2>0
    <2>1. CASE \E v \in AWorkers : \E q \in a_found[v] \ a_left[v] : asset[q] = a
        <3>1. PICK v \in AWorkers, q \in Rows : q \in a_found[v] \ a_left[v] /\ asset[q] = a
            BY <2>1 DEF AttachmentTypeOK
        <3>2. v # w /\ q # r
            BY <1>1, <1>4, <3>1 DEF RowsReal
        <3> QED BY <1>2, <1>3, <3>1, <3>2
    <2>2. CASE \E q \in removed : asset[q] = a
        BY <1>3, <1>4, <2>2 DEF AttachmentTypeOK
    <2> QED BY <1>1, <2>0, <2>1, <2>2 DEF LossesAccounted
<1>8. Attached' = Attached \cup {r} /\ r \notin Attached
    BY <1>1, <1>3, <1>4 DEF Attached
<1>9. Inserting' = Inserting \ {w} /\ w \in Inserting
    BY <1>1, <1>2 DEF Inserting
<1>10. FilesBounded'
    <2>1. Attached \in SUBSET Rows /\ Inserting \in SUBSET AWorkers
        BY DEF Attached, Inserting
    <2>2. Cardinality(Attached') = Cardinality(Attached) + 1
        BY <1>8, <2>1, RowsCounted, FS_AddElement
    <2>3. Cardinality(Inserting') = Cardinality(Inserting) - 1
        BY <1>9, <2>1, RequestsCounted, FS_RemoveElement
    <2>4. /\ Cardinality(Attached) \in Nat /\ Cardinality(Inserting) \in Nat
          /\ Cardinality(AWorkers) \in Nat /\ MaxFiles \in Nat
        BY <2>1, RowsCounted, RequestsCounted, AttachmentAssumption
    <2> QED BY <2>2, <2>3, <2>4 DEF FilesBounded
<1>11. GoneEmpty'
    BY <1>1 DEF GoneEmpty
<1> QED BY <1>5, <1>6, <1>7, <1>10, <1>11

(* A request begins to delete what it found. *)
LEMMA StartDeleteInv ==
    ASSUME AttachmentInv, NEW w \in AWorkers,
           StartDeleteReceipt(w) \/ \E r \in Rows : StartRemove(w, r)
    PROVE  AttachmentInv'
<1> USE DEF AttachmentInv
<1>1. /\ a_step[w] = "idle"
      /\ UNCHANGED <<receipt, asset, removed, legacy_bill, given, stored, uploaded, torn>>
    BY DEF StartDeleteReceipt, StartRemove, a_objects
<1>2. PICK s \in {"remove", "unbill", "delete"}, b \in Assets \cup {NoAsset},
           F \in SUBSET Attached : AGoto(w, s, b, F, F)
    BY DEF StartDeleteReceipt, StartRemove, AttachmentTypeOK
<1>3. /\ a_step' \in [AWorkers -> ASteps] /\ a_asset' \in [AWorkers -> Assets \cup {NoAsset}]
      /\ a_found' \in [AWorkers -> SUBSET Rows] /\ a_left' \in [AWorkers -> SUBSET Rows]
      /\ a_step'[w] = s /\ a_found'[w] = F /\ a_left'[w] = F
      /\ \A v \in AWorkers : v # w =>
            /\ a_step'[v] = a_step[v] /\ a_asset'[v] = a_asset[v]
            /\ a_found'[v] = a_found[v] /\ a_left'[v] = a_left[v]
    <2>1. s \in ASteps /\ F \in SUBSET Rows /\ b \in Assets \cup {NoAsset} /\ AttachmentTypeOK
        BY <1>2 DEF ASteps, Attached
    <2>2. AGoto(w, s, b, F, F)
        BY <1>2
    <2> QED BY <2>1, <2>2 DEF AGoto, AttachmentTypeOK, ASteps
<1>4. AttachmentTypeOK'
    BY <1>1, <1>3 DEF AttachmentTypeOK, ASteps
<1>5. RowsReal'
    BY <1>1, <1>3 DEF RowsReal, Attached
<1>6. LossesAccounted'
    BY <1>1, <1>3 DEF LossesAccounted, RowsReal
<1>7. Attached' = Attached /\ Inserting' \subseteq Inserting
    BY <1>1, <1>3 DEF Attached, Inserting
<1>8. GoneEmpty' /\ FilesBounded'
    BY <1>1, <1>7, StillBounded DEF GoneEmpty
<1> QED BY <1>4, <1>5, <1>6, <1>8

(* The bill lost is lost to the request that has it deleted. *)
LEMMA DropBillInv ==
    ASSUME AttachmentInv, NEW w \in AWorkers, DropBill(w)
    PROVE  AttachmentInv'
<1> USE DEF AttachmentInv
<1>1. /\ a_step[w] = "unbill"
      /\ stored' \in {stored, stored \ {a_asset[w]}}
      /\ AGoto(w, "delete", a_asset[w], a_found[w], a_left[w])
      /\ UNCHANGED <<receipt, asset, removed, legacy_bill, given, uploaded, torn>>
    BY DEF DropBill
<1>2. /\ a_step' \in [AWorkers -> ASteps] /\ a_asset' = a_asset
      /\ a_found' = a_found /\ a_left' = a_left
      /\ a_step'[w] = "delete" /\ \A v \in AWorkers : v # w => a_step'[v] = a_step[v]
    BY <1>1 DEF AGoto, AttachmentTypeOK, ASteps
<1>3. AttachmentTypeOK'
    BY <1>1, <1>2 DEF AttachmentTypeOK, ASteps
<1>4. RowsReal'
    BY <1>1, <1>2 DEF RowsReal
<1>5. LossesAccounted'
    BY <1>1, <1>2 DEF LossesAccounted
<1>6. Attached' = Attached /\ Inserting' \subseteq Inserting
    BY <1>1, <1>2 DEF Attached, Inserting
<1>7. GoneEmpty' /\ FilesBounded'
    BY <1>1, <1>6, StillBounded DEF GoneEmpty
<1> QED BY <1>3, <1>4, <1>5, <1>7

(* A file lost is lost to the request that found its row. *)
LEMMA DropFileInv ==
    ASSUME AttachmentInv, NEW w \in AWorkers, NEW r \in Rows, DropFile(w, r)
    PROVE  AttachmentInv'
<1> USE DEF AttachmentInv
<1>1. /\ r \in a_left[w] /\ r \in a_found[w]
      /\ stored' \in {stored, stored \ {asset[r]}}
      /\ AGoto(w, a_step[w], a_asset[w], a_found[w], a_left[w] \ {r})
      /\ UNCHANGED <<receipt, asset, removed, legacy_bill, given, uploaded, torn>>
    BY DEF DropFile, FirstOf, RowsReal
<1>2. /\ a_step' = a_step /\ a_asset' = a_asset
      /\ a_found' = a_found /\ a_left' \in [AWorkers -> SUBSET Rows]
      /\ a_left'[w] = a_left[w] \ {r}
      /\ \A v \in AWorkers : v # w => a_left'[v] = a_left[v]
    BY <1>1 DEF AGoto, AttachmentTypeOK, ASteps
<1>3. AttachmentTypeOK'
    BY <1>1, <1>2 DEF AttachmentTypeOK
<1>4. a_step[w] # "insert"
    BY <1>1 DEF RowsReal
<1>5. RowsReal'
    BY <1>1, <1>2, <1>4 DEF RowsReal
<1>6. LossesAccounted'
    <2>1. stored' \subseteq uploaded'
        BY <1>1 DEF LossesAccounted
    <2>2. ASSUME NEW a \in uploaded \ stored', a \notin torn, receipt # "gone"
          PROVE  \/ \E v \in AWorkers : a_step'[v] = "delete" /\ a_asset'[v] = a
                 \/ \E v \in AWorkers : \E q \in a_found'[v] \ a_left'[v] : asset'[q] = a
                 \/ \E q \in removed : asset'[q] = a
        <3>1. CASE a = asset[r]
            <4>1. r \in a_found'[w] \ a_left'[w]
                BY <1>1, <1>2
            <4> QED BY <1>1, <3>1, <4>1
        <3>2. CASE a \notin stored
            BY <1>1, <1>2, <2>2, <3>2 DEF LossesAccounted
        <3> QED BY <1>1, <2>2, <3>1, <3>2
    <2> QED BY <1>1, <2>1, <2>2 DEF LossesAccounted
<1>7. Attached' = Attached /\ Inserting' = Inserting
    BY <1>1, <1>2 DEF Attached, Inserting
<1>8. GoneEmpty' /\ FilesBounded'
    BY <1>1, <1>7, StillBounded DEF GoneEmpty
<1> QED BY <1>3, <1>5, <1>6, <1>8

(* A request ends: what it found is removed, or what it dropped is torn. *)
LEMMA EndDeleteInv ==
    ASSUME AttachmentInv, NEW w \in AWorkers, CommitDelete(w) \/ Fail(w)
    PROVE  AttachmentInv'
<1> USE DEF AttachmentInv
<1>0. ADone(w)
    BY DEF CommitDelete, Fail
<1>1. /\ UNCHANGED <<asset, legacy_bill, given, stored, uploaded>>
      /\ receipt' \in {receipt, "gone"} /\ removed \subseteq removed' /\ torn \subseteq torn'
    BY DEF CommitDelete, Fail, a_objects
<1>2. /\ \A q \in removed' : q \in Rows /\ asset[q] # NoAsset
      /\ torn' \subseteq Assets
      /\ \/ a_found[w] \subseteq removed' /\ (a_step[w] = "delete" => receipt' = "gone")
         \/ /\ \A q \in a_found[w] \ a_left[w] : asset[q] \in torn'
            /\ a_step[w] = "delete" /\ a_asset[w] \in Assets => a_asset[w] \in torn'
    <2>1. \A q \in a_found[w] : q \in Rows /\ asset[q] \in Assets /\ asset[q] # NoAsset
        BY DEF RowsReal, AttachmentTypeOK
    <2>2. CASE CommitDelete(w)
        <3>1. /\ a_found[w] \subseteq RowsGone(w)
              /\ \A q \in RowsGone(w) : q \in Rows /\ asset[q] # NoAsset
            BY <2>1 DEF RowsGone
        <3> QED BY <2>2, <3>1 DEF CommitDelete, RowsReal, AttachmentTypeOK
    <2>3. CASE Fail(w)
        BY <2>1, <2>3, AttachmentAssumption DEF Fail, Dropped, AssetsOf, RowsReal, AttachmentTypeOK
    <2> QED BY <2>2, <2>3
<1>3. /\ a_step' \in [AWorkers -> ASteps] /\ a_asset' \in [AWorkers -> Assets \cup {NoAsset}]
      /\ a_found' \in [AWorkers -> SUBSET Rows] /\ a_left' \in [AWorkers -> SUBSET Rows]
      /\ a_step'[w] = "idle" /\ a_found'[w] = {} /\ a_left'[w] = {}
      /\ \A v \in AWorkers : v # w =>
            /\ a_step'[v] = a_step[v] /\ a_asset'[v] = a_asset[v]
            /\ a_found'[v] = a_found[v] /\ a_left'[v] = a_left[v]
    BY <1>0, ADoneOthers
<1>4. AttachmentTypeOK'
    BY <1>1, <1>2, <1>3 DEF AttachmentTypeOK, ASteps
<1>5. RowsReal'
    BY <1>1, <1>2, <1>3 DEF RowsReal
<1>6. LossesAccounted'
    <2> SUFFICES ASSUME NEW a \in uploaded \ stored, a \notin torn', receipt' # "gone"
                 PROVE  \/ \E v \in AWorkers : a_step'[v] = "delete" /\ a_asset'[v] = a
                        \/ \E v \in AWorkers : \E q \in a_found'[v] \ a_left'[v] : asset[q] = a
                        \/ \E q \in removed' : asset[q] = a
        BY <1>1 DEF LossesAccounted
    <2>1. CASE \E q \in removed : asset[q] = a
        BY <1>1, <2>1
    <2>2. CASE \E q \in a_found[w] \ a_left[w] : asset[q] = a
        BY <1>2, <2>2
    <2>3. CASE \E v \in AWorkers \ {w} : \E q \in a_found[v] \ a_left[v] : asset[q] = a
        BY <1>3, <2>3
    <2>4. CASE \E v \in AWorkers \ {w} : a_step[v] = "delete" /\ a_asset[v] = a
        BY <1>3, <2>4
    <2>5. CASE a_step[w] = "delete" /\ a_asset[w] = a
        BY <1>2, <2>5 DEF AttachmentTypeOK
    <2> QED BY <1>1, <2>1, <2>2, <2>3, <2>4, <2>5 DEF LossesAccounted
<1>7. Attached' \subseteq Attached /\ Inserting' \subseteq Inserting
    BY <1>1, <1>3 DEF Attached, Inserting
<1>8. GoneEmpty'
    <2>1. CASE receipt = "gone"
        BY <1>7, <2>1 DEF GoneEmpty
    <2>2. CASE receipt # "gone" /\ receipt' = "gone"
        BY <1>1, <2>2 DEF CommitDelete, Fail, RowsGone, GoneEmpty, Attached
    <2> QED BY <1>1, <2>1, <2>2 DEF GoneEmpty
<1> QED BY <1>4, <1>5, <1>6, <1>7, <1>8, StillBounded

LEMMA AttachmentNextInv == AttachmentInv /\ [AttachmentNext]_attachmentVars => AttachmentInv'
<1> SUFFICES ASSUME AttachmentInv, [AttachmentNext]_attachmentVars PROVE AttachmentInv'
    OBVIOUS
<1> USE DEF AttachmentInv
<1>1. ASSUME NEW a \in Assets, GiveAddress(a) \/ ClientPut(a) PROVE AttachmentInv'
    <2>1. /\ UNCHANGED <<receipt, asset, removed, legacy_bill, a_step, a_asset, a_found, a_left, torn>>
          /\ given' \in SUBSET Assets
          /\ \/ UNCHANGED <<stored, uploaded>>
             \/ stored' = stored \cup {a} /\ uploaded' = uploaded \cup {a}
        BY <1>1 DEF GiveAddress, ClientPut, a_reqs, AttachmentTypeOK
    <2>2. AttachmentTypeOK' /\ RowsReal' /\ LossesAccounted'
        BY <2>1 DEF AttachmentTypeOK, RowsReal, LossesAccounted
    <2>3. Attached' = Attached /\ Inserting' = Inserting
        BY <2>1 DEF Attached, Inserting
    <2> QED BY <2>1, <2>2, <2>3, StillBounded DEF GoneEmpty
<1>2. ASSUME ConfirmReceipt \/ UNCHANGED attachmentVars PROVE AttachmentInv'
    <2>1. /\ UNCHANGED <<asset, removed, legacy_bill, given, stored, uploaded>>
          /\ UNCHANGED <<a_step, a_asset, a_found, a_left, torn>>
          /\ \/ receipt' = receipt
             \/ receipt = "draft" /\ receipt' = "confirmed"
        <3>1. CASE ConfirmReceipt
            BY <3>1 DEF ConfirmReceipt, a_objects, a_reqs
        <3>2. CASE UNCHANGED attachmentVars
            BY <3>2 DEF attachmentVars, a_objects, a_reqs
        <3> QED BY <1>2, <3>1, <3>2
    <2>2. AttachmentTypeOK' /\ RowsReal' /\ LossesAccounted'
        BY <2>1 DEF AttachmentTypeOK, RowsReal, LossesAccounted
    <2>3. Attached' = Attached /\ Inserting' = Inserting
        BY <2>1 DEF Attached, Inserting
    <2> QED BY <2>1, <2>2, <2>3, StillBounded DEF GoneEmpty
<1> QED BY <1>1, <1>2, AddFileInv, InsertRowInv, StartDeleteInv, DropBillInv, DropFileInv, EndDeleteInv
        DEF AttachmentNext, AttachmentStep

LEMMA AttachmentInvSafe == AttachmentInv => FileLossAccounted
BY AttachmentAssumption
   DEF AttachmentInv, LossesAccounted, GoneEmpty, FileLossAccounted, Dropped, AssetsOf, Attached,
       AttachmentTypeOK, RowsReal

(* Overlapping uploads exceed the limit by no more than the other requests,  *)
(* and a file that is missing was deleted for a row that was found.         *)
THEOREM FilesKept == AttachmentSpec => [](AttachmentTypeOK /\ FilesBounded /\ FileLossAccounted)
<1>1. AttachmentInv => AttachmentTypeOK /\ FilesBounded
    BY DEF AttachmentInv
<1> QED BY <1>1, AttachmentInitInv, AttachmentNextInv, AttachmentInvSafe, PTL DEF AttachmentSpec

-----------------------------------------------------------------------------
(* Addresses *)

(* A request that is about to set the default has found every address but    *)
(* those added since; it is about an address that exists or about a new one. *)
FoundOrJoined ==
    \A w \in HWorkers : h_step[w] \in {"wait", "write"} =>
        /\ h_main[w] => saved \subseteq h_rows[w] \cup joined[w]
        /\ h_home[w] # 0 => h_main[w]

(* An address under deletion is of one request, and no request has cleared   *)
(* it.                                                                      *)
DeletionAlone ==
    \A v, w \in HWorkers : v # w /\ h_step[w] = "promote" =>
        /\ h_step[v] = "write" => h_home[w] \notin h_rows[v]
        /\ h_step[v] = "promote" => h_home[v] # h_home[w]

(* A deletion that found another default leaves one; one that found none is  *)
(* of the only default.                                                     *)
HeirRead ==
    /\ \A w \in HWorkers : h_step[w] \in {"delete", "promote"} => h_home[w] \in Homes
    /\ \A w \in HWorkers : h_step[w] = "promote" =>
        /\ \E heir \in Homes : h_rows[w] = {heir} /\ heir # h_home[w]
        /\ ~h_main[w] /\ h_home[w] \in main => main \subseteq {h_home[w]} \/ doubled
        /\ h_main[w] /\ h_home[w] \in saved => main \ {h_home[w]} # {} \/ unset \/ doubled

OneMain == \A g, h \in main : g = h \/ doubled

SomeMain == saved # {} /\ main = {} => unset \/ doubled

AddressInv ==
    AddressTypeOK /\ FoundOrJoined /\ DeletionAlone /\ HeirRead /\ OneMain /\ SomeMain

LEMMA AddressInitInv == AddressInit => AddressInv
<1> SUFFICES ASSUME AddressInit PROVE AddressInv
    OBVIOUS
<1> USE AddressAssumption DEF AddressInit
<1>1. \A w \in HWorkers : h_step[w] = "idle"
    OBVIOUS
<1>2. AddressTypeOK
    <2>1. /\ h_made = 0 /\ saved = {} /\ main = {}
          /\ doubled = FALSE /\ unset = FALSE
        OBVIOUS
    <2>2. 0 \in 0..MaxHomes /\ 0 \in 0..0
        BY AddressAssumption DEF AddressAssumption
    <2>3. /\ h_step \in [HWorkers -> {"idle", "clear", "wait", "write", "delete", "promote"}]
          /\ h_home \in [HWorkers -> 0..0]
          /\ h_main \in [HWorkers -> BOOLEAN]
          /\ h_rows \in [HWorkers -> SUBSET (1..0)]
          /\ joined \in [HWorkers -> SUBSET (1..0)]
        BY <2>2
    <2> QED BY <2>1, <2>2, <2>3 DEF AddressTypeOK
<1>3. FoundOrJoined /\ DeletionAlone /\ HeirRead
    BY <1>1 DEF FoundOrJoined, DeletionAlone, HeirRead
<1>4. main = {} /\ saved = {}
    OBVIOUS
<1>5. OneMain /\ SomeMain
    BY <1>4 DEF OneMain, SomeMain
<1> QED BY <1>2, <1>3, <1>5 DEF AddressInv

(* What a step of the request of w sets for it. *)
LEMMA RequestSet ==
    ASSUME AddressTypeOK, NEW w \in HWorkers, NEW s, NEW h, NEW default, NEW rows,
           HGoto(w, s, h, default, rows)
    PROVE  /\ h_step'[w] = s /\ h_home'[w] = h /\ h_main'[w] = default /\ h_rows'[w] = rows
           /\ joined'[w] = {}
           /\ \A v \in HWorkers \ {w} :
                 /\ h_step'[v] = h_step[v] /\ h_home'[v] = h_home[v]
                 /\ h_main'[v] = h_main[v] /\ h_rows'[v] = h_rows[v] /\ joined'[v] = joined[v]
BY DEF HGoto, AddressTypeOK

LEMMA RequestTyped ==
    ASSUME AddressTypeOK, NEW w \in HWorkers, NEW h \in 0..h_made,
           NEW s \in {"idle", "clear", "wait", "write", "delete", "promote"},
           NEW default \in BOOLEAN, NEW rows \in SUBSET (1..h_made),
           HGoto(w, s, h, default, rows)
    PROVE  /\ h_step' \in [HWorkers -> {"idle", "clear", "wait", "write", "delete", "promote"}]
           /\ h_home' \in [HWorkers -> 0..h_made]
           /\ h_main' \in [HWorkers -> BOOLEAN]
           /\ h_rows' \in [HWorkers -> SUBSET (1..h_made)]
           /\ joined' \in [HWorkers -> SUBSET (1..h_made)]
BY DEF HGoto, AddressTypeOK

LEMMA RequestEnds ==
    ASSUME AddressTypeOK, NEW w \in HWorkers, HDone(w)
    PROVE  /\ h_step' \in [HWorkers -> {"idle", "clear", "wait", "write", "delete", "promote"}]
           /\ h_home' \in [HWorkers -> 0..h_made]
           /\ h_main' \in [HWorkers -> BOOLEAN]
           /\ h_rows' \in [HWorkers -> SUBSET (1..h_made)]
           /\ joined' \in [HWorkers -> SUBSET (1..h_made)]
           /\ h_step'[w] = "idle"
           /\ \A v \in HWorkers \ {w} :
                 /\ h_step'[v] = h_step[v] /\ h_home'[v] = h_home[v]
                 /\ h_main'[v] = h_main[v] /\ h_rows'[v] = h_rows[v] /\ joined'[v] = joined[v]
<1>1. 0 \in 0..h_made
    BY AddressAssumption DEF AddressTypeOK, AddressAssumption
<1> QED BY <1>1 DEF HDone, HGoto, AddressTypeOK

(* A request that begins, takes the locks it needs or gives up. *)
LEMMA RequestStepInv ==
    ASSUME AddressInv, NEW w \in HWorkers, NEW h \in 0..h_made,
           NEW s \in {"idle", "clear", "wait", "write", "delete"},
           NEW default \in BOOLEAN, NEW rows \in SUBSET (1..h_made),
           HGoto(w, s, h, default, rows),
           s \in {"wait", "write"} /\ default => rows = saved,
           s = "write" => rows \cap LockedRows(w) = {},
           s \in {"wait", "write"} /\ h # 0 => default,
           s = "delete" => h \in Homes,
           UNCHANGED <<saved, main, h_made, doubled, unset>>
    PROVE  AddressInv'
<1>0. AddressTypeOK
    BY DEF AddressInv
<1>1. AddressTypeOK'
    BY <1>0, RequestTyped DEF AddressTypeOK
<1>2. FoundOrJoined'
    BY <1>0, RequestSet DEF AddressInv, FoundOrJoined
<1>3. DeletionAlone'
    BY <1>0, RequestSet DEF AddressInv, DeletionAlone, LockedRows, HeirRead
<1>4. HeirRead'
    BY <1>0, RequestSet DEF AddressInv, HeirRead
<1>5. OneMain' /\ SomeMain'
    BY DEF AddressInv, OneMain, SomeMain
<1> QED BY <1>1, <1>2, <1>3, <1>4, <1>5 DEF AddressInv

LEMMA RequestLeaves ==
    ASSUME AddressInv, NEW w \in HWorkers, HDone(w),
           UNCHANGED <<saved, main, h_made, doubled, unset>>
    PROVE  AddressInv'
<1>1. AddressTypeOK /\ 0 \in 0..h_made
    BY AddressAssumption DEF AddressInv, AddressTypeOK, AddressAssumption
<1>2. HGoto(w, "idle", 0, FALSE, {})
    BY DEF HDone
<1> QED BY <1>1, <1>2, RequestStepInv

LEMMA GetRowsInv ==
    ASSUME AddressInv, NEW w \in HWorkers, GetRows(w)
    PROVE  AddressInv'
<1> USE DEF GetRows
<1>1. /\ h_step'[w] = "write"
      /\ \A v \in HWorkers \ {w} : h_step'[v] = h_step[v]
    BY DEF AddressInv, AddressTypeOK
<1>2. AddressTypeOK'
    BY DEF AddressInv, AddressTypeOK
<1>3. FoundOrJoined'
    BY <1>1 DEF AddressInv, FoundOrJoined
<1>4. DeletionAlone'
    BY <1>1 DEF AddressInv, DeletionAlone, LockedRows, HeirRead
<1>5. HeirRead' /\ OneMain' /\ SomeMain'
    BY <1>1 DEF AddressInv, HeirRead, OneMain, SomeMain
<1> QED BY <1>2, <1>3, <1>4, <1>5 DEF AddressInv

(* Whoever sets the default across a deletion did so across an adding, too.  *)
LEMMA SetAcross ==
    ASSUME AddressInv, NEW v \in HWorkers, NEW w \in HWorkers, v # w,
           h_step[v] = "write", h_main[v], h_step[w] = "promote", h_home[w] \in saved
    PROVE  joined[v] # {}
BY DEF AddressInv, FoundOrJoined, DeletionAlone

LEMMA AddHomeInv ==
    ASSUME AddressInv, NEW w \in HWorkers, AddHome(w)
    PROVE  AddressInv'
<1> DEFINE h == h_made + 1
<1>0. AddressTypeOK /\ h \in Homes /\ h_made \in Nat /\ h \notin saved /\ main \subseteq saved
    BY AddressAssumption DEF AddHome, AddressInv, AddressTypeOK, Homes
<1>1. /\ h_step' = [h_step EXCEPT ![w] = "idle"]
      /\ h_main' = [h_main EXCEPT ![w] = FALSE]
      /\ h_rows' = [h_rows EXCEPT ![w] = {}]
      /\ h_home' = h_home /\ h_made' = h /\ saved' = saved \cup {h}
      /\ h_step[w] = "write"
    BY DEF AddHome
<1>2. /\ h_step'[w] = "idle"
      /\ \A v \in HWorkers \ {w} :
            h_step'[v] = h_step[v] /\ h_main'[v] = h_main[v] /\ h_rows'[v] = h_rows[v]
    BY <1>0, <1>1 DEF AddressTypeOK
<1>3. \A v \in HWorkers : joined'[v] =
          IF v # w /\ h_step[v] \in {"wait", "write"} THEN joined[v] \cup {h} ELSE {}
    BY DEF AddHome
<1>4. main' = (IF h_main[w] THEN (main \ h_rows[w]) \cup {h} ELSE main)
    BY DEF AddHome
<1>5. /\ h_main[w] => doubled' = (joined[w] # {}) /\ unset' = FALSE
      /\ ~h_main[w] => doubled' = doubled /\ unset' = (unset \/ saved = {})
    BY <1>0 DEF AddHome, AddressTypeOK
<1>6. AddressTypeOK'
    <2>1. 0..h_made \subseteq 0..h /\ 1..h_made \subseteq 1..h /\ h \in 1..h /\ h \in 0..MaxHomes
        BY <1>0, AddressAssumption DEF Homes
    <2>2. joined' \in [HWorkers -> SUBSET (1..h)]
        BY <1>0, <2>1 DEF AddHome, AddressTypeOK
    <2>3. doubled' \in BOOLEAN /\ unset' \in BOOLEAN
        BY <1>0, <1>5 DEF AddressTypeOK
    <2>4. saved' \subseteq 1..h /\ main' \subseteq saved'
        BY <1>0, <1>1, <1>4, <2>1 DEF AddressTypeOK
    <2>5. h_home' \in [HWorkers -> 0..h] /\ h_rows' \in [HWorkers -> SUBSET (1..h)]
        BY <1>0, <1>1, <2>1 DEF AddressTypeOK
    <2>6. /\ h_step' \in [HWorkers -> {"idle", "clear", "wait", "write", "delete", "promote"}]
          /\ h_main' \in [HWorkers -> BOOLEAN]
        BY <1>0, <1>1 DEF AddressTypeOK
    <2> QED BY <1>1, <2>1, <2>2, <2>3, <2>4, <2>5, <2>6 DEF AddressTypeOK
<1>7. FoundOrJoined'
    BY <1>1, <1>2, <1>3 DEF AddressInv, FoundOrJoined
<1>8. DeletionAlone'
    BY <1>1, <1>2 DEF AddressInv, DeletionAlone
<1>9. HeirRead'
    <2>0. \A v \in HWorkers : h_step'[v] \in {"delete", "promote"} => h_home'[v] \in Homes
        BY <1>1, <1>2 DEF AddressInv, HeirRead
    <2> SUFFICES ASSUME NEW v \in HWorkers, h_step'[v] = "promote"
                 PROVE  /\ \E heir \in Homes : h_rows'[v] = {heir} /\ heir # h_home'[v]
                        /\ ~h_main'[v] /\ h_home'[v] \in main'
                              => main' \subseteq {h_home'[v]} \/ doubled'
                        /\ h_main'[v] /\ h_home'[v] \in saved'
                              => main' \ {h_home'[v]} # {} \/ unset' \/ doubled'
        BY <2>0 DEF HeirRead
    <2>1. v # w /\ h_step[v] = "promote"
        BY <1>2
    <2>2. /\ \E heir \in Homes : h_rows[v] = {heir} /\ heir # h_home[v]
          /\ ~h_main[v] /\ h_home[v] \in main => main \subseteq {h_home[v]} \/ doubled
          /\ h_main[v] /\ h_home[v] \in saved => main \ {h_home[v]} # {} \/ unset \/ doubled
        BY <2>1 DEF AddressInv, HeirRead
    <2>3. h_home[v] # h
        BY <1>0, <2>1 DEF AddressInv, HeirRead, AddressTypeOK, Homes
    <2>4. CASE ~h_main[w]
        BY <1>1, <1>2, <1>4, <1>5, <2>1, <2>2, <2>3, <2>4
    <2>5. CASE h_main[w]
        <3>1. h_home[v] \in saved => doubled'
            BY <1>1, <1>5, <2>1, <2>5, SetAcross
        <3>2. h_home[v] \in main' \/ h_home[v] \in saved' => h_home[v] \in saved
            BY <1>0, <1>1, <1>4, <2>3, <2>5
        <3> QED BY <1>1, <1>2, <2>1, <2>2, <3>1, <3>2
    <2> QED BY <2>4, <2>5
<1>10. OneMain'
    <2>1. CASE h_main[w]
        BY <1>0, <1>1, <1>4, <1>5, <2>1 DEF AddressInv, FoundOrJoined, OneMain
    <2> QED BY <1>4, <1>5, <2>1 DEF AddressInv, OneMain
<1>11. SomeMain'
    <2>1. CASE h_main[w]
        BY <1>4, <2>1 DEF SomeMain
    <2>2. CASE ~h_main[w]
        <3>1. main' = main
            BY <1>4, <2>2
        <3>2. doubled => doubled'
            BY <1>5, <2>2
        <3>3. unset => unset'
            BY <1>5, <2>2
        <3>4. saved = {} => unset'
            BY <1>5, <2>2
        <3> QED BY <3>1, <3>2, <3>3, <3>4 DEF AddressInv, SomeMain
    <2> QED BY <2>1, <2>2
<1> QED BY <1>6, <1>7, <1>8, <1>9, <1>10, <1>11 DEF AddressInv

LEMMA ChooseHomeInv ==
    ASSUME AddressInv, NEW w \in HWorkers, ChooseHome(w)
    PROVE  AddressInv'
<1> DEFINE h == h_home[w]
<1>0. AddressTypeOK /\ main \subseteq saved /\ h_made \in Nat
    BY AddressAssumption DEF AddressInv, AddressTypeOK
<1>1. HDone(w) /\ saved' = saved /\ h_made' = h_made
    BY DEF ChooseHome
<1>2. CASE h \notin saved
    <2>1. UNCHANGED <<saved, main, h_made, doubled, unset>>
        BY <1>2 DEF ChooseHome
    <2> QED BY <1>1, <2>1, RequestLeaves
<1>3. CASE h \in saved
    <2>1. /\ h_step[w] = "write"
          /\ main' = (main \ h_rows[w]) \cup {h}
          /\ doubled' = (joined[w] # {})
          /\ unset' = FALSE
        BY <1>3 DEF ChooseHome
    <2>2. AddressTypeOK'
        BY <1>0, <1>1, <1>3, <2>1, RequestEnds DEF AddressTypeOK
    <2>3. FoundOrJoined' /\ DeletionAlone'
        BY <1>0, <1>1, RequestEnds DEF AddressInv, FoundOrJoined, DeletionAlone
    <2>4. h_main[w] /\ saved \subseteq h_rows[w] \cup joined[w]
        BY <2>1 DEF ChooseHome, AddressInv, FoundOrJoined
    <2>5. HeirRead'
        <3>1. ASSUME NEW v \in HWorkers \ {w}, h_step[v] = "promote",
                     h_home[v] \in saved
              PROVE  doubled'
            BY <2>1, <2>4, <3>1, SetAcross
        <3> QED BY <1>0, <1>1, <1>3, <2>1, <3>1, RequestEnds DEF AddressInv, HeirRead
    <2>6. OneMain'
        BY <1>0, <2>1, <2>4 DEF OneMain
    <2>7. SomeMain'
        BY <2>1 DEF SomeMain
    <2> QED BY <2>2, <2>3, <2>5, <2>6, <2>7 DEF AddressInv
<1> QED BY <1>2, <1>3

LEMMA UnsetHomeInv ==
    ASSUME AddressInv, NEW w \in HWorkers, NEW h \in Homes, UnsetHome(w, h)
    PROVE  AddressInv'
<1>1. main' = main \ {h} /\ unset' = TRUE /\ UNCHANGED <<saved, h_made, h_reqs, joined, doubled>>
    BY DEF UnsetHome
<1>2. UNCHANGED <<h_step, h_home, h_main, h_rows>>
    BY <1>1 DEF h_reqs
<1>3. AddressTypeOK'
    BY <1>1, <1>2 DEF AddressInv, AddressTypeOK
<1>4. FoundOrJoined' /\ DeletionAlone'
    BY <1>1, <1>2 DEF AddressInv, FoundOrJoined, DeletionAlone
<1>5. HeirRead'
    BY <1>1, <1>2 DEF AddressInv, HeirRead
<1>6. OneMain' /\ SomeMain'
    BY <1>1 DEF AddressInv, OneMain, SomeMain
<1> QED BY <1>3, <1>4, <1>5, <1>6 DEF AddressInv

LEMMA DeleteHomeInv ==
    ASSUME AddressInv, NEW w \in HWorkers, DeleteHome(w)
    PROVE  AddressInv'
<1> DEFINE h == h_home[w]
           rest == saved \ {h}
<1>0. /\ AddressTypeOK /\ main \subseteq saved /\ saved \subseteq Homes
      /\ h_step[w] = "delete" /\ h \in Homes /\ h \notin LockedRows(w)
      /\ UNCHANGED <<h_made, doubled>>
    BY AddressAssumption
    DEF DeleteHome, AddressInv, AddressTypeOK, HeirRead, Homes, AddressAssumption
<1>1. \A v \in HWorkers \ {w} :
          /\ h_step[v] = "write" => h \notin h_rows[v]
          /\ h_step[v] = "promote" => h # h_home[v]
    BY <1>0 DEF LockedRows
<1>2. CASE h_main[w] /\ rest # {}
    <2>1. PICK heir \in rest :
              FirstOfRest(heir, rest) /\ HGoto(w, "promote", h, heir \in main, {heir})
        BY <1>2 DEF DeleteHome
    <2>2. UNCHANGED <<saved, main, unset>>
        BY <1>2 DEF DeleteHome
    <2>3. (heir \in main) \in BOOLEAN /\ {heir} \in SUBSET (1..h_made) /\ h \in 0..h_made
        BY <1>0 DEF AddressTypeOK
    <2>4. AddressTypeOK'
        <3>1. HGoto(w, "promote", h, heir \in main, {heir})
            BY <2>1
        <3>2. /\ h_step' \in [HWorkers -> {"idle", "clear", "wait", "write", "delete", "promote"}]
              /\ h_home' \in [HWorkers -> 0..h_made]
              /\ h_main' \in [HWorkers -> BOOLEAN]
              /\ h_rows' \in [HWorkers -> SUBSET (1..h_made)]
              /\ joined' \in [HWorkers -> SUBSET (1..h_made)]
            BY <1>0, <2>3, <3>1 DEF HGoto, AddressTypeOK
        <3> QED BY <1>0, <2>2, <3>2 DEF AddressTypeOK
    <2>5. /\ h_step'[w] = "promote" /\ h_home'[w] = h /\ h_main'[w] = (heir \in main)
          /\ h_rows'[w] = {heir}
          /\ \A v \in HWorkers \ {w} :
                /\ h_step'[v] = h_step[v] /\ h_home'[v] = h_home[v]
                /\ h_main'[v] = h_main[v] /\ h_rows'[v] = h_rows[v] /\ joined'[v] = joined[v]
        BY <1>0, <2>1 DEF HGoto, AddressTypeOK
    <2>6. FoundOrJoined'
        BY <2>2, <2>5 DEF AddressInv, FoundOrJoined
    <2>7. DeletionAlone'
        <3> SUFFICES ASSUME NEW v \in HWorkers, NEW u \in HWorkers, v # u, h_step'[u] = "promote"
                     PROVE  /\ h_step'[v] = "write" => h_home'[u] \notin h_rows'[v]
                            /\ h_step'[v] = "promote" => h_home'[v] # h_home'[u]
            BY DEF DeletionAlone
        <3>1. CASE u = w
            <4>1. /\ v \in HWorkers \ {w} /\ h_home'[u] = h
                  /\ h_step'[v] = h_step[v] /\ h_home'[v] = h_home[v] /\ h_rows'[v] = h_rows[v]
                BY <2>5, <3>1
            <4>2. /\ h_step[v] = "write" => h \notin h_rows[v]
                  /\ h_step[v] = "promote" => h # h_home[v]
                BY <1>1, <4>1
            <4> QED BY <4>1, <4>2
        <3>2. CASE v = w
            BY <1>1, <2>5, <3>2
        <3>3. CASE u # w /\ v # w
            BY <2>5, <3>3 DEF AddressInv, DeletionAlone
        <3> QED BY <3>1, <3>2, <3>3
    <2>8. HeirRead'
        <3>1. heir \notin main => main \subseteq {h}
            BY <1>0, <2>1 DEF FirstOfRest
        <3>2. heir \in main => main \ {h} # {}
            OBVIOUS
        <3>3. heir \in Homes /\ heir # h
            BY <1>0
        <3>4. \A v \in HWorkers \ {w} : h_step'[v] = "promote" =>
                  /\ \E g \in Homes : h_rows'[v] = {g} /\ g # h_home'[v]
                  /\ ~h_main'[v] /\ h_home'[v] \in main => main \subseteq {h_home'[v]} \/ doubled
                  /\ h_main'[v] /\ h_home'[v] \in saved
                         => main \ {h_home'[v]} # {} \/ unset \/ doubled
            BY <2>5 DEF AddressInv, HeirRead
        <3>5. \A v \in HWorkers : h_step'[v] \in {"delete", "promote"} => h_home'[v] \in Homes
            BY <1>0, <2>5 DEF AddressInv, HeirRead
        <3> QED BY <1>0, <2>2, <2>5, <3>1, <3>2, <3>3, <3>4, <3>5 DEF HeirRead
    <2>9. OneMain' /\ SomeMain'
        BY <1>0, <2>2 DEF AddressInv, OneMain, SomeMain
    <2> QED BY <2>4, <2>6, <2>7, <2>8, <2>9 DEF AddressInv
<1>3. CASE ~(h_main[w] /\ rest # {})
    <2>1. /\ saved' = rest /\ main' = main \ {h}
          /\ unset' = (unset \/ (h \in main /\ ~h_main[w]))
          /\ HDone(w)
        BY <1>3 DEF DeleteHome
    <2>2. /\ unset => unset'
          /\ h \in main /\ rest # {} => unset'
        BY <1>3, <2>1
    <2>3. AddressTypeOK'
        BY <1>0, <2>1, RequestEnds DEF AddressTypeOK
    <2>4. FoundOrJoined' /\ DeletionAlone'
        BY <1>0, <2>1, RequestEnds DEF AddressInv, FoundOrJoined, DeletionAlone
    <2>5. HeirRead'
        BY <1>0, <1>1, <2>1, <2>2, RequestEnds DEF AddressInv, HeirRead
    <2>6. OneMain' /\ SomeMain'
        BY <1>0, <2>1, <2>2 DEF AddressInv, OneMain, SomeMain
    <2> QED BY <2>3, <2>4, <2>5, <2>6 DEF AddressInv
<1> QED BY <1>2, <1>3

LEMMA PromoteInv ==
    ASSUME AddressInv, NEW w \in HWorkers, Promote(w)
    PROVE  AddressInv'
<1> DEFINE h == h_home[w]
<1>0. /\ AddressTypeOK /\ main \subseteq saved /\ h_step[w] = "promote" /\ h \in Homes
      /\ HDone(w) /\ h_made' = h_made
    BY DEF Promote, AddressInv, AddressTypeOK, HeirRead
<1>1. PICK heir \in Homes : h_rows[w] = {heir} /\ heir # h
    BY <1>0 DEF AddressInv, HeirRead
<1>2. /\ ~h_main[w] /\ h \in main => main \subseteq {h} \/ doubled
      /\ h_main[w] /\ h \in saved => main \ {h} # {} \/ unset \/ doubled
    BY <1>0 DEF AddressInv, HeirRead
<1>3. \A v \in HWorkers \ {w} : h_step[v] = "promote" => h_home[v] # h
    BY <1>0 DEF AddressInv, DeletionAlone
<1>4. CASE h_main[w]
    <2>1. saved' = saved \ {h} /\ main' = main \ {h} /\ UNCHANGED <<doubled, unset>>
        BY <1>4 DEF Promote
    <2>2. AddressTypeOK'
        BY <1>0, <2>1, RequestEnds DEF AddressTypeOK
    <2>3. FoundOrJoined' /\ DeletionAlone'
        BY <1>0, <2>1, RequestEnds DEF AddressInv, FoundOrJoined, DeletionAlone
    <2>4. HeirRead'
        <3>1. ASSUME NEW v \in HWorkers \ {w}, h_step[v] = "promote", h_main[v],
                     h_home[v] \in saved'
              PROVE  main' \ {h_home[v]} # {} \/ unset \/ doubled
            <4>1. h_home[v] # h /\ (main \ {h_home[v]} # {} \/ unset \/ doubled)
                BY <1>3, <2>1, <3>1 DEF AddressInv, HeirRead
            <4>2. h \in main => main \ {h} # {} \/ unset \/ doubled
                BY <1>0, <1>2, <1>4
            <4>3. \A f, g \in main : f = g \/ doubled
                BY DEF AddressInv, OneMain
            <4> QED BY <2>1, <4>1, <4>2, <4>3
        <3> QED BY <1>0, <2>1, <3>1, RequestEnds DEF AddressInv, HeirRead
    <2>5. OneMain' /\ SomeMain'
        BY <1>0, <1>2, <1>4, <2>1 DEF AddressInv, OneMain, SomeMain
    <2> QED BY <2>2, <2>3, <2>4, <2>5 DEF AddressInv
<1>5. CASE ~h_main[w] /\ heir \in saved
    <2>1. /\ saved' = saved \ {h} /\ main' = (main \ {h}) \cup {heir}
          /\ doubled' = (doubled \/ h \notin main)
          /\ unset' = FALSE
          /\ heir \notin LockedRows(w)
        BY <1>1, <1>5 DEF Promote
    <2>2. ~doubled' => ~doubled /\ main = {h} /\ main' = {heir}
        BY <1>0, <1>2, <1>5, <2>1
    <2>3. AddressTypeOK'
        BY <1>0, <1>1, <1>5, <2>1, RequestEnds DEF AddressTypeOK
    <2>4. FoundOrJoined' /\ DeletionAlone'
        BY <1>0, <2>1, RequestEnds DEF AddressInv, FoundOrJoined, DeletionAlone
    <2>5. HeirRead'
        <3>1. \A v \in HWorkers \ {w} : h_step[v] = "promote" => h_home[v] # heir
            BY <1>1, <2>1 DEF LockedRows
        <3> QED BY <1>0, <2>1, <2>2, <3>1, RequestEnds DEF AddressInv, HeirRead
    <2>6. OneMain'
        BY <2>2 DEF OneMain
    <2>7. SomeMain'
        BY <2>1 DEF SomeMain
    <2> QED BY <2>3, <2>4, <2>5, <2>6, <2>7 DEF AddressInv
<1>6. CASE ~h_main[w] /\ heir \notin saved
    <2>1. UNCHANGED <<saved, main, h_made, doubled, unset>>
        BY <1>0, <1>1, <1>6 DEF Promote
    <2> QED BY <1>0, <2>1, RequestLeaves
<1> QED BY <1>4, <1>5, <1>6

LEMMA AddressNextInv == AddressInv /\ [AddressNext]_addressVars => AddressInv'
<1> SUFFICES ASSUME AddressInv, [AddressNext]_addressVars PROVE AddressInv'
    OBVIOUS
<1>0. /\ AddressTypeOK /\ saved \subseteq 1..h_made /\ 1..h_made \subseteq 0..h_made
      /\ 0 \in 0..h_made /\ saved \subseteq Homes /\ h_home \in [HWorkers -> 0..h_made]
    BY AddressAssumption DEF AddressInv, AddressTypeOK, Homes, AddressAssumption
<1>1. ASSUME NEW w \in HWorkers, NEW wanted \in BOOLEAN, StartCreate(w, wanted)
      PROVE  AddressInv'
    <2> DEFINE default == wanted \/ saved = {}
               s == IF default THEN "clear" ELSE "write"
    <2>1. /\ default \in BOOLEAN /\ s \in {"clear", "write"} /\ (s = "write" => ~default)
          /\ HGoto(w, s, 0, default, {})
          /\ UNCHANGED <<saved, main, h_made, doubled, unset>>
        BY <1>1 DEF StartCreate, HBegin
    <2> QED BY <1>0, <2>1, RequestStepInv
<1>2. ASSUME NEW w \in HWorkers, NEW h \in Homes, StartChoose(w, h)
      PROVE  AddressInv'
    BY <1>0, <1>2, RequestStepInv DEF StartChoose, HBegin
<1>3. ASSUME NEW w \in HWorkers, NEW h \in Homes, StartDelete(w, h)
      PROVE  AddressInv'
    <2>1. (h \in main) \in BOOLEAN /\ h \in 0..h_made
        BY <1>0, <1>3 DEF StartDelete
    <2>2. HGoto(w, "delete", h, h \in main, {}) /\ UNCHANGED <<saved, main, h_made, doubled, unset>>
        BY <1>3 DEF StartDelete, HBegin
    <2> QED BY <2>1, <2>2, RequestStepInv
<1>4. ASSUME NEW w \in HWorkers, ClearDefault(w)
      PROVE  AddressInv'
    <2>1. PICK s \in {"wait", "write"} :
              /\ s = "write" => saved \cap LockedRows(w) = {}
              /\ HGoto(w, s, h_home[w], TRUE, saved)
        BY <1>4 DEF ClearDefault
    <2> QED BY <1>0, <1>4, <2>1, RequestStepInv DEF ClearDefault
<1>5. ASSUME NEW w \in HWorkers, GiveUp(w)
      PROVE  AddressInv'
    BY <1>5, RequestLeaves DEF GiveUp
<1>6. CASE UNCHANGED addressVars
    BY <1>6 DEF addressVars, h_reqs, AddressInv, AddressTypeOK, FoundOrJoined, DeletionAlone,
       HeirRead, OneMain, SomeMain
<1> QED BY <1>1, <1>2, <1>3, <1>4, <1>5, <1>6, GetRowsInv, AddHomeInv, ChooseHomeInv,
           UnsetHomeInv, DeleteHomeInv, PromoteInv DEF AddressNext

LEMMA AddressInvSafe == AddressInv => DefaultKept
<1> SUFFICES ASSUME AddressInv, ~doubled PROVE ~(Cardinality(main) > 1)
    BY Zenon DEF AddressInv, SomeMain, DefaultKept
<1>1. CASE main = {}
    <2>1. Cardinality(main) = 0
        BY <1>1, FS_EmptySet
    <2> QED BY <2>1
<1>2. CASE main # {}
    <2>1. PICK h \in main : TRUE
        BY <1>2
    <2>2. main = {h}
        BY <2>1 DEF AddressInv, OneMain
    <2> QED BY <2>2, FS_Singleton
<1> QED BY <1>1, <1>2

(* A customer keeps one default address, for every number of requests and    *)
(* addresses; it is two, or none, only on the grounds DefaultKept names.     *)
THEOREM DefaultsKept == AddressSpec => [](AddressTypeOK /\ DefaultKept)
<1>1. AddressInv => AddressTypeOK /\ DefaultKept
    BY AddressInvSafe DEF AddressInv
<1> QED BY <1>1, AddressInitInv, AddressNextInv, PTL DEF AddressSpec

-----------------------------------------------------------------------------
(* Customer profiles *)

(* Until an administrator or an overlap intervenes, an address has one       *)
(* profile at most, and once it has an account that profile is linked to it. *)
OneProfile ==
    ~unsettled =>
        /\ \A p, q \in mail : p = q
        /\ linked # NoProfile => mail = {linked}
        /\ account <=> linked # NoProfile

ProfileInv == ProfileTypeOK /\ OneProfile

LEMMA ProfileInitInv == ProfileInit => ProfileInv
<1> SUFFICES ASSUME ProfileInit PROVE ProfileInv
    OBVIOUS
<1> USE DEF ProfileInit
<1>1. Cardinality(Profiles) \in Nat
    BY FS_CardinalityType, ProfileAssumption DEF ProfileAssumption
<1>2. ProfileTypeOK
    <2>1. made \in [Profiles -> 0..Cardinality(Profiles)] /\ orders \in [Profiles -> 0..MaxOrders]
        BY <1>1, ProfileAssumption DEF ProfileAssumption
    <2>2. c_read \in [CWorkers -> [account : BOOLEAN, linked : Profiles \cup {NoProfile},
                                   owner : Profiles \cup {NoProfile}]]
        BY DEF NoRead
    <2> QED BY <2>1, <2>2 DEF ProfileTypeOK
<1>3. OneProfile
    BY DEF OneProfile
<1> QED BY <1>2, <1>3 DEF ProfileInv

(* _pick_canonical_customer: of the profiles with the most orders, the       *)
(* linked one or the newest.                                                *)
LEMMA CanonicalExists ==
    ASSUME ProfileTypeOK, NEW P \in SUBSET Profiles, P # {}
    PROVE  Canonical(P) \in P
<1>0. IsFiniteSet(P) /\ \A p \in P : orders[p] \in Int /\ made[p] \in Int
    <2>1. IsFiniteSet(P)
        BY FS_Subset, ProfileAssumption DEF ProfileAssumption
    <2>2. Cardinality(Profiles) \in Nat
        BY FS_CardinalityType, ProfileAssumption DEF ProfileAssumption
    <2> QED BY <2>1, <2>2, ProfileAssumption DEF ProfileTypeOK, ProfileAssumption
<1>1. PICK b \in P : \A q \in P : orders[q] <= orders[b]
    BY <1>0, GreatestExists DEF Integral
<1> DEFINE M == {p \in P : orders[p] = orders[b]}
<1>2. CASE linked \in M
    <2>1. \A q \in P : AsGood(linked, q)
        BY <1>0, <1>1, <1>2 DEF AsGood
    <2> QED BY <1>2, <2>1 DEF Canonical
<1>3. CASE linked \notin M
    <2>1. IsFiniteSet(M) /\ M # {} /\ Integral(made, M)
        BY <1>0, <1>1, FS_Subset DEF Integral
    <2> HIDE DEF M
    <2>2. PICK p \in M : \A q \in M : made[q] <= made[p]
        BY <2>1, GreatestExists
    <2>3. p \in P /\ orders[p] = orders[b]
        BY DEF M
    <2>4. ASSUME NEW q \in P PROVE AsGood(p, q)
        <3>1. CASE orders[q] = orders[b]
            <4>1. q \in M
                BY <3>1 DEF M
            <4>2. q # linked /\ made[p] >= made[q]
                BY <1>0, <1>3, <2>2, <2>3, <4>1
            <4> QED BY <2>3, <3>1, <4>2 DEF AsGood
        <3>2. CASE orders[q] # orders[b]
            <4>1. orders[p] > orders[q]
                BY <1>0, <1>1, <2>3, <3>2
            <4> QED BY <4>1 DEF AsGood
        <3> QED BY <3>1, <3>2
    <2> QED BY <2>3, <2>4 DEF Canonical
<1> QED BY <1>2, <1>3

LEMMA OwnerMade ==
    ASSUME ProfileTypeOK
    PROVE  Owner \in (Profiles \ Unmade) \cup {NoProfile}
<1>1. Candidates \subseteq Profiles \ Unmade
    BY DEF ProfileTypeOK, Candidates
<1>2. CASE mail \subseteq {linked} /\ linked # NoProfile
    BY <1>2 DEF Owner, ProfileTypeOK
<1>3. CASE Candidates = {} /\ ~ (mail \subseteq {linked} /\ linked # NoProfile)
    BY <1>3 DEF Owner
<1>4. CASE Candidates # {} /\ ~ (mail \subseteq {linked} /\ linked # NoProfile)
    <2>1. Canonical(Candidates) \in Candidates
        BY <1>1, <1>4, CanonicalExists DEF Unmade
    <2> QED BY <1>1, <1>4, <2>1 DEF Owner
<1> QED BY <1>2, <1>3, <1>4

(* A customer nothing has unsettled has one profile to end up with. *)
LEMMA OwnerAlone ==
    ASSUME ProfileInv, ~unsettled
    PROVE  /\ linked # NoProfile => mail = {linked} /\ Owner = linked
           /\ linked = NoProfile /\ mail = {} => Owner = NoProfile
           /\ linked = NoProfile /\ mail # {} => mail = {Owner}
<1>0. /\ \A p, q \in mail : p = q
      /\ linked # NoProfile => mail = {linked}
      /\ mail \subseteq Profiles /\ NoProfile \notin Profiles
    BY ProfileAssumption DEF ProfileInv, OneProfile, ProfileTypeOK, ProfileAssumption
<1>1. CASE linked # NoProfile
    BY <1>0, <1>1 DEF Owner
<1>2. CASE linked = NoProfile
    <2>1. Candidates = mail /\ Candidates \in SUBSET Profiles
        BY <1>0, <1>2 DEF Candidates
    <2>2. CASE mail = {}
        BY <1>2, <2>1, <2>2 DEF Owner
    <2>3. CASE mail # {}
        <3>1. Canonical(Candidates) \in Candidates
            BY <2>1, <2>3, CanonicalExists DEF ProfileInv
        <3>2. Owner = Canonical(Candidates)
            BY <1>2, <2>1, <2>3 DEF Owner
        <3> QED BY <1>0, <1>2, <2>1, <3>1, <3>2
    <2> QED BY <1>2, <2>2, <2>3
<1> QED BY <1>1, <1>2

(* Making a profile. *)
LEMMA MadeTypes ==
    ASSUME ProfileTypeOK, NEW p \in Profiles,
           made' = [made EXCEPT ![p] = IF @ = 0 THEN Clock ELSE @]
    PROVE  /\ made' \in [Profiles -> 0..Cardinality(Profiles)]
           /\ Profiles \ Unmade' = (Profiles \ Unmade) \cup {p}
<1> DEFINE M == Profiles \ Unmade
<1>0. IsFiniteSet(Profiles) /\ Cardinality(Profiles) \in Nat
    BY FS_CardinalityType, ProfileAssumption DEF ProfileAssumption
<1>1. M \in SUBSET Profiles
    OBVIOUS
<1>2. /\ Cardinality(M) \in Nat /\ Cardinality(M) <= Cardinality(Profiles)
      /\ Cardinality(M) = Cardinality(Profiles) => Profiles = M
    BY <1>0, <1>1, FS_Subset, FS_CardinalityType
<1>3. made[p] = 0 => p \notin M
    BY DEF Unmade
<1>4. Clock = Cardinality(M) + 1
    BY DEF Clock
<1> HIDE DEF M
<1>5. made[p] = 0 => Clock \in 1 .. Cardinality(Profiles)
    BY <1>0, <1>2, <1>3, <1>4
<1>6. made' \in [Profiles -> 0..Cardinality(Profiles)]
    BY <1>0, <1>5 DEF ProfileTypeOK
<1>7. made'[p] # 0 /\ \A q \in Profiles : q # p => made'[q] = made[q]
    BY <1>0, <1>5 DEF ProfileTypeOK
<1> QED BY <1>6, <1>7 DEF Unmade

LEMMA SettleTypes ==
    ASSUME ProfileTypeOK, NEW p \in Profiles, NEW n,
           n = 0 \/ (n = 1 /\ orders[p] < MaxOrders),
           made' = [made EXCEPT ![p] = IF @ = 0 THEN Clock ELSE @],
           mail' = mail \cup {p}, linked' \in {p, linked},
           orders' = [orders EXCEPT ![p] = @ + n]
    PROVE  /\ made' \in [Profiles -> 0..Cardinality(Profiles)]
           /\ mail' \subseteq Profiles \ Unmade'
           /\ linked' \in (Profiles \ Unmade') \cup {NoProfile}
           /\ orders' \in [Profiles -> 0..MaxOrders]
<1>1. /\ made' \in [Profiles -> 0..Cardinality(Profiles)]
      /\ Profiles \ Unmade' = (Profiles \ Unmade) \cup {p}
    BY MadeTypes
<1>2. mail' \subseteq Profiles \ Unmade' /\ linked' \in (Profiles \ Unmade') \cup {NoProfile}
    BY <1>1 DEF ProfileTypeOK
<1>3. orders' \in [Profiles -> 0..MaxOrders]
    BY ProfileAssumption DEF ProfileTypeOK, ProfileAssumption
<1> QED BY <1>1, <1>2, <1>3

LEMMA ProfileForTypes ==
    ASSUME NEW p \in Profiles \cup {NoProfile}
    PROVE  ProfileFor(p) \subseteq Profiles
BY DEF ProfileFor, Unmade

(* A settled customer ends up with one profile again. *)
LEMMA SettleAlone ==
    ASSUME ProfileInv, ~unsettled, NEW p \in ProfileFor(Owner), NEW l, NEW n, Settle(p, l, n)
    PROVE  /\ mail' = {p}
           /\ l => linked' = p
           /\ ~l => linked' = linked
<1>1. mail \subseteq Profiles /\ NoProfile \notin Profiles
    BY ProfileAssumption DEF ProfileInv, ProfileTypeOK, ProfileAssumption
<1>2. mail \subseteq {p}
    <2>1. CASE linked # NoProfile
        BY <2>1, OwnerAlone DEF ProfileFor
    <2>2. CASE linked = NoProfile /\ mail # {}
        <3>1. mail = {Owner}
            BY <2>2, OwnerAlone
        <3> QED BY <1>1, <3>1 DEF ProfileFor
    <2> QED BY <2>1, <2>2
<1> QED BY <1>2 DEF Settle

-----------------------------------------------------------------------------

LEMMA RegisterInv ==
    ASSUME ProfileInv, Register
    PROVE  ProfileInv'
<1>0. ProfileTypeOK /\ OneProfile /\ NoProfile \notin Profiles
    BY ProfileAssumption DEF ProfileInv, ProfileAssumption
<1>1. PICK p \in ProfileFor(Owner) : Settle(p, TRUE, 0)
    BY DEF Register
<1>2. p \in Profiles
    BY <1>0, <1>1, OwnerMade, ProfileForTypes
<1>3. /\ account' = TRUE /\ UNCHANGED <<c_step, c_read>> /\ unsettled' = unsettled
    BY DEF Register
<1>4. ProfileTypeOK'
    <2>1. account' \in BOOLEAN /\ unsettled' \in BOOLEAN
        BY <1>0, <1>3, Zenon DEF ProfileTypeOK
    <2>2. /\ made' \in [Profiles -> 0..Cardinality(Profiles)]
          /\ mail' \subseteq Profiles \ Unmade'
          /\ linked' \in (Profiles \ Unmade') \cup {NoProfile}
          /\ orders' \in [Profiles -> 0..MaxOrders]
        <3> DEFINE n == 0
        <3>1. /\ made' = [made EXCEPT ![p] = IF @ = 0 THEN Clock ELSE @]
              /\ mail' = mail \cup {p} /\ linked' \in {p, linked}
              /\ orders' = [orders EXCEPT ![p] = @ + n]
            BY <1>1 DEF Settle
        <3>2. n = 0 \/ (n = 1 /\ orders[p] < MaxOrders)
            OBVIOUS
        <3> HIDE DEF n
        <3> QED BY <1>0, <1>2, <3>1, <3>2, SettleTypes
    <2> QED BY <1>0, <1>3, <2>1, <2>2 DEF ProfileTypeOK
<1>5. OneProfile'
    <2> SUFFICES ASSUME ~unsettled' PROVE mail' = {p} /\ linked' = p /\ p # NoProfile /\ account'
        BY DEF OneProfile
    <2>1. ~unsettled
        BY <1>3
    <2> QED BY <1>0, <1>1, <1>2, <1>3, <2>1, SettleAlone
<1> QED BY <1>4, <1>5 DEF ProfileInv

LEMMA ReadingTypes ==
    ASSUME ProfileTypeOK
    PROVE  Reading \in [account : BOOLEAN, linked : Profiles \cup {NoProfile},
                        owner : Profiles \cup {NoProfile}]
BY OwnerMade DEF Reading, ProfileTypeOK

(* A visit or a checkout commits: n orders more, linked when l. *)
LEMMA CompleteInv ==
    ASSUME ProfileInv, NEW w \in CWorkers, NEW joins \in BOOLEAN, NEW l, NEW n,
           NEW p \in ProfileFor(c_read[w].owner),
           l \in BOOLEAN, l <=> joins \/ Moves(c_read[w]),
           n = 0 \/ (n = 1 /\ orders[p] < MaxOrders),
           Settle(p, l, n),
           account' = (account \/ joins),
           unsettled' = (unsettled \/ c_read[w] # Reading),
           CGoto(w, "idle", NoRead)
    PROVE  ProfileInv'
<1>0. ProfileTypeOK /\ OneProfile /\ NoProfile \notin Profiles
    BY ProfileAssumption DEF ProfileInv, ProfileAssumption
<1>1. p \in Profiles
    <2>1. c_read[w] \in [account : BOOLEAN, linked : Profiles \cup {NoProfile},
                         owner : Profiles \cup {NoProfile}]
        BY <1>0 DEF ProfileTypeOK
    <2> QED BY <2>1, ProfileForTypes
<1>2. ProfileTypeOK'
    <2>1. account' \in BOOLEAN /\ unsettled' \in BOOLEAN
        BY Zenon
    <2>2. /\ c_step' \in [CWorkers -> {"idle", "visit", "place"}]
          /\ c_read' \in [CWorkers -> [account : BOOLEAN, linked : Profiles \cup {NoProfile},
                                       owner : Profiles \cup {NoProfile}]]
        <3>1. NoRead \in [account : BOOLEAN, linked : Profiles \cup {NoProfile},
                          owner : Profiles \cup {NoProfile}]
            BY DEF NoRead
        <3> QED BY <1>0, <3>1 DEF CGoto, ProfileTypeOK
    <2>3. /\ made' \in [Profiles -> 0..Cardinality(Profiles)]
          /\ mail' \subseteq Profiles \ Unmade'
          /\ linked' \in (Profiles \ Unmade') \cup {NoProfile}
          /\ orders' \in [Profiles -> 0..MaxOrders]
        BY <1>0, <1>1, SettleTypes DEF Settle
    <2> QED BY <2>1, <2>2, <2>3 DEF ProfileTypeOK
<1>3. OneProfile'
    <2> SUFFICES ASSUME ~unsettled'
                 PROVE  /\ mail' = {p} /\ p # NoProfile
                        /\ \/ linked' = p /\ account'
                           \/ linked' = NoProfile /\ ~account'
        BY DEF OneProfile
    <2>1. ~unsettled /\ c_read[w] = Reading
        BY Zenon
    <2>2. c_read[w].owner = Owner /\ c_read[w].linked = linked /\ c_read[w].account = account
        BY <2>1 DEF Reading
    <2>3. /\ mail' = {p}
          /\ l => linked' = p
          /\ ~l => linked' = linked
        <3>1. p \in ProfileFor(Owner)
            BY <2>2
        <3> QED BY <1>0, <2>1, <3>1, SettleAlone DEF ProfileInv
    <2>4. account <=> linked # NoProfile
        BY <1>0, <2>1, Zenon DEF OneProfile
    <2>5. mail' = {p} /\ p # NoProfile
        BY <1>0, <1>1, <2>3
    <2>6. CASE account
        <3>1. Owner = linked /\ linked # NoProfile
            BY <2>1, <2>4, <2>6, OwnerAlone, Zenon
        <3>2. p = linked
            BY <2>2, <3>1 DEF ProfileFor
        <3>3. linked' = p
            BY <2>3, <3>2
        <3>4. account'
            BY <2>6, Zenon
        <3> QED BY <2>5, <3>3, <3>4, Zenon
    <2>7. CASE ~account
        <3>1. ~Moves(c_read[w]) /\ linked = NoProfile
            BY <2>2, <2>4, <2>7, Zenon DEF Moves
        <3>2. l <=> joins
            BY <3>1, Zenon
        <3>3. account' <=> joins
            BY <2>7, Zenon
        <3> QED BY <2>3, <2>5, <3>1, <3>2, <3>3, Zenon
    <2> QED BY <2>6, <2>7
<1> QED BY <1>2, <1>3 DEF ProfileInv

LEMMA CompleteVisitInv ==
    ASSUME ProfileInv, NEW w \in CWorkers, CompleteVisit(w)
    PROVE  ProfileInv'
<1> DEFINE r == c_read[w]
           l == Moves(r)
           n == 0
<1>1. /\ \E p \in ProfileFor(r.owner) : Settle(p, l, n)
      /\ account' = account
      /\ unsettled' = (unsettled \/ r # Reading)
      /\ CGoto(w, "idle", NoRead)
    BY DEF CompleteVisit
<1>2. PICK p \in ProfileFor(r.owner) : Settle(p, l, n)
    BY <1>1
<1>3. l \in BOOLEAN /\ (l <=> FALSE \/ Moves(r)) /\ n = 0 /\ FALSE \in BOOLEAN
    BY Zenon DEF Moves
<1>4. account' = (account \/ FALSE)
    <2>1. account \in BOOLEAN
        BY DEF ProfileInv, ProfileTypeOK
    <2> QED BY <1>1, <2>1, Zenon
<1> HIDE DEF l, n
<1> QED BY <1>1, <1>2, <1>3, <1>4, CompleteInv

LEMMA CompleteCheckoutInv ==
    ASSUME ProfileInv, NEW w \in CWorkers, NEW joins \in BOOLEAN, CompleteCheckout(w, joins)
    PROVE  ProfileInv'
<1> DEFINE r == c_read[w]
           l == joins \/ Moves(r)
           n == 1
<1>1. /\ \E p \in ProfileFor(r.owner) : orders[p] < MaxOrders /\ Settle(p, l, n)
      /\ account' = (account \/ joins)
      /\ unsettled' = (unsettled \/ r # Reading)
      /\ CGoto(w, "idle", NoRead)
    BY DEF CompleteCheckout
<1>2. PICK p \in ProfileFor(r.owner) : orders[p] < MaxOrders /\ Settle(p, l, n)
    BY <1>1
<1>3. l \in BOOLEAN /\ (l <=> joins \/ Moves(r)) /\ n = 1
    BY Zenon
<1> HIDE DEF l, n
<1> QED BY <1>1, <1>2, <1>3, CompleteInv

LEMMA RequestBeginsInv ==
    ASSUME ProfileInv, NEW w \in CWorkers,
           StartVisit(w) \/ StartCheckout(w) \/ DropRequest(w)
    PROVE  ProfileInv'
<1>0. ProfileTypeOK /\ OneProfile
    BY DEF ProfileInv
<1>1. UNCHANGED <<account, made, mail, linked, orders, unsettled>>
    BY DEF StartVisit, StartCheckout, DropRequest
<1>2. PICK s \in {"idle", "visit", "place"},
           r \in [account : BOOLEAN, linked : Profiles \cup {NoProfile},
                  owner : Profiles \cup {NoProfile}] : CGoto(w, s, r)
    <2>1. Reading \in [account : BOOLEAN, linked : Profiles \cup {NoProfile},
                       owner : Profiles \cup {NoProfile}]
        BY <1>0, ReadingTypes
    <2>2. NoRead \in [account : BOOLEAN, linked : Profiles \cup {NoProfile},
                      owner : Profiles \cup {NoProfile}]
        BY DEF NoRead
    <2> QED BY <2>1, <2>2 DEF StartVisit, StartCheckout, DropRequest
<1>3. /\ c_step' \in [CWorkers -> {"idle", "visit", "place"}]
      /\ c_read' \in [CWorkers -> [account : BOOLEAN, linked : Profiles \cup {NoProfile},
                                   owner : Profiles \cup {NoProfile}]]
    BY <1>0, <1>2 DEF CGoto, ProfileTypeOK
<1>4. ProfileTypeOK'
    BY <1>0, <1>1, <1>3 DEF ProfileTypeOK, Unmade
<1>5. OneProfile'
    BY <1>0, <1>1 DEF OneProfile
<1> QED BY <1>4, <1>5 DEF ProfileInv

LEMMA AdministratorInv ==
    ASSUME ProfileInv, NEW p \in Profiles,
           \/ \E m, l \in BOOLEAN : EditProfile(p, m, l)
           \/ \E n \in 0..MaxOrders : SetOrders(p, n)
    PROVE  ProfileInv'
<1>0. ProfileTypeOK
    BY DEF ProfileInv
<1>1. OneProfile' /\ unsettled' \in BOOLEAN /\ UNCHANGED <<account, c_step, c_read>>
    BY DEF EditProfile, SetOrders, OneProfile
<1>2. ASSUME NEW m \in BOOLEAN, NEW l \in BOOLEAN, EditProfile(p, m, l)
      PROVE  ProfileTypeOK'
    <2>1. /\ made' \in [Profiles -> 0..Cardinality(Profiles)]
          /\ Profiles \ Unmade' = (Profiles \ Unmade) \cup {p}
        BY <1>0, <1>2, MadeTypes DEF EditProfile
    <2>2. /\ mail' \subseteq Profiles \ Unmade'
          /\ linked' \in (Profiles \ Unmade') \cup {NoProfile}
        BY <1>0, <1>2, <2>1 DEF EditProfile, ProfileTypeOK
    <2> QED BY <1>0, <1>1, <1>2, <2>1, <2>2 DEF EditProfile, ProfileTypeOK
<1>3. ASSUME NEW n \in 0..MaxOrders, SetOrders(p, n)
      PROVE  ProfileTypeOK'
    BY <1>0, <1>1, <1>3 DEF SetOrders, ProfileTypeOK, Unmade
<1> QED BY <1>1, <1>2, <1>3 DEF ProfileInv

LEMMA ProfileNextInv == ProfileInv /\ [ProfileNext]_profileVars => ProfileInv'
<1>1. ASSUME ProfileInv, UNCHANGED profileVars PROVE ProfileInv'
    BY <1>1 DEF profileVars, ProfileInv, ProfileTypeOK, OneProfile, Unmade
<1> QED BY <1>1, RegisterInv, RequestBeginsInv, CompleteVisitInv, CompleteCheckoutInv,
           AdministratorInv
        DEF ProfileNext

(* The only profile is the linked one, so there is no other to move to. *)
LEMMA ProfileInvSafe == ProfileInv => AccountUsable
<1> SUFFICES ASSUME ProfileInv, ~unsettled, LinkRefused PROVE FALSE
    BY DEF AccountUsable, LockedOut
<1>1. linked # NoProfile /\ Owner < linked
    BY DEF LinkRefused
<1>2. Owner = linked /\ linked \in Nat
    BY <1>1, OwnerAlone, ProfileAssumption DEF ProfileInv, ProfileTypeOK, ProfileAssumption
<1> QED BY <1>1, <1>2

(* For any number of profiles and checkouts, a customer is never locked out  *)
(* by registering, signing in and checking out one after the other: only an *)
(* administrator's change or an overlap leaves a link that cannot be moved. *)
THEOREM ProfilesUsable == ProfileSpec => [](ProfileTypeOK /\ AccountUsable)
<1>1. ProfileInv => ProfileTypeOK /\ AccountUsable
    BY ProfileInvSafe DEF ProfileInv
<1> QED BY <1>1, ProfileInitInv, ProfileNextInv, PTL DEF ProfileSpec

-----------------------------------------------------------------------------
(* Sessions.  Two things carry the argument: a request that is about to end  *)
(* the sessions has found every unrevoked token of the logins found, and as *)
(* long as no two such requests overlapped no token carries a token_version *)
(* above the user's.                                                        *)

(* Tokens that exist belong to a login. *)
TokensOwned == \A t \in Tokens : token[t] # "none" => chain[t] \in Logins

(* What requests have read exists. *)
ReadTokensExist ==
    /\ \A w \in TWorkers : t_step[w] \in {"rotate", "refresh"} => t_token[w] # NoToken
    /\ \A w \in TWorkers : t_token[w] # NoToken => token[t_token[w]] # "none"
    /\ \A w \in TWorkers : \A t \in t_found[w] : token[t] # "none"

(* The logins that were ended have had a token. *)
EndedOwned == \A l \in ended : \E t \in Tokens : token[t] # "none" /\ chain[t] = l

(* A token of a login found by a request that ends the sessions is found,   *)
(* or is revoked, or the login was refreshed meanwhile.                     *)
FoundAll ==
    \A w \in TWorkers : t_step[w] = "end" =>
        \A t \in Tokens, u \in t_found[w] :
            t \in Unrevoked /\ chain[t] = chain[u] => t \in t_found[w] \/ chain[t] \in crossed

(* token_version only rises, and every token has one it has had. *)
VersionsBelow ==
    ~rewound => /\ \A t \in Tokens : issued[t] <= version
                /\ \A w \in TWorkers : t_read[w] <= version

TokenInv ==
    /\ TokenTypeOK
    /\ TokensOwned
    /\ ReadTokensExist
    /\ EndedOwned
    /\ FoundAll
    /\ VersionsBelow
    /\ EndedForGood
    /\ OneLivePerLogin

-----------------------------------------------------------------------------

LEMMA TokenInitInv == TokenInit => TokenInv
<1> SUFFICES ASSUME TokenInit PROVE TokenInv
    OBVIOUS
<1> USE TokenAssumption DEF TokenInit
<1>1. TokenTypeOK
    <2>1. version \in 1..MaxVersion /\ issued \in [Tokens -> 0..MaxVersion]
          /\ t_read \in [TWorkers -> 0..MaxVersion]
        OBVIOUS
    <2>2. t_found \in [TWorkers -> SUBSET Tokens] /\ rewound \in BOOLEAN
        OBVIOUS
    <2> QED BY <2>1, <2>2 DEF TokenTypeOK
<1>2. TokensOwned /\ ReadTokensExist /\ EndedOwned /\ FoundAll /\ VersionsBelow
    BY DEF TokensOwned, ReadTokensExist, EndedOwned, FoundAll, VersionsBelow
<1>3. EndedForGood /\ OneLivePerLogin
    BY DEF EndedForGood, OneLivePerLogin, Unrevoked
<1> QED BY <1>1, <1>2, <1>3 DEF TokenInv

LEMMA NewTokenUnused ==
    ASSUME NEW t \in NewToken
    PROVE  t \in Tokens /\ token[t] = "none"
BY DEF NewToken, AnyOf

LEMMA NewLoginUnused ==
    ASSUME NEW l \in NewLogin
    PROVE  l \in Logins /\ \A t \in Tokens : chain[t] # l
BY DEF NewLogin, AnyOf

TSteps == {"idle", "login", "rotate", "refresh", "reused", "reuse", "ending", "end"}

LEMMA TGotoOthers ==
    ASSUME TokenTypeOK, NEW w \in TWorkers, NEW s \in TSteps, NEW t \in Tokens \cup {NoToken},
           NEW n \in 0..MaxVersion, NEW S \in SUBSET Tokens, TGoto(w, s, t, n, S)
    PROVE  /\ t_step' \in [TWorkers -> TSteps]
           /\ t_token' \in [TWorkers -> Tokens \cup {NoToken}]
           /\ t_read' \in [TWorkers -> 0..MaxVersion]
           /\ t_found' \in [TWorkers -> SUBSET Tokens]
           /\ t_step'[w] = s /\ t_token'[w] = t /\ t_read'[w] = n /\ t_found'[w] = S
           /\ \A v \in TWorkers : v # w => /\ t_step'[v] = t_step[v] /\ t_token'[v] = t_token[v]
                                           /\ t_read'[v] = t_read[v] /\ t_found'[v] = t_found[v]
BY DEF TGoto, TokenTypeOK, TSteps

LEMMA TDoneOthers ==
    ASSUME TokenTypeOK, NEW w \in TWorkers, TDone(w)
    PROVE  /\ t_step' \in [TWorkers -> TSteps]
           /\ t_token' \in [TWorkers -> Tokens \cup {NoToken}]
           /\ t_read' \in [TWorkers -> 0..MaxVersion]
           /\ t_found' \in [TWorkers -> SUBSET Tokens]
           /\ t_step'[w] = "idle" /\ t_token'[w] = NoToken /\ t_read'[w] = 0 /\ t_found'[w] = {}
           /\ \A v \in TWorkers : v # w => /\ t_step'[v] = t_step[v] /\ t_token'[v] = t_token[v]
                                           /\ t_read'[v] = t_read[v] /\ t_found'[v] = t_found[v]
<1>1. TGoto(w, "idle", NoToken, 0, {})
    BY DEF TDone
<1>2. "idle" \in TSteps /\ NoToken \in Tokens \cup {NoToken} /\ 0 \in 0..MaxVersion
      /\ {} \in SUBSET Tokens
    BY TokenAssumption DEF TSteps
<1> QED BY <1>1, <1>2, TGotoOthers

-----------------------------------------------------------------------------
(* Steps that change no token *)

(* A request that reads the version or keeps what it read of it, that finds  *)
(* every unrevoked token or none, or that is abandoned.                     *)
LEMMA RequestInv ==
    ASSUME TokenInv, NEW w \in TWorkers, UNCHANGED <<t_rows, t_history>>,
           NEW s \in TSteps, NEW u \in Tokens \cup {NoToken},
           NEW n \in {0, version, t_read[w]}, NEW S \in {{}, Unrevoked}, TGoto(w, s, u, n, S),
           s \in {"rotate", "refresh"} => u # NoToken,
           u # NoToken => token[u] # "none"
    PROVE  TokenInv'
<1> USE DEF TokenInv, t_rows, t_history
<1>0. n \in 0..MaxVersion /\ S \in SUBSET Tokens /\ (~rewound => n <= version)
    BY TokenAssumption DEF TokenTypeOK, Unrevoked, VersionsBelow
<1>a. /\ t_step'[w] = s /\ t_token'[w] = u /\ t_read'[w] = n /\ t_found'[w] = S
      /\ \A v \in TWorkers : v # w => /\ t_step'[v] = t_step[v] /\ t_token'[v] = t_token[v]
                                      /\ t_read'[v] = t_read[v] /\ t_found'[v] = t_found[v]
    BY <1>0, TGotoOthers
<1>1. TokenTypeOK'
    BY <1>0, TGotoOthers DEF TokenTypeOK, TSteps
<1>2. TokensOwned' /\ EndedOwned'
    BY DEF TokensOwned, EndedOwned
<1>3. ReadTokensExist'
    <2>1. \A v \in TWorkers :
              /\ t_step'[v] \in {"rotate", "refresh"} => t_token'[v] # NoToken
              /\ t_token'[v] # NoToken => token[t_token'[v]] # "none"
        BY <1>a DEF ReadTokensExist
    <2>2. \A v \in TWorkers : \A t \in t_found'[v] : token[t] # "none"
        BY <1>a DEF ReadTokensExist, Unrevoked
    <2> QED BY <2>1, <2>2 DEF ReadTokensExist
<1>4. FoundAll'
    <2>1. Unrevoked' = Unrevoked
        BY DEF Unrevoked
    <2> QED BY <1>a, <2>1 DEF FoundAll
<1>5. VersionsBelow'
    BY <1>0, TGotoOthers DEF VersionsBelow
<1>6. EndedForGood' /\ OneLivePerLogin'
    BY DEF EndedForGood, Accepted, OneLivePerLogin, Unrevoked
<1> QED BY <1>1, <1>2, <1>3, <1>4, <1>5, <1>6

LEMMA StartInv ==
    ASSUME TokenInv, NEW w \in TWorkers,
           \/ StartLogin(w) \/ LoadUser(w) \/ StartEndSessions(w) \/ FindTokens(w) \/ Abandon(w)
           \/ \E t \in Tokens : StartRefresh(w, t)
    PROVE  TokenInv'
<1>1. UNCHANGED <<t_rows, t_history>>
    BY DEF StartLogin, LoadUser, StartEndSessions, FindTokens, Abandon, StartRefresh
<1>2. PICK s \in TSteps, u \in Tokens \cup {NoToken}, n \in {0, version, t_read[w]},
           S \in {{}, Unrevoked} :
          /\ TGoto(w, s, u, n, S)
          /\ s \in {"rotate", "refresh"} => u # NoToken
          /\ u # NoToken => token[u] # "none"
    <2>1. CASE LoadUser(w)
        <3>1. t_token[w] \in Tokens \cup {NoToken} /\ t_token[w] # NoToken
              /\ token[t_token[w]] # "none"
            BY <2>1 DEF LoadUser, TokenInv, TokenTypeOK, ReadTokensExist
        <3> QED BY <2>1, <3>1 DEF LoadUser, TSteps
    <2>2. CASE ~LoadUser(w)
        BY <2>2, TokenAssumption
           DEF StartLogin, StartEndSessions, FindTokens, Abandon, StartRefresh, TDone, TSteps
    <2> QED BY <2>1, <2>2
<1> QED BY <1>1, <1>2, RequestInv

(* A token that expires is as unrevoked as before. *)
LEMMA ExpireInv ==
    ASSUME TokenInv, NEW t \in Tokens, Expire(t)
    PROVE  TokenInv'
<1> USE DEF TokenInv
<1>1. /\ token' \in [Tokens -> {"none", "live", "expired", "revoked"}]
      /\ \A u \in Tokens : token'[u] = "none" <=> token[u] = "none"
      /\ Unrevoked' = Unrevoked
      /\ UNCHANGED <<chain, issued, version, t_reqs, t_history>>
    BY DEF Expire, Unrevoked, TokenTypeOK
<1>2. TokenTypeOK'
    BY <1>1 DEF TokenTypeOK, t_reqs, t_history
<1>3. TokensOwned' /\ EndedOwned' /\ ReadTokensExist'
    BY <1>1 DEF TokensOwned, EndedOwned, ReadTokensExist, TokenTypeOK, t_reqs, t_history
<1>4. FoundAll' /\ VersionsBelow'
    BY <1>1 DEF FoundAll, VersionsBelow, t_reqs, t_history
<1>5. EndedForGood' /\ OneLivePerLogin'
    <2>1. \A u \in Tokens : Accepted(u)' <=> Accepted(u)
        BY <1>1 DEF Accepted
    <2>2. EndedForGood'
        BY <1>1, <2>1 DEF EndedForGood, t_history
    <2> QED BY <1>1, <2>2 DEF OneLivePerLogin, t_history, Unrevoked
<1> QED BY <1>2, <1>3, <1>4, <1>5

-----------------------------------------------------------------------------
(* Steps that issue a token *)

(* What issuing token t of login l does to the rows. *)
LEMMA IssueRows ==
    ASSUME TokenInv, NEW w \in TWorkers, NEW t \in NewToken, NEW l \in Logins, Issue(w, t, l)
    PROVE  /\ t \in Tokens /\ token[t] = "none"
           /\ token' \in [Tokens -> {"none", "live", "expired", "revoked"}]
           /\ chain' \in [Tokens -> Logins \cup {NoLogin}]
           /\ issued' \in [Tokens -> 0..MaxVersion]
           /\ token'[t] = "live" /\ chain'[t] = l /\ issued'[t] = t_read[w]
           /\ \A u \in Tokens : u # t =>
                 /\ token'[u] = IF u = t_token[w] THEN "revoked" ELSE token[u]
                 /\ chain'[u] = chain[u] /\ issued'[u] = issued[u]
<1>1. t \in Tokens /\ token[t] = "none"
    BY NewTokenUnused
<1>2. /\ token' \in [Tokens -> {"none", "live", "expired", "revoked"}]
      /\ token'[t] = "live"
      /\ \A u \in Tokens : u # t =>
            token'[u] = IF u = t_token[w] THEN "revoked" ELSE token[u]
    BY <1>1, TokenAssumption DEF Issue, Revoke, Rotated, TokenInv, TokenTypeOK
<1> QED BY <1>1, <1>2 DEF Issue, TokenInv, TokenTypeOK

LEMMA LoginInv ==
    ASSUME TokenInv, NEW w \in TWorkers, NEW t \in Tokens, NEW l \in Logins, Login(w, t, l)
    PROVE  TokenInv'
<1> USE DEF TokenInv
<1>0. /\ t \in NewToken /\ \A u \in Tokens : chain[u] # l
      /\ Issue(w, t, l) /\ TDone(w) /\ UNCHANGED <<version, t_history>>
    BY NewLoginUnused DEF Login
<1>1. \A u \in Tokens : u # t => /\ u \in Unrevoked' => u \in Unrevoked
                                 /\ token'[u] = "none" <=> token[u] = "none"
    BY <1>0, IssueRows, TokenAssumption DEF ReadTokensExist, Unrevoked
<1>2. TokenTypeOK'
    BY <1>0, IssueRows, TDoneOthers DEF TokenTypeOK, t_history, TSteps
<1>3. TokensOwned' /\ EndedOwned'
    BY <1>0, <1>1, IssueRows DEF TokensOwned, EndedOwned, t_history
<1>4. ReadTokensExist'
    <2>1. \A u \in Tokens : token[u] # "none" => token'[u] # "none"
        BY <1>0, <1>1, IssueRows
    <2>2. \A v \in TWorkers : v # w => /\ t_step'[v] = t_step[v] /\ t_token'[v] = t_token[v]
                                      /\ t_found'[v] = t_found[v]
        BY <1>0, TDoneOthers
    <2>3. t_step'[w] = "idle" /\ t_token'[w] = NoToken /\ t_found'[w] = {}
        BY <1>0, TDoneOthers
    <2> QED BY <2>1, <2>2, <2>3 DEF ReadTokensExist, TokenTypeOK
<1>5. FoundAll'
    BY <1>0, <1>1, IssueRows, TDoneOthers DEF FoundAll, ReadTokensExist, TokenTypeOK, t_history
<1>6. VersionsBelow'
    BY <1>0, IssueRows, TDoneOthers DEF VersionsBelow, TokenTypeOK, t_history
<1>7. l \notin ended
    BY <1>0 DEF EndedOwned
<1>8. EndedForGood'
    BY <1>0, <1>1, <1>7, IssueRows DEF EndedForGood, Accepted, t_history
<1>9. OneLivePerLogin'
    BY <1>0, <1>1, IssueRows DEF OneLivePerLogin, Unrevoked, t_history
<1> QED BY <1>2, <1>3, <1>4, <1>5, <1>6, <1>8, <1>9

(* The successor is live: the login was refreshed across the end of the     *)
(* sessions when the token given was found, or had been revoked.            *)
LEMMA RefreshInv ==
    ASSUME TokenInv, NEW w \in TWorkers, NEW t \in Tokens, Refresh(w, t)
    PROVE  TokenInv'
<1> USE DEF TokenInv
<1> DEFINE old == t_token[w]
           l   == chain[old]
<1>0. /\ t \in NewToken /\ Issue(w, t, l) /\ TDone(w) /\ UNCHANGED <<version, ended, rewound>>
      /\ old \in Tokens /\ token[old] # "none" /\ l \in Logins
    BY DEF Refresh, ReadTokensExist, TokensOwned, TokenTypeOK
<1>1. /\ crossed \subseteq crossed' /\ crossed' \subseteq Logins
      /\ old \in Unrevoked \/ l \in crossed'
      /\ \A v \in TWorkers : old \in t_found[v] => l \in crossed'
    BY <1>0 DEF Refresh, TokenTypeOK, Unrevoked
<1>2. /\ token'[old] = "revoked" /\ old \notin Unrevoked' /\ chain'[t] = l /\ chain'[old] = l /\ old # t
      /\ \A u \in Tokens : u # t => /\ u \in Unrevoked' => u \in Unrevoked
                                    /\ token'[u] = "none" <=> token[u] = "none"
                                    /\ chain'[u] = chain[u]
    BY <1>0, IssueRows DEF Unrevoked
<1> HIDE DEF old, l
<1>3. TokenTypeOK'
    BY <1>0, <1>1, IssueRows, TDoneOthers DEF TokenTypeOK, TSteps
<1>4. TokensOwned' /\ EndedOwned'
    BY <1>0, <1>2, IssueRows DEF TokensOwned, EndedOwned
<1>5. ReadTokensExist'
    <2>1. \A u \in Tokens : token[u] # "none" => token'[u] # "none"
        BY <1>0, <1>2, IssueRows
    <2>2. \A v \in TWorkers : v # w => /\ t_step'[v] = t_step[v] /\ t_token'[v] = t_token[v]
                                      /\ t_found'[v] = t_found[v]
        BY <1>0, TDoneOthers
    <2>3. t_step'[w] = "idle" /\ t_token'[w] = NoToken /\ t_found'[w] = {}
        BY <1>0, TDoneOthers
    <2> QED BY <2>1, <2>2, <2>3 DEF ReadTokensExist, TokenTypeOK
<1>6. FoundAll'
    <2> SUFFICES ASSUME NEW v \in TWorkers, t_step'[v] = "end", NEW u \in Tokens,
                        NEW x \in t_found'[v], u \in Unrevoked', chain'[u] = chain'[x]
                 PROVE  u \in t_found'[v] \/ chain'[u] \in crossed'
        BY DEF FoundAll
    <2>1. v # w /\ t_step[v] = "end" /\ t_found'[v] = t_found[v] /\ x \in Tokens /\ x # t
        BY <1>0, IssueRows, TDoneOthers DEF ReadTokensExist, TokenTypeOK
    <2>2. CASE u # t
        BY <1>1, <1>2, <2>1, <2>2 DEF FoundAll
    <2>3. CASE u = t
        BY <1>0, <1>1, <1>2, <2>1, <2>3 DEF FoundAll
    <2> QED BY <2>2, <2>3
<1>7. VersionsBelow'
    BY <1>0, IssueRows, TDoneOthers DEF VersionsBelow, TokenTypeOK
<1>8. l \in ended => l \in crossed'
    BY <1>0, <1>1 DEF EndedForGood, l
<1>9. EndedForGood'
    BY <1>0, <1>1, <1>2, <1>8, IssueRows DEF EndedForGood, Accepted
<1>10. OneLivePerLogin'
    BY <1>0, <1>1, <1>2 DEF OneLivePerLogin, Unrevoked
<1> QED BY <1>3, <1>4, <1>5, <1>6, <1>7, <1>9, <1>10

-----------------------------------------------------------------------------
(* Steps that revoke tokens *)

LEMMA RevokeRows ==
    ASSUME TokenTypeOK, NEW S, token' = Revoke(S)
    PROVE  /\ token' \in [Tokens -> {"none", "live", "expired", "revoked"}]
           /\ \A u \in Tokens : token'[u] = IF u \in S THEN "revoked" ELSE token[u]
           /\ Unrevoked' = Unrevoked \ S
BY DEF Revoke, TokenTypeOK, Unrevoked

LEMMA LogoutInv ==
    ASSUME TokenInv, NEW w \in TWorkers, NEW t \in Tokens, Logout(w, t)
    PROVE  TokenInv'
<1> USE DEF TokenInv
<1>1. /\ \A u \in Tokens : token'[u] = IF u \in {t} THEN "revoked" ELSE token[u]
      /\ token' \in [Tokens -> {"none", "live", "expired", "revoked"}]
      /\ Unrevoked' = Unrevoked \ {t}
      /\ token[t] = "live" /\ UNCHANGED <<chain, issued, version, t_reqs, t_history>>
    BY RevokeRows DEF Logout
<1>2. TokenTypeOK'
    BY <1>1 DEF TokenTypeOK, t_reqs, t_history
<1>3. TokensOwned' /\ EndedOwned' /\ ReadTokensExist'
    BY <1>1 DEF TokensOwned, EndedOwned, ReadTokensExist, TokenTypeOK, t_reqs, t_history
<1>4. FoundAll' /\ VersionsBelow'
    BY <1>1 DEF FoundAll, VersionsBelow, TokenTypeOK, t_reqs, t_history
<1>5. EndedForGood' /\ OneLivePerLogin'
    BY <1>1 DEF EndedForGood, Accepted, OneLivePerLogin, Unrevoked, t_history
<1> QED BY <1>2, <1>3, <1>4, <1>5

LEMMA RevokeReusedInv ==
    ASSUME TokenInv, NEW w \in TWorkers, RevokeReused(w)
    PROVE  TokenInv'
<1> USE DEF TokenInv
<1>1. /\ \A u \in Tokens : token'[u] = IF u \in t_found[w] THEN "revoked" ELSE token[u]
      /\ token' \in [Tokens -> {"none", "live", "expired", "revoked"}]
      /\ Unrevoked' = Unrevoked \ t_found[w]
      /\ TDone(w) /\ UNCHANGED <<chain, issued, version, t_history>>
    BY RevokeRows DEF RevokeReused, AllFound
<1>2. \A u \in Tokens : token'[u] = "none" <=> token[u] = "none"
    BY <1>1 DEF ReadTokensExist
<1>3. TokenTypeOK'
    BY <1>1, TDoneOthers DEF TokenTypeOK, t_history, TSteps
<1>4. TokensOwned' /\ EndedOwned' /\ ReadTokensExist'
    BY <1>1, <1>2, TDoneOthers DEF TokensOwned, EndedOwned, ReadTokensExist, TokenTypeOK, t_history
<1>5. FoundAll' /\ VersionsBelow'
    BY <1>1, TDoneOthers DEF FoundAll, VersionsBelow, TokenTypeOK, t_history
<1>6. EndedForGood' /\ OneLivePerLogin'
    BY <1>1, <1>2 DEF EndedForGood, Accepted, OneLivePerLogin, Unrevoked, t_history
<1> QED BY <1>3, <1>4, <1>5, <1>6

(* Every live token of the logins found is revoked or of a login refreshed   *)
(* meanwhile, and no token carries the new token_version.                   *)
LEMMA EndSessionsInv ==
    ASSUME TokenInv, NEW w \in TWorkers, EndSessions(w)
    PROVE  TokenInv'
<1> USE DEF TokenInv
<1>1. /\ \A u \in Tokens : token'[u] = IF u \in t_found[w] THEN "revoked" ELSE token[u]
      /\ token' \in [Tokens -> {"none", "live", "expired", "revoked"}]
      /\ Unrevoked' = Unrevoked \ t_found[w]
      /\ TDone(w) /\ UNCHANGED <<chain, issued, crossed>>
      /\ version' = t_read[w] + 1 /\ version' <= MaxVersion
      /\ ended' = ended \cup LoginsOf(t_found[w])
      /\ t_step[w] = "end"
    BY RevokeRows DEF EndSessions, AllFound, NextVersion
<1>2. /\ rewound' \in BOOLEAN
      /\ ~rewound' => ~rewound /\ t_read[w] = version
    BY DEF EndSessions
<1>3. \A u \in Tokens : token'[u] = "none" <=> token[u] = "none"
    BY <1>1 DEF ReadTokensExist
<1>4. \A l \in LoginsOf(t_found[w]) : \E u \in t_found[w] : u \in Tokens /\ chain[u] = l
    BY DEF LoginsOf, TokenTypeOK
<1>5. LoginsOf(t_found[w]) \subseteq Logins
    BY <1>4 DEF TokensOwned, ReadTokensExist
<1>6. TokenTypeOK'
    <2>1. version' \in 1..MaxVersion
        BY <1>1, TokenAssumption DEF TokenTypeOK
    <2>2. ended' \subseteq Logins
        BY <1>1, <1>5 DEF TokenTypeOK
    <2> QED BY <1>1, <1>2, <2>1, <2>2, TDoneOthers DEF TokenTypeOK, TSteps
<1>7. TokensOwned' /\ ReadTokensExist'
    BY <1>1, <1>3, TDoneOthers DEF TokensOwned, ReadTokensExist, TokenTypeOK
<1>8. EndedOwned'
    BY <1>1, <1>3, <1>4 DEF EndedOwned, ReadTokensExist
<1>9. FoundAll'
    BY <1>1, TDoneOthers DEF FoundAll, TokenTypeOK
<1>10. VersionsBelow' /\ (~rewound' => \A t \in Tokens : issued'[t] # version')
    BY <1>1, <1>2, TDoneOthers DEF VersionsBelow, TokenTypeOK
<1>11. EndedForGood'
    <2> SUFFICES ASSUME NEW t \in Tokens, chain'[t] \in ended'
                 PROVE  /\ t \in Unrevoked' => chain'[t] \in crossed'
                        /\ Accepted(t)' => chain'[t] \in crossed' \/ rewound'
        BY DEF EndedForGood
    <2>1. t \in Unrevoked' => chain'[t] \in crossed'
        BY <1>1, <1>4 DEF EndedForGood, FoundAll
    <2>2. Accepted(t)' => rewound'
        BY <1>10 DEF Accepted
    <2> QED BY <2>1, <2>2
<1>12. OneLivePerLogin'
    BY <1>1 DEF OneLivePerLogin, Unrevoked
<1> QED BY <1>6, <1>7, <1>8, <1>9, <1>10, <1>11, <1>12

-----------------------------------------------------------------------------

LEMMA TokenNextInv == TokenInv /\ [TokenNext]_tokenVars => TokenInv'
<1> SUFFICES ASSUME TokenInv, [TokenNext]_tokenVars PROVE TokenInv'
    OBVIOUS
<1>1. ASSUME UNCHANGED tokenVars PROVE TokenInv'
    <2> USE <1>1 DEF TokenInv, tokenVars, t_rows, t_reqs, t_history
    <2>1. TokenTypeOK'
        BY DEF TokenTypeOK
    <2>2. TokensOwned' /\ ReadTokensExist' /\ EndedOwned' /\ FoundAll' /\ VersionsBelow'
        BY DEF TokensOwned, ReadTokensExist, EndedOwned, FoundAll, VersionsBelow, Unrevoked
    <2>3. EndedForGood' /\ OneLivePerLogin'
        BY DEF EndedForGood, Accepted, OneLivePerLogin, Unrevoked
    <2> QED BY <2>1, <2>2, <2>3
<1> QED BY <1>1, StartInv, LoginInv, RefreshInv, LogoutInv, EndSessionsInv, RevokeReusedInv,
           ExpireInv DEF TokenNext, TokenRequest

(* Logins that were ended stay ended, rotation leaves one token unrevoked of a *)
(* login, but for the overlaps that the history variables name.             *)
THEOREM SessionsSafe == TokenSpec => [](TokenTypeOK /\ EndedForGood /\ OneLivePerLogin)
<1>1. TokenInv => TokenTypeOK /\ EndedForGood /\ OneLivePerLogin
    BY DEF TokenInv
<1> QED BY <1>1, TokenInitInv, TokenNextInv, PTL DEF TokenSpec

-----------------------------------------------------------------------------
(* Together *)

LEMMA PartsInit ==
    ASSUME ServicesInit
    PROVE  /\ GrantInit /\ TokenInit /\ AttachmentInit /\ ScheduleInit
           /\ PricingInit /\ PlanningInit /\ UseInit /\ ProfileInit /\ AddressInit
           /\ part \in Parts
BY DEF ServicesInit

(* A step of the services is a step or a stutter of each of them. *)
LEMMA PartsNext ==
    ASSUME [ServicesNext]_servicesVars
    PROVE  /\ [GrantNext]_grantVars /\ [TokenNext]_tokenVars
           /\ [AttachmentNext]_attachmentVars /\ [ScheduleNext]_scheduleVars
           /\ [PricingNext]_pricingVars /\ [PlanningNext]_planningVars
           /\ [UseNext]_useVars
           /\ [ProfileNext]_profileVars /\ [AddressNext]_addressVars
           /\ part' = part
<1>1. CASE GrantPart
    BY <1>1 DEF GrantPart
<1>2. CASE TokenPart
    BY <1>2 DEF TokenPart
<1>3. CASE AttachmentPart
    BY <1>3 DEF AttachmentPart
<1>4. CASE SchedulePart
    BY <1>4 DEF SchedulePart
<1>5. CASE PricingPart
    BY <1>5 DEF PricingPart
<1>6. CASE PlanningPart
    BY <1>6 DEF PlanningPart
<1>7. CASE ProfilePart
    BY <1>7 DEF ProfilePart
<1>8. CASE AddressPart
    BY <1>8 DEF AddressPart
<1>9. CASE ConsumptionPart
    BY <1>9 DEF ConsumptionPart
<1>10. CASE UNCHANGED servicesVars
    BY <1>10 DEF servicesVars
<1> QED BY <1>1, <1>2, <1>3, <1>4, <1>5, <1>6, <1>7, <1>8, <1>9, <1>10 DEF ServicesNext

PartsInv ==
    /\ part \in Parts
    /\ GrantInv /\ TokenInv /\ AttachmentInv
    /\ ScheduleInv /\ PricingInv /\ PlanningInv /\ UseInv /\ ProfileInv /\ AddressInv

(* What each service promises it still promises beside the others: they     *)
(* leave its rows alone.                                                    *)
THEOREM ServicesSafe ==
    ServicesSpec => [](/\ ServicesTypeOK
                       /\ DiscountsSettled /\ HeldActive
                       /\ EndedForGood /\ OneLivePerLogin
                       /\ FilesBounded /\ FileLossAccounted
                       /\ PromisedBatch /\ NeverOvertaken
                       /\ BillAddsUp /\ AmountsAsAnew
                       /\ StatusKept /\ CoveredByPlan
                       /\ AccountUsable /\ DefaultKept)
<1>1. ServicesInit => PartsInv
    BY PartsInit, GrantInitInv, TokenInitInv, AttachmentInitInv, ScheduleInitInv, PricingInitInv,
       PlanningInitInv, UseInitInv, ProfileInitInv, AddressInitInv DEF PartsInv
<1>2. PartsInv /\ [ServicesNext]_servicesVars => PartsInv'
    BY PartsNext, GrantNextInv, TokenNextInv, AttachmentNextInv, ScheduleNextInv, PricingNextInv,
       PlanningNextInv, UseNextInv, ProfileNextInv, AddressNextInv DEF PartsInv
<1>3. PartsInv => /\ ServicesTypeOK
                  /\ DiscountsSettled /\ HeldActive
                  /\ EndedForGood /\ OneLivePerLogin
                  /\ FilesBounded /\ FileLossAccounted
                  /\ PromisedBatch /\ NeverOvertaken
                  /\ BillAddsUp /\ AmountsAsAnew
                  /\ StatusKept /\ CoveredByPlan
                  /\ AccountUsable /\ DefaultKept
    <2>1. GrantInv => GrantTypeOK /\ DiscountsSettled /\ HeldActive
        BY DEF GrantInv, HeldLocked, HeldActive
    <2>2. TokenInv => TokenTypeOK /\ EndedForGood /\ OneLivePerLogin
        BY DEF TokenInv
    <2>3. AttachmentInv => AttachmentTypeOK /\ FilesBounded /\ FileLossAccounted
        BY AttachmentInvSafe DEF AttachmentInv
    <2>4. ScheduleInv => ScheduleTypeOK /\ PromisedBatch /\ NeverOvertaken
        BY ScheduleInvSafe DEF ScheduleInv
    <2>5. PricingInv => PricingTypeOK /\ BillAddsUp /\ AmountsAsAnew
        BY DEF PricingInv
    <2>6. PlanningInv => PlanningTypeOK /\ StatusKept
        BY DEF PlanningInv
    <2>7. ProfileInv => ProfileTypeOK /\ AccountUsable
        BY ProfileInvSafe DEF ProfileInv
    <2>8. AddressInv => AddressTypeOK /\ DefaultKept
        BY AddressInvSafe DEF AddressInv
    <2>9. UseInv => UseTypeOK /\ CoveredByPlan
        BY UseCovered DEF UseInv
    <2> QED BY <2>1, <2>2, <2>3, <2>4, <2>5, <2>6, <2>7, <2>8, <2>9 DEF PartsInv, ServicesTypeOK
<1> QED BY <1>1, <1>2, <1>3, PTL DEF ServicesSpec
=============================================================================
