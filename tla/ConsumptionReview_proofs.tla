------------------------ MODULE ConsumptionReview_proofs ------------------------
(***************************************************************************)
(* What holds of consumption reviews for every set of orders, reviews,     *)
(* lots and overlapping requests, up to what an approval takes off which   *)
(* lots.                                                                   *)
(***************************************************************************)
EXTENDS ConsumptionReview, InventoryLedger_proofs, SumFacts

Working == {"editing", "dismissing", "approving", "allocated"}

ReviewShape ==
    /\ consumed \in [Orders -> BOOLEAN]
    /\ pstatus \in [Proposals -> {"unused", "pending", "approved", "dismissed", "deleted"}]
    /\ links \in [Proposals -> SUBSET Orders]
    /\ step \in [Workers -> Steps]
    /\ held \in [Workers -> SUBSET Orders]
    /\ held_proposal \in [Workers -> Proposals \cup {NoProposal}]

(* A request works on a review that was there when it was read, and has    *)
(* read every order the review still lists: after its insert a review only *)
(* loses links.                                                            *)
HeldCurrent ==
    \A w \in Workers :
        /\ held_proposal[w] \in Proposals => pstatus[held_proposal[w]] # "unused"
        /\ step[w] \in Working =>
              held_proposal[w] \in Proposals /\ links[held_proposal[w]] \subseteq held[w]

ReviewInv ==
    /\ ReviewShape
    /\ HeldCurrent
    /\ LinksConsistent
    /\ ApprovedConsumed

-----------------------------------------------------------------------------

LEMMA ReviewInitInv == ReviewInit => ReviewInv
<1> SUFFICES ASSUME ReviewInit PROVE ReviewInv
    OBVIOUS
<1> USE ReviewAssumption DEF ReviewInit
<1>1. ReviewShape
    BY DEF ReviewShape, Steps
<1>2. HeldCurrent /\ LinksConsistent /\ ApprovedConsumed
    BY DEF HeldCurrent, Working, LinksConsistent, ApprovedConsumed
<1> QED BY <1>1, <1>2 DEF ReviewInv

(* Steps that leave reviews and their links alone and consume nothing.     *)
LEMMA ReviewsUntouched ==
    ASSUME ReviewInv, UNCHANGED <<consumed, pstatus, links>>, ReviewShape', HeldCurrent'
    PROVE  ReviewInv'
BY DEF ReviewInv, LinksConsistent, ApprovedConsumed

(* A request that moves on with what it has read, or reads anew. *)
LEMMA GotoInv ==
    ASSUME ReviewInv, UNCHANGED <<consumed, pstatus, links>>,
           NEW w \in Workers, NEW s \in Steps, NEW d, NEW S \in SUBSET Orders,
           NEW p \in Proposals \cup {NoProposal}, NEW n, Goto(w, s, d, S, p, n),
           p \in Proposals => pstatus[p] # "unused",
           s \in Working => p \in Proposals /\ links[p] \subseteq S
    PROVE  ReviewInv'
<1>1. ReviewShape'
    BY DEF ReviewInv, ReviewShape, Goto
<1>2. HeldCurrent'
    BY DEF ReviewInv, ReviewShape, HeldCurrent, Goto
<1> QED BY <1>1, <1>2, ReviewsUntouched

(* A worker that is done holds nothing. *)
LEMMA DoneHolds ==
    ASSUME ReviewShape, NEW w \in Workers, Done(w)
    PROVE  /\ step' = [step EXCEPT ![w] = "idle"]
           /\ held' = [held EXCEPT ![w] = {}]
           /\ held_proposal' = [held_proposal EXCEPT ![w] = NoProposal]
BY DEF Done, Goto

LEMMA DoneInv ==
    ASSUME ReviewInv, UNCHANGED <<consumed, pstatus, links>>, NEW w \in Workers, Done(w)
    PROVE  ReviewInv'
BY GotoInv, ReviewAssumption DEF Done, Steps, Working

-----------------------------------------------------------------------------
(* The requests *)

LEMMA OrderRequestInv ==
    ASSUME ReviewInv, NEW w \in Workers, OrderRequest(w)
    PROVE  ReviewInv'
<1>1. ASSUME NEW o \in Orders, NEW s \in {"placed", "delivered"}, NEW d \in Dates,
             CreateOrder(w, o, s, d)
      PROVE  ReviewInv'
    <2>1. UNCHANGED <<consumed, pstatus, links, reqVars>>
        BY <1>1 DEF CreateOrder, proposalVars
    <2> QED BY <2>1, ReviewsUntouched DEF ReviewInv, ReviewShape, HeldCurrent, reqVars
<1>2. ASSUME NEW o \in Orders, NEW s \in {"placed", "delivered"}, NEW d \in Dates,
             UpdateOrder(w, o, s, d)
      PROVE  ReviewInv'
    <2>1. UNCHANGED <<consumed, pstatus, links>>
        BY <1>2 DEF UpdateOrder, proposalVars
    <2>2. CASE Goto(w, "refresh", d, {}, NoProposal, 0)
        BY <2>1, <2>2, GotoInv, ReviewAssumption DEF Steps, Working
    <2>3. CASE UNCHANGED reqVars
        BY <2>1, <2>3, ReviewsUntouched DEF ReviewInv, ReviewShape, HeldCurrent, reqVars
    <2> QED BY <1>2, <2>2, <2>3 DEF UpdateOrder
<1>3. ASSUME NEW o \in Orders, DeleteOrder(w, o)
      PROVE  ReviewInv'
    <2>1. UNCHANGED <<consumed, pstatus, links, reqVars>>
        BY <1>3 DEF DeleteOrder, proposalVars
    <2> QED BY <2>1, ReviewsUntouched DEF ReviewInv, ReviewShape, HeldCurrent, reqVars
<1> QED BY <1>1, <1>2, <1>3 DEF OrderRequest

LEMMA RefreshInv ==
    ASSUME ReviewInv, NEW w \in Workers, Refresh(w) \/ FindEmptied(w)
    PROVE  ReviewInv'
<1>1. CASE Refresh(w)
    <2> DEFINE S == {o \in DeliveredUnconsumed : odate[o] = day[w]}
               s == IF S = {} THEN "emptied" ELSE "resolved"
    <2>1. Goto(w, s, day[w], S, NoProposal, 0) /\ UNCHANGED <<consumed, pstatus, links>>
        BY <1>1 DEF Refresh, dataVars, orderVars, proposalVars
    <2>2. S \in SUBSET Orders /\ s \in Steps /\ s \notin Working
        BY DEF DeliveredUnconsumed, Steps, Working
    <2> HIDE DEF S, s
    <2> QED BY <2>1, <2>2, GotoInv, ReviewAssumption
<1>2. CASE FindEmptied(w)
    <2>1. UNCHANGED <<consumed, pstatus, links>>
        BY <1>2 DEF FindEmptied, dataVars, orderVars, proposalVars
    <2>2. CASE Done(w)
        BY <2>1, <2>2, DoneInv
    <2>3. ASSUME NEW p \in PendingFor(day[w]), Goto(w, "dropping", day[w], {}, p, 0)
          PROVE  ReviewInv'
        <3>1. p \in Proposals /\ pstatus[p] # "unused"
            BY <2>3 DEF PendingFor
        <3>2. "dropping" \in Steps /\ "dropping" \notin Working /\ {} \in SUBSET Orders
            BY DEF Steps, Working
        <3> QED BY <2>1, <2>3, <3>1, <3>2, GotoInv
    <2> QED BY <1>2, <2>2, <2>3 DEF FindEmptied
<1> QED BY <1>1, <1>2

(* Whatever became of the review that is dropped, it lists no order then.  *)
LEMMA CommitDropInv ==
    ASSUME ReviewInv, NEW w \in Workers, CommitDrop(w)
    PROVE  ReviewInv'
<1> DEFINE v == held_proposal[w]
<1>1. /\ v \in Proposals \cup {NoProposal}
      /\ pstatus' = [pstatus EXCEPT ![v] = "deleted"]
      /\ links' = [q \in Proposals |-> IF q = v THEN {} ELSE links[q]]
      /\ Done(w) /\ UNCHANGED consumed
    BY DEF CommitDrop, LinksWithout, ReviewInv, ReviewShape
<1> HIDE DEF v
<1>2. ReviewShape'
    BY <1>1, DoneHolds DEF ReviewInv, ReviewShape, Steps
<1>3. HeldCurrent'
    BY <1>1, DoneHolds, ReviewAssumption DEF ReviewInv, ReviewShape, HeldCurrent, Working
<1>4. LinksConsistent' /\ ApprovedConsumed'
    BY <1>1 DEF ReviewInv, ReviewShape, LinksConsistent, ApprovedConsumed
<1> QED BY <1>2, <1>3, <1>4 DEF ReviewInv

(* The new review is unused until now, so no request holds it, and its     *)
(* orders are linked to no review but the one that is replaced.            *)
LEMMA CommitGenerateInv ==
    ASSUME ReviewInv, NEW w \in Workers, NEW p \in Proposals, CommitGenerate(w, p)
    PROVE  ReviewInv'
<1> DEFINE v == held_proposal[w]
           S == held[w]
<1>1. /\ pstatus[p] = "unused" /\ p # v /\ S \in SUBSET Orders
      /\ pstatus' = [q \in Proposals |->
            IF q = v THEN "deleted" ELSE IF q = p THEN "pending" ELSE pstatus[q]]
      /\ \A q \in Proposals : q # v => links[q] \cap S = {}
      /\ Done(w) /\ UNCHANGED consumed
    BY DEF CommitGenerate, LinksWithout, ReviewInv, ReviewShape, HeldCurrent
<1>2. links' = [q \in Proposals |-> IF q = p THEN S ELSE IF q = v THEN {} ELSE links[q]]
    BY <1>1 DEF CommitGenerate, LinksWithout
<1>3. links[p] = {}
    BY <1>1 DEF ReviewInv, LinksConsistent
<1> HIDE DEF v, S
<1>4. ReviewShape'
    BY <1>1, <1>2, DoneHolds DEF ReviewInv, ReviewShape, Steps
<1>5. HeldCurrent'
    <2> SUFFICES ASSUME NEW u \in Workers
                 PROVE  /\ held_proposal'[u] \in Proposals => pstatus'[held_proposal'[u]] # "unused"
                        /\ step'[u] \in Working =>
                              /\ held_proposal'[u] \in Proposals
                              /\ links'[held_proposal'[u]] \subseteq held'[u]
        BY DEF HeldCurrent
    <2>1. CASE u = w
        BY <1>1, <2>1, DoneHolds, ReviewAssumption DEF ReviewInv, ReviewShape, Working
    <2>2. CASE u # w
        <3>1. step'[u] = step[u] /\ held'[u] = held[u] /\ held_proposal'[u] = held_proposal[u]
            BY <1>1, <2>2, DoneHolds DEF ReviewInv, ReviewShape
        <3>2. held_proposal[u] # p
            BY <1>1 DEF ReviewInv, HeldCurrent
        <3> QED BY <1>1, <1>2, <3>1, <3>2 DEF ReviewInv, HeldCurrent
    <2> QED BY <2>1, <2>2
<1>6. LinksConsistent' /\ ApprovedConsumed'
    BY <1>1, <1>2, <1>3 DEF ReviewInv, ReviewShape, LinksConsistent, ApprovedConsumed
<1> QED BY <1>4, <1>5, <1>6 DEF ReviewInv

LEMMA BuildReviewInv ==
    ASSUME ReviewInv, NEW w \in Workers, BuildReview(w)
    PROVE  ReviewInv'
<1>1. ASSUME NEW d \in Dates, NEW T \in SUBSET Orders, Generate(w, d, T)
      PROVE  ReviewInv'
    <2> DEFINE S == {o \in DeliveredUnconsumed : o \in T}
    <2>1. S \in SUBSET Orders /\ Goto(w, "resolved", d, S, NoProposal, 0)
        BY <1>1 DEF Generate, DeliveredUnconsumed
    <2>2. UNCHANGED <<consumed, pstatus, links>>
        BY <1>1 DEF Generate, dataVars, orderVars, proposalVars
    <2> HIDE DEF S
    <2> QED BY <2>1, <2>2, GotoInv, ReviewAssumption DEF Steps, Working
<1>2. CASE CheckBlocked(w)
    <2>1. /\ UNCHANGED <<consumed, pstatus, links, held, held_proposal>>
          /\ \/ step' = [step EXCEPT ![w] = "refused"]
             \/ step' = [step EXCEPT ![w] = "unblocked"]
        BY <1>2 DEF CheckBlocked, dataVars, orderVars, proposalVars
    <2>2. ReviewShape' /\ HeldCurrent'
        BY <2>1 DEF ReviewInv, ReviewShape, HeldCurrent, Steps, Working
    <2> QED BY <2>1, <2>2, ReviewsUntouched
<1>3. CASE FindPending(w)
    <2>1. PICK p \in IF PendingFor(day[w]) = {} THEN {NoProposal} ELSE PendingFor(day[w]) :
              Goto(w, "replacing", day[w], held[w], p, 0)
        BY <1>3 DEF FindPending
    <2>2. /\ UNCHANGED <<consumed, pstatus, links>> /\ held[w] \in SUBSET Orders
          /\ p \in Proposals \cup {NoProposal}
          /\ p \in Proposals => pstatus[p] # "unused"
        BY <1>3, ReviewAssumption
           DEF FindPending, PendingFor, dataVars, orderVars, proposalVars, ReviewInv, ReviewShape
    <2> QED BY <2>1, <2>2, GotoInv DEF Steps, Working
<1> QED BY <1>1, <1>2, <1>3, RefreshInv, CommitDropInv, CommitGenerateInv DEF BuildReview

(* dismiss removes the links it has read, which are all there are. *)
LEMMA CommitDismissInv ==
    ASSUME ReviewInv, NEW w \in Workers, CommitDismiss(w)
    PROVE  ReviewInv'
<1> DEFINE p == held_proposal[w]
<1>1. p \in Proposals /\ links[p] \subseteq held[w]
    BY DEF CommitDismiss, ReviewInv, HeldCurrent, Working
<1>2. /\ pstatus' = [pstatus EXCEPT ![p] = "dismissed"]
      /\ links' = [links EXCEPT ![p] = {}]
      /\ Done(w) /\ UNCHANGED consumed
    BY <1>1 DEF CommitDismiss, Close, orderVars, ReviewInv, ReviewShape
<1> HIDE DEF p
<1>3. ReviewShape'
    BY <1>2, DoneHolds DEF ReviewInv, ReviewShape, Steps
<1>4. HeldCurrent'
    BY <1>1, <1>2, DoneHolds, ReviewAssumption
       DEF ReviewInv, ReviewShape, HeldCurrent, Working
<1>5. LinksConsistent' /\ ApprovedConsumed'
    BY <1>1, <1>2 DEF ReviewInv, ReviewShape, LinksConsistent, ApprovedConsumed
<1> QED BY <1>3, <1>4, <1>5 DEF ReviewInv

(* approve marks the orders it has read, which are all that are linked. *)
LEMMA CommitApproveInv ==
    ASSUME ReviewInv, NEW w \in Workers, CommitApprove(w)
    PROVE  ReviewInv'
<1> DEFINE p == held_proposal[w]
           H == held[w]
<1>1. p \in Proposals /\ links[p] \subseteq H
    BY DEF CommitApprove, ReviewInv, HeldCurrent, Working
<1>2. /\ pstatus' = [pstatus EXCEPT ![p] = "approved"]
      /\ consumed' = [o \in Orders |-> consumed[o] \/ o \in H]
      /\ Done(w) /\ UNCHANGED links /\ pstatus[p] # "unused"
    BY DEF CommitApprove, Close, ProposalExists
<1>0. links[p] # {} => pstatus[p] \in {"pending", "approved"}
    BY <1>1 DEF ReviewInv, LinksConsistent
<1> HIDE DEF p, H
<1>3. ReviewShape'
    <2>1. consumed' \in [Orders -> BOOLEAN]
        BY <1>2, Zenon
    <2> QED BY <1>2, <2>1, DoneHolds DEF ReviewInv, ReviewShape, Steps
<1>4. HeldCurrent'
    BY <1>1, <1>2, DoneHolds, ReviewAssumption
       DEF ReviewInv, ReviewShape, HeldCurrent, Working
<1>5. LinksConsistent'
    BY <1>1, <1>2 DEF ReviewInv, ReviewShape, LinksConsistent
<1>6. ApprovedConsumed'
    <2>1. \A q \in Proposals : q # p => pstatus'[q] = pstatus[q]
        BY <1>2 DEF ReviewInv, ReviewShape
    <2>2. \A q \in Proposals : links[q] \subseteq Orders
        BY DEF ReviewInv, ReviewShape
    <2> QED BY <1>1, <1>2, <2>1, <2>2, Zenon DEF ReviewInv, ApprovedConsumed
<1> QED BY <1>3, <1>4, <1>5, <1>6 DEF ReviewInv

LEMMA WorkReviewInv ==
    ASSUME ReviewInv, NEW w \in Workers, WorkReview(w)
    PROVE  ReviewInv'
<1>1. ASSUME NEW s \in {"editing", "dismissing", "approving"}, NEW p \in Proposals,
             Load(w, s, p)
      PROVE  ReviewInv'
    <2>1. /\ UNCHANGED <<consumed, pstatus, links>> /\ pstatus[p] # "unused"
          /\ links[p] \in SUBSET Orders /\ Goto(w, s, pdate[p], links[p], p, need[p])
        BY <1>1 DEF Load, Open, dataVars, orderVars, proposalVars, ReviewInv, ReviewShape
    <2> QED BY <2>1, GotoInv DEF Steps
<1>2. ASSUME NEW n \in Quantities, CommitEdit(w, n)
      PROVE  ReviewInv'
    BY <1>2, DoneInv DEF CommitEdit, orderVars
<1>3. ASSUME NEW b \in [Lots -> -MaxQty .. 0], Allocate(w, b)
      PROVE  ReviewInv'
    <2>1. /\ UNCHANGED <<consumed, pstatus, links, held, held_proposal>>
          /\ step[w] = "approving" /\ step' = [step EXCEPT ![w] = "allocated"]
        BY <1>3 DEF Allocate, dataVars, orderVars, proposalVars
    <2>2. ReviewShape' /\ HeldCurrent'
        BY <2>1 DEF ReviewInv, ReviewShape, HeldCurrent, Steps, Working
    <2> QED BY <2>1, <2>2, ReviewsUntouched
<1> QED BY <1>1, <1>2, <1>3, CommitDismissInv, CommitApproveInv DEF WorkReview

LEMMA ReviewNextInv == ReviewInv /\ [ReviewNext]_reviewVars => ReviewInv'
<1> SUFFICES ASSUME ReviewInv, [ReviewNext]_reviewVars PROVE ReviewInv'
    OBVIOUS
<1>1. ASSUME NEW w \in Workers, AbandonReview(w)
      PROVE  ReviewInv'
    BY <1>1, DoneInv DEF AbandonReview, dataVars, orderVars, proposalVars
<1>2. CASE UNCHANGED <<dataVars, reqVars>>
    BY <1>2, ReviewsUntouched
       DEF dataVars, orderVars, proposalVars, reqVars, ReviewInv, ReviewShape, HeldCurrent
<1>3. ASSUME NEW w \in Workers, ReviewRequest(w)
      PROVE  ReviewInv'
    BY <1>1, <1>3, OrderRequestInv, BuildReviewInv, WorkReviewInv DEF ReviewRequest
<1>4. ASSUME NEW w \in Workers, ManualUnlessReviewing(w)
      PROVE  ReviewInv'
    BY <1>2, <1>4 DEF ManualUnlessReviewing
<1> QED BY <1>2, <1>3, <1>4 DEF ReviewNext, reviewVars

(* However refresh, generate, update, approve and dismiss overlap, an      *)
(* order is linked to one review at most, a closed review has let its      *)
(* orders go (dismiss removes every link there is), and an approved review *)
(* has consumed all it lists.                                              *)
THEOREM ReviewSafe == ReviewSpec => [](LinksConsistent /\ ApprovedConsumed)
<1>1. ReviewInv => LinksConsistent /\ ApprovedConsumed
    BY DEF ReviewInv
<1> QED BY <1>1, ReviewInitInv, ReviewNextInv, PTL DEF ReviewSpec

-----------------------------------------------------------------------------
(* The ledger below the reviews *)

LEMMA ReviewLedgerNext ==
    ASSUME LedgerInv, [ReviewNext]_reviewVars
    PROVE  LedgerInv'
<1>1. CASE UNCHANGED ledgerVars
    BY <1>1, LedgerNextInv
<1>2. ASSUME NEW w \in Workers, OrderRequest(w) \/ BuildReview(w)
      PROVE  LedgerInv'
    <2>1. UNCHANGED ledgerVars
        BY <1>2 DEF OrderRequest, CreateOrder, UpdateOrder, DeleteOrder, BuildReview, Refresh,
                    FindEmptied, CommitDrop, Generate, CheckBlocked, FindPending,
                    CommitGenerate
    <2> QED BY <1>1, <2>1
<1>3. ASSUME NEW w \in Workers, NEW b \in [Lots -> -MaxQty .. 0], Allocate(w, b)
      PROVE  LedgerInv'
    <2>1. b \in [Lots -> Int]
        BY LedgerAssumption
    <2> QED BY <1>3, <2>1, BufferInv DEF Allocate
<1>4. ASSUME NEW w \in Workers, WorkReview(w)
      PROVE  LedgerInv'
    <2>1. ASSUME NEW s \in {"editing", "dismissing", "approving"}, NEW p \in Proposals,
                 Load(w, s, p)
          PROVE  LedgerInv'
        BY <1>1, <2>1 DEF Load
    <2>2. ASSUME NEW n \in Quantities, CommitEdit(w, n)
          PROVE  LedgerInv'
        BY <1>1, <2>2 DEF CommitEdit
    <2>3. CASE CommitDismiss(w)
        BY <1>1, <2>3 DEF CommitDismiss
    <2>4. CASE CommitApprove(w)
        BY <2>4, PostMovementsInv DEF CommitApprove
    <2> QED BY <1>3, <1>4, <2>1, <2>2, <2>3, <2>4 DEF WorkReview
<1>5. ASSUME NEW w \in Workers, AbandonReview(w)
      PROVE  LedgerInv'
    BY <1>1, <1>5, RollbackInv DEF AbandonReview
<1>6. ASSUME NEW w \in Workers, ManualUnlessReviewing(w)
      PROVE  LedgerInv'
    BY <1>6, LedgerNextInv DEF ManualUnlessReviewing, LedgerNext
<1>7. CASE UNCHANGED reviewVars
    BY <1>1, <1>7 DEF reviewVars
<1> QED BY <1>2, <1>4, <1>5, <1>6, <1>7 DEF ReviewNext, ReviewRequest

(* Approvals that overlap each other and manual requests keep the ledger   *)
(* as exact as manual requests do, whatever quantity they allocate.        *)
THEOREM ReviewsKeepLedger ==
    ReviewSpec => [](BalancedUnlessOverwritten /\ OpenIffStocked)
<1>1. ReviewInit => LedgerInv
    BY LedgerInitInv DEF ReviewInit
<1>2. LedgerInv => BalancedUnlessOverwritten /\ OpenIffStocked
    BY DEF LedgerInv
<1> QED BY <1>1, <1>2, ReviewLedgerNext, PTL DEF ReviewSpec

-----------------------------------------------------------------------------
(* Types *)

(* The part of ReviewTypeOK about the requests in flight. *)
RequestTypes ==
    /\ step \in [Workers -> Steps]
    /\ day \in [Workers -> Dates \cup {NoDate}]
    /\ held \in [Workers -> SUBSET Orders]
    /\ held_proposal \in [Workers -> Proposals \cup {NoProposal}]
    /\ held_need \in [Workers -> Nat]
    /\ \A w \in Workers : step[w] = "idle" => held[w] = {} /\ held_proposal[w] = NoProposal

(* The part about the rows. *)
DataTypes ==
    /\ ostatus \in [Orders -> {"unused", "placed", "delivered", "deleted"}]
    /\ odate \in [Orders -> Dates \cup {NoDate}]
    /\ consumed \in [Orders -> BOOLEAN]
    /\ consumedBy \in [Orders -> Proposals \cup {NoProposal}]
    /\ pstatus \in [Proposals -> {"unused", "pending", "approved", "dismissed", "deleted"}]
    /\ pdate \in [Proposals -> Dates \cup {NoDate}]
    /\ links \in [Proposals -> SUBSET Orders]
    /\ need \in [Proposals -> Nat]
    /\ applied \in [Orders -> Nat]

LEMMA TypesSplit == ReviewTypeOK <=> RequestTypes /\ DataTypes
BY Zenon DEF ReviewTypeOK, RequestTypes, DataTypes

LEMMA TypesJoin ==
    ASSUME RequestTypes', DataTypes'
    PROVE  ReviewTypeOK'
BY Zenon DEF ReviewTypeOK, RequestTypes, DataTypes

LEMMA ReviewInitTypes == ReviewInit => ReviewTypeOK
<1> SUFFICES ASSUME ReviewInit PROVE RequestTypes /\ DataTypes
    BY TypesSplit
<1> USE DEF ReviewInit
<1>1. RequestTypes
    BY DEF RequestTypes, Steps
<1>2. DataTypes
    <2>1. consumed \in [Orders -> BOOLEAN]
        OBVIOUS
    <2> QED BY <2>1 DEF DataTypes
<1> QED BY <1>1, <1>2

LEMMA GotoTypes ==
    ASSUME RequestTypes, NEW w \in Workers, NEW s \in Steps, NEW d \in Dates \cup {NoDate},
           NEW S \in SUBSET Orders, NEW p \in Proposals \cup {NoProposal}, NEW n \in Nat,
           s = "idle" => S = {} /\ p = NoProposal, Goto(w, s, d, S, p, n)
    PROVE  RequestTypes'
BY DEF RequestTypes, Goto

LEMMA DoneTypes ==
    ASSUME RequestTypes, NEW w \in Workers, Done(w)
    PROVE  RequestTypes'
BY GotoTypes DEF Done, Steps

LEMMA StepTypes ==
    ASSUME RequestTypes, NEW w \in Workers, NEW s \in Steps \ {"idle"},
           step' = [step EXCEPT ![w] = s], UNCHANGED <<day, held, held_proposal, held_need>>
    PROVE  RequestTypes'
BY DEF RequestTypes

LEMMA DataAlone ==
    ASSUME DataTypes, UNCHANGED dataVars
    PROVE  DataTypes'
BY DEF DataTypes, dataVars, orderVars, proposalVars

LEMMA OrderRequestTypes ==
    ASSUME ReviewTypeOK, NEW w \in Workers, OrderRequest(w)
    PROVE  ReviewTypeOK'
<1> SUFFICES RequestTypes' /\ DataTypes'
    BY TypesJoin
<1>0. RequestTypes /\ DataTypes
    BY TypesSplit
<1>1. ASSUME NEW o \in Orders, NEW s \in {"placed", "delivered"}, NEW d \in Dates,
             CreateOrder(w, o, s, d)
      PROVE  RequestTypes' /\ DataTypes'
    BY <1>0, <1>1 DEF CreateOrder, RequestTypes, DataTypes, reqVars, proposalVars
<1>2. ASSUME NEW o \in Orders, NEW s \in {"placed", "delivered"}, NEW d \in Dates,
             UpdateOrder(w, o, s, d)
      PROVE  RequestTypes' /\ DataTypes'
    <2>1. DataTypes'
        BY <1>0, <1>2 DEF UpdateOrder, DataTypes, proposalVars
    <2>2. CASE Goto(w, "refresh", d, {}, NoProposal, 0)
        BY <1>0, <2>1, <2>2, GotoTypes DEF Steps
    <2>3. CASE UNCHANGED reqVars
        BY <1>0, <2>1, <2>3 DEF RequestTypes, reqVars
    <2> QED BY <1>2, <2>2, <2>3 DEF UpdateOrder
<1>3. ASSUME NEW o \in Orders, DeleteOrder(w, o)
      PROVE  RequestTypes' /\ DataTypes'
    BY <1>0, <1>3 DEF DeleteOrder, RequestTypes, DataTypes, reqVars, proposalVars
<1> QED BY <1>1, <1>2, <1>3 DEF OrderRequest

LEMMA RefreshTypes ==
    ASSUME RequestTypes, DataTypes, NEW w \in Workers,
           Refresh(w) \/ FindEmptied(w) \/ CommitDrop(w)
    PROVE  RequestTypes' /\ DataTypes'
<1>1. day[w] \in Dates \cup {NoDate}
    BY DEF RequestTypes
<1>2. CASE Refresh(w)
    <2> DEFINE S == {o \in DeliveredUnconsumed : odate[o] = day[w]}
               s == IF S = {} THEN "emptied" ELSE "resolved"
    <2>1. /\ Goto(w, s, day[w], S, NoProposal, 0) /\ UNCHANGED dataVars
          /\ S \in SUBSET Orders /\ s \in Steps \ {"idle"}
        BY <1>2 DEF Refresh, DeliveredUnconsumed, Steps
    <2> HIDE DEF S, s
    <2> QED BY <1>1, <2>1, GotoTypes, DataAlone
<1>3. CASE FindEmptied(w)
    <2>1. CASE Done(w)
        BY <1>3, <2>1, DoneTypes, DataAlone DEF FindEmptied
    <2>2. ASSUME NEW p \in PendingFor(day[w]), Goto(w, "dropping", day[w], {}, p, 0)
          PROVE  RequestTypes' /\ DataTypes'
        BY <1>1, <1>3, <2>2, GotoTypes, DataAlone DEF FindEmptied, PendingFor, Steps
    <2> QED BY <1>3, <2>1, <2>2 DEF FindEmptied
<1>4. CASE CommitDrop(w)
    <2>1. DataTypes'
        BY <1>4 DEF CommitDrop, LinksWithout, Untied, DataTypes
    <2> QED BY <1>4, <2>1, DoneTypes DEF CommitDrop
<1> QED BY <1>2, <1>3, <1>4

LEMMA CommitGenerateTypes ==
    ASSUME RequestTypes, DataTypes, NEW w \in Workers, NEW p \in Proposals, CommitGenerate(w, p)
    PROVE  RequestTypes' /\ DataTypes'
<1> DEFINE v == held_proposal[w]
           S == held[w]
<1>1. /\ pstatus' = [q \in Proposals |->
            IF q = v THEN "deleted" ELSE IF q = p THEN "pending" ELSE pstatus[q]]
      /\ pdate' = [pdate EXCEPT ![p] = day[w]]
      /\ links' = [LinksWithout(v) EXCEPT ![p] = S]
      /\ need' = [need EXCEPT ![p] = SumFunctionOnSet(Demand, S)]
      /\ consumedBy' = [o \in Orders |-> IF consumedBy[o] = v THEN NoProposal ELSE consumedBy[o]]
      /\ Done(w) /\ UNCHANGED <<ostatus, odate, consumed, applied>>
    BY DEF CommitGenerate, Untied
<1>2. S \in SUBSET Orders /\ day[w] \in Dates \cup {NoDate}
    BY DEF RequestTypes
<1> HIDE DEF S, v
<1>3. SumFunctionOnSet(Demand, S) \in Nat
    <2>1. Integral(Demand, Orders) /\ \A o \in Orders : Demand[o] >= 0
        BY ReviewAssumption DEF ReviewAssumption, Integral
    <2> QED BY <1>2, <2>1, SumMonotone, ReviewAssumption DEF ReviewAssumption
<1>4. LinksWithout(v) \in [Proposals -> SUBSET Orders]
    BY DEF LinksWithout, DataTypes
<1>5. DataTypes'
    <2>1. pstatus' \in [Proposals -> {"unused", "pending", "approved", "dismissed", "deleted"}]
        BY <1>1 DEF DataTypes
    <2>2. /\ links' \in [Proposals -> SUBSET Orders] /\ need' \in [Proposals -> Nat]
          /\ pdate' \in [Proposals -> Dates \cup {NoDate}]
        BY <1>1, <1>2, <1>3, <1>4 DEF DataTypes
    <2>3. consumedBy' \in [Orders -> Proposals \cup {NoProposal}]
        BY <1>1 DEF DataTypes
    <2> QED BY <1>1, <2>1, <2>2, <2>3 DEF DataTypes
<1> QED BY <1>1, <1>5, DoneTypes

LEMMA BuildReviewTypes ==
    ASSUME ReviewTypeOK, NEW w \in Workers, BuildReview(w)
    PROVE  ReviewTypeOK'
<1> SUFFICES RequestTypes' /\ DataTypes'
    BY TypesJoin
<1>0. RequestTypes /\ DataTypes
    BY TypesSplit
<1>1. ASSUME NEW d \in Dates, NEW T \in SUBSET Orders, Generate(w, d, T)
      PROVE  RequestTypes' /\ DataTypes'
    <2> DEFINE S == {o \in DeliveredUnconsumed : o \in T}
    <2>1. S \in SUBSET Orders /\ Goto(w, "resolved", d, S, NoProposal, 0) /\ UNCHANGED dataVars
        BY <1>1 DEF Generate, DeliveredUnconsumed
    <2> HIDE DEF S
    <2> QED BY <1>0, <2>1, GotoTypes, DataAlone DEF Steps
<1>2. CASE CheckBlocked(w)
    <2>1. /\ \/ step' = [step EXCEPT ![w] = "refused"]
             \/ step' = [step EXCEPT ![w] = "unblocked"]
          /\ UNCHANGED <<dataVars, day, held, held_proposal, held_need>>
        BY <1>2 DEF CheckBlocked
    <2> QED BY <1>0, <2>1, StepTypes, DataAlone DEF Steps
<1>3. CASE FindPending(w)
    <2>1. PICK p \in IF PendingFor(day[w]) = {} THEN {NoProposal} ELSE PendingFor(day[w]) :
              Goto(w, "replacing", day[w], held[w], p, 0)
        BY <1>3 DEF FindPending
    <2>2. /\ p \in Proposals \cup {NoProposal} /\ held[w] \in SUBSET Orders
          /\ day[w] \in Dates \cup {NoDate}
        BY <1>0 DEF PendingFor, RequestTypes
    <2>3. UNCHANGED dataVars
        BY <1>3 DEF FindPending
    <2> QED BY <1>0, <2>1, <2>2, <2>3, GotoTypes, DataAlone DEF Steps
<1> QED BY <1>0, <1>1, <1>2, <1>3, RefreshTypes, CommitGenerateTypes DEF BuildReview

LEMMA WorkReviewTypes ==
    ASSUME ReviewTypeOK, NEW w \in Workers, WorkReview(w)
    PROVE  ReviewTypeOK'
<1> SUFFICES RequestTypes' /\ DataTypes'
    BY TypesJoin
<1>0. RequestTypes /\ DataTypes
    BY TypesSplit
<1>1. ASSUME NEW s \in {"editing", "dismissing", "approving"}, NEW p \in Proposals,
             Load(w, s, p)
      PROVE  RequestTypes' /\ DataTypes'
    <2>1. /\ links[p] \in SUBSET Orders /\ pdate[p] \in Dates \cup {NoDate} /\ need[p] \in Nat
          /\ Goto(w, s, pdate[p], links[p], p, need[p]) /\ UNCHANGED dataVars
        BY <1>0, <1>1 DEF Load, DataTypes
    <2> QED BY <1>0, <2>1, GotoTypes, DataAlone DEF Steps
<1>2. ASSUME NEW n \in Quantities, CommitEdit(w, n)
      PROVE  RequestTypes' /\ DataTypes'
    <2>1. need' \in [Proposals -> Nat]
        <3>1. n \in Nat
            BY LedgerAssumption DEF LedgerAssumption, Quantities
        <3> QED BY <1>0, <1>2, <3>1 DEF CommitEdit, DataTypes
    <2> QED BY <1>0, <1>2, <2>1, DoneTypes DEF CommitEdit, DataTypes, orderVars
<1>3. CASE CommitDismiss(w)
    <2>1. links' \in [Proposals -> SUBSET Orders]
        BY <1>0, <1>3 DEF CommitDismiss, DataTypes
    <2>2. DataTypes'
        BY <1>0, <1>3, <2>1 DEF CommitDismiss, Close, DataTypes, orderVars
    <2> QED BY <1>0, <1>3, <2>2, DoneTypes DEF CommitDismiss
<1>4. ASSUME NEW b \in [Lots -> -MaxQty .. 0], Allocate(w, b)
      PROVE  RequestTypes' /\ DataTypes'
    <2>1. "allocated" \in Steps \ {"idle"}
        BY DEF Steps
    <2> QED BY <1>0, <1>4, <2>1, StepTypes, DataAlone DEF Allocate
<1>5. CASE CommitApprove(w)
    <2> DEFINE p == held_proposal[w]
               H == held[w]
    <2>1. /\ consumed' = [o \in Orders |-> consumed[o] \/ o \in H]
          /\ consumedBy' = [o \in Orders |-> IF o \in H THEN p ELSE consumedBy[o]]
          /\ pstatus' = [pstatus EXCEPT ![p] = "approved"]
          /\ applied' = [o \in Orders |-> IF o \in H THEN applied[o] + 1 ELSE applied[o]]
          /\ Done(w) /\ UNCHANGED <<ostatus, odate, pdate, links, need>>
        BY <1>5 DEF CommitApprove, Close
    <2>2. p \in Proposals \cup {NoProposal}
        BY <1>0 DEF RequestTypes
    <2> HIDE DEF p, H
    <2>3. consumed' \in [Orders -> BOOLEAN]
        BY <2>1, Zenon
    <2>4. /\ consumedBy' \in [Orders -> Proposals \cup {NoProposal}]
          /\ applied' \in [Orders -> Nat]
        BY <1>0, <2>1, <2>2 DEF DataTypes
    <2>5. DataTypes'
        BY <1>0, <2>1, <2>3, <2>4 DEF DataTypes
    <2> QED BY <1>0, <2>1, <2>5, DoneTypes
<1> QED BY <1>1, <1>2, <1>3, <1>4, <1>5 DEF WorkReview

LEMMA TypesAlone ==
    ASSUME ReviewTypeOK, UNCHANGED <<dataVars, reqVars>>
    PROVE  ReviewTypeOK'
BY DEF ReviewTypeOK, dataVars, orderVars, proposalVars, reqVars

LEMMA ReviewRequestTypes ==
    ASSUME ReviewTypeOK, NEW w \in Workers, ReviewRequest(w)
    PROVE  ReviewTypeOK'
<1>1. CASE AbandonReview(w)
    BY <1>1, TypesSplit, TypesJoin, DoneTypes, DataAlone DEF AbandonReview
<1> QED BY <1>1, OrderRequestTypes, BuildReviewTypes, WorkReviewTypes DEF ReviewRequest

LEMMA ReviewNextTypes == ReviewTypeOK /\ [ReviewNext]_reviewVars => ReviewTypeOK'
BY TypesAlone, ReviewRequestTypes DEF ReviewNext, ManualUnlessReviewing, reviewVars

(* Rows and requests keep their shape whatever overlaps, whatever orders   *)
(* add up to: no review needs a negative quantity, and no request starts   *)
(* from what an earlier one of its worker had read.                        *)
THEOREM ReviewTypes == ReviewSpec => []ReviewTypeOK
BY ReviewInitTypes, ReviewNextTypes, PTL DEF ReviewSpec

-----------------------------------------------------------------------------
(* First expiry, first out *)

LEMMA AvailableCounts ==
    ASSUME LedgerTypeOK, NEW l \in Lots
    PROVE  Available(l) \in Nat
<1>1. qty[l] \in Nat
    BY LedgerAssumption DEF LedgerTypeOK, Quantities
<1> QED BY <1>1 DEF Available

(* The balances that count, as the sums of the code have them. *)
Stocked == [k \in Lots |-> Available(k)]

Taken(n) == [k \in Lots |-> Take(k, n)]

(* A lot gives no more than it has, and the last lots nothing once the     *)
(* quantity is reached.                                                    *)
LEMMA TakeBounds ==
    ASSUME LedgerTypeOK, NEW l \in Lots, NEW n \in Nat
    PROVE  /\ SumFunctionOnSet(Stocked, Earlier(l)) \in Nat
           /\ Take(l, n) \in 0 .. Available(l)
           /\ Take(l, n) = LET left == n - SumFunctionOnSet(Stocked, Earlier(l))
                           IN  IF left <= 0 THEN 0
                               ELSE IF left < Available(l) THEN left ELSE Available(l)
<1>1. Integral(Stocked, Lots) /\ \A k \in Lots : Stocked[k] >= 0
    BY AvailableCounts DEF Stocked, Integral
<1>2. Earlier(l) \in SUBSET Lots
    BY DEF Earlier
<1>3. SumFunctionOnSet(Stocked, Earlier(l)) \in Nat
    BY <1>1, <1>2, SumMonotone, ReviewAssumption DEF ReviewAssumption
<1>4. Available(l) \in Nat
    BY AvailableCounts
<1>5. Take(l, n) = LET left == n - SumFunctionOnSet(Stocked, Earlier(l))
                   IN  IF left <= 0 THEN 0
                       ELSE IF left < Available(l) THEN left ELSE Available(l)
    BY DEF Take, Stocked
<1>6. Take(l, n) \in 0 .. Available(l)
    BY <1>3, <1>4, <1>5
<1> QED BY <1>3, <1>5, <1>6

(* The lots of a set that leaves out no earlier lot give the quantity, or  *)
(* all they have.                                                          *)
LEMMA TakeSums ==
    ASSUME LedgerTypeOK, NEW n \in Nat, NEW D \in SUBSET Lots,
           \A l \in D : Earlier(l) \subseteq D
    PROVE  SumFunctionOnSet(Taken(n), D) =
               IF n < SumFunctionOnSet(Stocked, D) THEN n ELSE SumFunctionOnSet(Stocked, D)
<1> DEFINE T == Taken(n)
           Whole(E) == \A l \in E : Earlier(l) \subseteq E
           UpTo(E) == IF n < SumFunctionOnSet(Stocked, E) THEN n ELSE SumFunctionOnSet(Stocked, E)
           Bad == {E \in SUBSET Lots : Whole(E) /\ SumFunctionOnSet(T, E) # UpTo(E)}
<1> SUFFICES ASSUME Bad # {} PROVE FALSE
    OBVIOUS
<1>0. IsFiniteSet(Lots)
    BY ReviewAssumption DEF ReviewAssumption
<1>1. PICK E \in Bad : \A F \in Bad : F \subseteq E => F = E
    <2>1. Bad \in SUBSET (SUBSET Lots)
        OBVIOUS
    <2> HIDE DEF Bad
    <2> QED BY <1>0, <2>1, SmallestSet
<1>2. E \in SUBSET Lots /\ Whole(E) /\ SumFunctionOnSet(T, E) # UpTo(E)
    BY <1>1
<1>3. Integral(Stocked, Lots) /\ Integral(T, Lots)
    <2>1. ASSUME NEW l \in Lots PROVE Available(l) \in Int /\ Take(l, n) \in Int
        BY AvailableCounts, TakeBounds
    <2> QED BY <2>1 DEF Stocked, Taken, Integral
<1>4. IsFiniteSet(E) /\ Integral(Stocked, E) /\ Integral(T, E)
    BY <1>0, <1>2, <1>3, FS_Subset DEF Integral
<1>5. E # {}
    <2> SUFFICES ASSUME E = {} PROVE FALSE
        OBVIOUS
    <2>1. SumFunctionOnSet(Stocked, E) = 0 /\ SumFunctionOnSet(T, E) = 0
        BY <1>4, SumUnfolds
    <2> QED BY <1>2, <2>1
<1>6. PICK l \in E : \A k \in E : LotRank[k] <= LotRank[l]
    <2>1. Integral(LotRank, E)
        BY <1>2, ReviewAssumption DEF ReviewAssumption, Integral
    <2> QED BY <1>4, <1>5, <2>1, GreatestExists
<1>7. Earlier(l) = E \ {l}
    <2>1. Earlier(l) \subseteq E /\ l \notin Earlier(l)
        BY <1>2, ReviewAssumption DEF Earlier, ReviewAssumption
    <2>2. ASSUME NEW k \in E, k # l PROVE k \in Earlier(l)
        <3>1. /\ LotRank[k] \in Nat /\ LotRank[l] \in Nat /\ LotRank[k] # LotRank[l]
              /\ k \in Lots
            BY <1>2, <2>2, ReviewAssumption DEF ReviewAssumption
        <3> QED BY <1>6, <3>1 DEF Earlier
    <2> QED BY <2>1, <2>2
<1>8. Whole(E \ {l}) /\ E \ {l} \in SUBSET Lots
    <2> SUFFICES ASSUME NEW k \in E \ {l} PROVE Earlier(k) \subseteq E \ {l}
        BY <1>2
    <2>1. LotRank[k] \in Nat /\ LotRank[l] \in Nat /\ LotRank[k] <= LotRank[l]
        BY <1>2, <1>6, ReviewAssumption DEF ReviewAssumption
    <2>2. l \notin Earlier(k)
        BY <2>1 DEF Earlier
    <2> QED BY <1>2, <2>2
<1> DEFINE before == SumFunctionOnSet(Stocked, E \ {l})
<1>9. SumFunctionOnSet(T, E \ {l}) = UpTo(E \ {l})
    BY <1>1, <1>8
<1>10. SumFunctionOnSet(T, E) = T[l] + SumFunctionOnSet(T, E \ {l})
    BY <1>4, SumTakes
<1>11. SumFunctionOnSet(Stocked, E) = Stocked[l] + before
    BY <1>4, SumTakes
<1>12. l \in Lots /\ Stocked[l] = Available(l) /\ T[l] = Take(l, n)
    BY <1>2 DEF Stocked, Taken
<1>13. /\ before \in Nat /\ Available(l) \in Nat
       /\ Take(l, n) = IF n - before <= 0 THEN 0
                       ELSE IF n - before < Available(l) THEN n - before ELSE Available(l)
    BY <1>7, <1>12, TakeBounds, AvailableCounts
<1>14. SumFunctionOnSet(T, E) # UpTo(E)
    BY <1>2
<1> HIDE DEF Bad, T, Whole
<1>15. SumFunctionOnSet(T, E) =
          Take(l, n) + (IF n < before THEN n ELSE before)
    BY <1>9, <1>10, <1>12
<1>16. SumFunctionOnSet(Stocked, E) = Available(l) + before
    BY <1>11, <1>12
<1> HIDE DEF before
<1>17. UpTo(E) = IF n < Available(l) + before THEN n ELSE Available(l) + before
    BY <1>16
<1> HIDE DEF UpTo
<1> QED BY <1>13, <1>14, <1>15, <1>17

(* FefoAllocationService.allocate, unless there is a shortfall: the lots   *)
(* together give the quantity that was asked for, each no more than its    *)
(* balance, and a lot gives anything only when all that expire before it   *)
(* are emptied.                                                            *)
THEOREM FefoExact ==
    ASSUME LedgerTypeOK, NEW n \in Nat, ~Shortfall(n)
    PROVE  /\ SumFunctionOnSet(Taken(n), Lots) = n
           /\ \A l \in Lots : Take(l, n) \in 0 .. Available(l)
           /\ \A k, l \in Lots : LotRank[k] < LotRank[l] /\ Take(l, n) > 0 =>
                                 Take(k, n) = Available(k)
<1>0. IsFiniteSet(Lots)
    BY ReviewAssumption DEF ReviewAssumption
<1>1. SumFunctionOnSet(Taken(n), Lots) = n
    <2>1. SumFunctionOnSet(Taken(n), Lots) =
             IF n < SumFunctionOnSet(Stocked, Lots) THEN n ELSE SumFunctionOnSet(Stocked, Lots)
        BY TakeSums DEF Earlier
    <2>2. ~ (n > SumFunctionOnSet(Stocked, Lots))
        BY DEF Shortfall, Stocked, SumFunction
    <2>3. SumFunctionOnSet(Stocked, Lots) \in Nat
        <3>1. Integral(Stocked, Lots) /\ \A l \in Lots : Stocked[l] >= 0
            BY AvailableCounts DEF Stocked, Integral
        <3> QED BY <1>0, <3>1, SumMonotone
    <2> QED BY <2>1, <2>2, <2>3
<1>2. ASSUME NEW k \in Lots, NEW l \in Lots, LotRank[k] < LotRank[l], Take(l, n) > 0
      PROVE  Take(k, n) = Available(k)
    <2>0. LotRank[k] \in Nat /\ LotRank[l] \in Nat
        BY ReviewAssumption DEF ReviewAssumption
    <2>1. /\ Earlier(l) \in SUBSET Lots /\ IsFiniteSet(Earlier(l))
          /\ k \in Earlier(l) /\ k \notin Earlier(k)
          /\ Earlier(k) \cup {k} \in SUBSET Earlier(l)
        <3>1. Earlier(l) \in SUBSET Lots /\ k \in Earlier(l) /\ k \notin Earlier(k)
            BY <1>2, <2>0 DEF Earlier
        <3>2. Earlier(k) \subseteq Earlier(l)
            <4> SUFFICES ASSUME NEW j \in Lots, LotRank[j] < LotRank[k]
                         PROVE  LotRank[j] < LotRank[l]
                BY DEF Earlier
            <4>1. LotRank[j] \in Nat
                BY ReviewAssumption DEF ReviewAssumption
            <4> QED BY <1>2, <2>0, <4>1
        <3> QED BY <1>0, <3>1, <3>2, FS_Subset
    <2>2. /\ Integral(Stocked, Earlier(l)) /\ \A j \in Earlier(l) : Stocked[j] >= 0
          /\ Integral(Stocked, Earlier(k) \cup {k})
        <3>1. \A j \in Lots : Stocked[j] \in Int /\ Stocked[j] >= 0
            BY AvailableCounts DEF Stocked
        <3> QED BY <2>1, <3>1 DEF Integral
    <2>3. SumFunctionOnSet(Stocked, Earlier(k) \cup {k}) <= SumFunctionOnSet(Stocked, Earlier(l))
        BY <2>1, <2>2, SumMonotone
    <2>4. IsFiniteSet(Earlier(k))
        BY <1>0, FS_Subset DEF Earlier
    <2>5. SumFunctionOnSet(Stocked, Earlier(k) \cup {k}) =
             Available(k) + SumFunctionOnSet(Stocked, Earlier(k))
        BY <2>1, <2>2, <2>4, SumAdds DEF Stocked
    <2>6. /\ SumFunctionOnSet(Stocked, Earlier(l)) \in Nat
          /\ n - SumFunctionOnSet(Stocked, Earlier(l)) > 0
        BY <1>2, TakeBounds
    <2>7. /\ SumFunctionOnSet(Stocked, Earlier(k)) \in Nat /\ Available(k) \in Nat
          /\ n - SumFunctionOnSet(Stocked, Earlier(k)) > Available(k)
        BY <2>3, <2>5, <2>6, TakeBounds, AvailableCounts
    <2> QED BY <2>7, TakeBounds
<1> QED BY <1>1, <1>2, TakeBounds

-----------------------------------------------------------------------------
(* What an approval takes *)

(* The movements an approval has buffered give what it has read. *)
AllocatedExact ==
    \A w \in Workers : step[w] = "allocated" =>
        SumFunctionOnSet(change[w], Lots) = -held_need[w]

AllocationInv == ReviewTypeOK /\ LedgerInv /\ AllocatedExact

(* Requests of w that buffer nothing and do not get as far. *)
LEMMA AllocatedAlone ==
    ASSUME AllocatedExact, NEW w \in Workers,
           \A u \in Workers : step'[u] = "allocated" =>
               step[u] = "allocated" /\ change'[u] = change[u] /\ held_need'[u] = held_need[u]
    PROVE  AllocatedExact'
BY DEF AllocatedExact

LEMMA GotoUnallocated ==
    ASSUME AllocationInv, NEW w \in Workers, NEW s \in Steps \ {"allocated"},
           NEW d, NEW S, NEW p, NEW n, Goto(w, s, d, S, p, n),
           \A u \in Workers : u # w => change'[u] = change[u]
    PROVE  AllocatedExact'
<1>1. \A u \in Workers : step'[u] = "allocated" =>
          step[u] = "allocated" /\ change'[u] = change[u] /\ held_need'[u] = held_need[u]
    BY DEF Goto, AllocationInv, ReviewTypeOK
<1> QED BY <1>1, AllocatedAlone DEF AllocationInv

LEMMA DoneUnallocated ==
    ASSUME AllocationInv, NEW w \in Workers, Done(w),
           \A u \in Workers : u # w => change'[u] = change[u]
    PROVE  AllocatedExact'
BY GotoUnallocated DEF Done, Steps

(* Negative terms add up to the negative sum. *)
LEMMA SumOfNegatives ==
    ASSUME NEW S, IsFiniteSet(S), NEW F, NEW G, Integral(F, S), \A x \in S : G[x] = -F[x]
    PROVE  SumFunctionOnSet(G, S) = -SumFunctionOnSet(F, S)
<1> DEFINE Z == [x \in S |-> 0]
<1>1. \A x \in S : Z[x] = F[x] + G[x]
    BY DEF Integral
<1>2. Integral(G, S) /\ Integral(Z, S)
    BY DEF Integral
<1>3. SumFunctionOnSet(Z, S) = SumFunctionOnSet(Z, {}) /\ SumFunctionOnSet(Z, {}) = 0
    <2>1. \A x \in S \ {} : Z[x] = 0
        OBVIOUS
    <2>2. IsFiniteSet({}) /\ Integral(Z, {})
        BY FS_EmptySet DEF Integral
    <2> HIDE DEF Z
    <2>3. SumFunctionOnSet(Z, {}) = 0
        BY <2>2, SumUnfolds
    <2> QED BY <1>2, <2>1, <2>3, SumOfSome
<1> HIDE DEF Z
<1>4. SumFunctionOnSet(Z, S) = SumFunctionOnSet(F, S) + SumFunctionOnSet(G, S)
    BY <1>1, <1>2, SumOfSums
<1>5. SumFunctionOnSet(F, S) \in Int /\ SumFunctionOnSet(G, S) \in Int
    BY <1>2, SumUnfolds
<1> QED BY <1>3, <1>4, <1>5

(* allocate gives what is asked for, or approve ends there. *)
LEMMA AllocateExact ==
    ASSUME AllocationInv, NEW w \in Workers, NEW b \in [Lots -> -MaxQty .. 0], Allocate(w, b)
    PROVE  AllocatedExact'
<1>1. /\ LedgerTypeOK /\ held_need[w] \in Nat /\ ~Shortfall(held_need[w])
      /\ \A l \in Lots : b[l] = -Take(l, held_need[w])
      /\ change' = [change EXCEPT ![w] = b]
      /\ step' = [step EXCEPT ![w] = "allocated"] /\ UNCHANGED held_need
    BY DEF Allocate, Buffer, AllocationInv, LedgerInv, ReviewTypeOK
<1>2. SumFunctionOnSet(b, Lots) = -held_need[w]
    <2> DEFINE T == Taken(held_need[w])
    <2>1. SumFunctionOnSet(T, Lots) = held_need[w]
        BY <1>1, FefoExact
    <2>2. \A l \in Lots : T[l] = Take(l, held_need[w]) /\ T[l] \in Int
        <3>1. ASSUME NEW l \in Lots PROVE Take(l, held_need[w]) \in Int
            BY <1>1, AvailableCounts, TakeBounds
        <3> QED BY <3>1 DEF Taken
    <2> HIDE DEF T
    <2>3. Integral(T, Lots) /\ \A l \in Lots : b[l] = -T[l]
        BY <1>1, <2>2 DEF Integral
    <2> QED BY <2>1, <2>3, SumOfNegatives, ReviewAssumption DEF ReviewAssumption
<1>3. ASSUME NEW u \in Workers, step'[u] = "allocated"
      PROVE  SumFunctionOnSet(change'[u], Lots) = -held_need'[u]
    <2>1. CASE u = w
        <3>1. change'[u] = b /\ held_need'[u] = held_need[w]
            BY <1>1, <2>1 DEF AllocationInv, LedgerInv, LedgerTypeOK
        <3> QED BY <1>2, <3>1
    <2>2. CASE u # w
        <3>1. change'[u] = change[u] /\ held_need'[u] = held_need[u] /\ step[u] = "allocated"
            BY <1>1, <1>3, <2>2 DEF AllocationInv, LedgerInv, LedgerTypeOK, ReviewTypeOK
        <3> QED BY <3>1 DEF AllocationInv, AllocatedExact
    <2> QED BY <2>1, <2>2
<1> QED BY <1>3 DEF AllocatedExact

LEMMA AllocatedRequest ==
    ASSUME AllocationInv, NEW w \in Workers, ReviewRequest(w)
    PROVE  AllocatedExact'
<1>0. ReviewTypeOK /\ change \in [Workers -> [Lots -> Int]] /\ AllocatedExact
    BY DEF AllocationInv, LedgerInv, LedgerTypeOK
<1>1. CASE UNCHANGED <<ledgerVars, reqVars>>
    BY <1>0, <1>1 DEF AllocatedExact, ledgerVars, reqVars
<1>2. CASE OrderRequest(w)
    <2>1. ASSUME NEW o \in Orders, NEW s \in {"placed", "delivered"}, NEW d \in Dates,
                 UpdateOrder(w, o, s, d)
          PROVE  AllocatedExact'
        BY <1>1, <2>1, GotoUnallocated DEF UpdateOrder, Steps, ledgerVars
    <2> QED BY <1>1, <1>2, <2>1 DEF OrderRequest, CreateOrder, DeleteOrder
<1>3. CASE BuildReview(w)
    <2>1. CASE Refresh(w)
        <3> DEFINE S == {o \in DeliveredUnconsumed : odate[o] = day[w]}
                   s == IF S = {} THEN "emptied" ELSE "resolved"
        <3>1. Goto(w, s, day[w], S, NoProposal, 0) /\ s \in Steps /\ s # "allocated"
            BY <2>1 DEF Refresh, Steps
        <3>2. UNCHANGED change
            BY <2>1 DEF Refresh, ledgerVars
        <3> HIDE DEF S, s
        <3> QED BY <3>1, <3>2, GotoUnallocated
    <2>6. CASE FindEmptied(w) \/ CommitDrop(w)
        BY <2>6, GotoUnallocated, DoneUnallocated
           DEF FindEmptied, CommitDrop, Steps, ledgerVars
    <2>2. ASSUME NEW d \in Dates, NEW T \in SUBSET Orders, Generate(w, d, T)
          PROVE  AllocatedExact'
        BY <2>2, GotoUnallocated DEF Generate, Steps, ledgerVars
    <2>3. CASE CheckBlocked(w)
        <3>1. /\ UNCHANGED <<change, held_need>>
              /\ \/ step' = [step EXCEPT ![w] = "refused"]
                 \/ step' = [step EXCEPT ![w] = "unblocked"]
            BY <2>3 DEF CheckBlocked, ledgerVars
        <3> QED BY <1>0, <3>1, AllocatedAlone DEF ReviewTypeOK
    <2>4. CASE FindPending(w)
        BY <2>4, GotoUnallocated DEF FindPending, Steps, ledgerVars
    <2>5. ASSUME NEW p \in Proposals, CommitGenerate(w, p)
          PROVE  AllocatedExact'
        BY <2>5, DoneUnallocated DEF CommitGenerate, ledgerVars
    <2> QED BY <1>3, <2>1, <2>2, <2>3, <2>4, <2>5, <2>6 DEF BuildReview
<1>4. CASE WorkReview(w)
    <2>1. ASSUME NEW s \in {"editing", "dismissing", "approving"}, NEW p \in Proposals,
                 Load(w, s, p)
          PROVE  AllocatedExact'
        BY <2>1, GotoUnallocated DEF Load, Steps, ledgerVars
    <2>2. ASSUME NEW n \in Quantities, CommitEdit(w, n)
          PROVE  AllocatedExact'
        BY <2>2, DoneUnallocated DEF CommitEdit, ledgerVars
    <2>3. CASE CommitDismiss(w)
        BY <2>3, DoneUnallocated DEF CommitDismiss, ledgerVars
    <2>4. CASE CommitApprove(w)
        <3>1. \A u \in Workers : u # w => change'[u] = change[u]
            BY <1>0, <2>4 DEF CommitApprove, PostMovements, DropBuffer
        <3> QED BY <2>4, <3>1, DoneUnallocated DEF CommitApprove
    <2> QED BY <1>4, <2>1, <2>2, <2>3, <2>4, AllocateExact DEF WorkReview
<1>5. CASE AbandonReview(w)
    <2>1. \A u \in Workers : u # w => change'[u] = change[u]
        BY <1>0, <1>5 DEF AbandonReview, Rollback, DropBuffer, ledgerVars
    <2> QED BY <1>5, <2>1, DoneUnallocated DEF AbandonReview
<1> QED BY <1>2, <1>3, <1>4, <1>5 DEF ReviewRequest

(* Another request of a worker whose review request is not in flight. *)
LEMMA AllocatedBeside ==
    ASSUME AllocationInv, NEW w \in Workers, step[w] = "idle", UNCHANGED reqVars,
           \A u \in Workers : u # w => change'[u] = change[u]
    PROVE  AllocatedExact'
BY AllocatedAlone DEF AllocationInv, reqVars

LEMMA ManualFillsOwn ==
    ASSUME LedgerTypeOK, NEW w \in Workers, ManualRequest(w)
    PROVE  \A u \in Workers : u # w => change'[u] = change[u]
BY DEF LedgerTypeOK, ManualRequest, Adjust, Waste, Buffer, CommitMovements, PostMovements,
       Rollback, DropBuffer

LEMMA AllocatedNext ==
    ASSUME AllocationInv, [ReviewNext]_reviewVars
    PROVE  AllocatedExact'
<1>1. CASE UNCHANGED reviewVars
    BY <1>1 DEF AllocationInv, AllocatedExact, reviewVars, ledgerVars, reqVars
<1>2. ASSUME NEW w \in Workers, ManualUnlessReviewing(w)
      PROVE  AllocatedExact'
    BY <1>2, ManualFillsOwn, AllocatedBeside DEF ManualUnlessReviewing, AllocationInv, LedgerInv
<1> QED BY <1>1, <1>2, AllocatedRequest DEF ReviewNext

LEMMA AllocationInitInv == ReviewInit => AllocationInv
<1>1. ReviewInit => ReviewTypeOK /\ LedgerInv
    BY ReviewInitTypes, LedgerInitInv DEF ReviewInit
<1>2. ReviewInit => AllocatedExact
    BY DEF ReviewInit, AllocatedExact
<1> QED BY <1>1, <1>2 DEF AllocationInv

LEMMA AllocationNextInv == AllocationInv /\ [ReviewNext]_reviewVars => AllocationInv'
BY AllocatedNext, ReviewNextTypes, ReviewLedgerNext DEF AllocationInv

(* Posting adds the movements to the ledger. *)
LEMMA PostedAddsUp ==
    ASSUME LedgerTypeOK, NEW w \in Workers, PostMovements(w)
    PROVE  SumFunctionOnSet(posted', Lots) =
               SumFunctionOnSet(posted, Lots) + SumFunctionOnSet(change[w], Lots)
<1> DEFINE F == posted
           G == change[w]
           H == posted'
<1>1. \A l \in Lots : F[l] \in Int /\ G[l] \in Int
    BY DEF LedgerTypeOK
<1>2. \A l \in Lots : H[l] = F[l] + G[l]
    BY <1>1 DEF PostMovements, LotsOf
<1>3. IsFiniteSet(Lots)
    BY ReviewAssumption DEF ReviewAssumption
<1> HIDE DEF F, G, H
<1>4. Integral(F, Lots) /\ Integral(G, Lots)
    BY <1>1 DEF Integral
<1>5. SumFunctionOnSet(H, Lots) = SumFunctionOnSet(F, Lots) + SumFunctionOnSet(G, Lots)
    BY <1>2, <1>3, <1>4, SumOfSums
<1> QED BY <1>5 DEF F, G, H

LEMMA ApprovalPosts ==
    ASSUME AllocationInv, NEW w \in Workers, CommitApprove(w)
    PROVE  SumFunctionOnSet(posted', Lots) = SumFunctionOnSet(posted, Lots) - held_need[w]
<1>1. /\ LedgerTypeOK /\ PostMovements(w) /\ held_need[w] \in Nat
      /\ SumFunctionOnSet(change[w], Lots) = -held_need[w]
    BY DEF AllocationInv, AllocatedExact, LedgerInv, ReviewTypeOK, CommitApprove
<1>2. SumFunctionOnSet(posted, Lots) \in Int
    <2>1. Integral(posted, Lots)
        BY <1>1 DEF LedgerTypeOK, Integral
    <2> QED BY <2>1, SumUnfolds, ReviewAssumption DEF ReviewAssumption
<1>3. SumFunctionOnSet(posted', Lots) =
         SumFunctionOnSet(posted, Lots) + SumFunctionOnSet(change[w], Lots)
    BY <1>1, PostedAddsUp
<1> QED BY <1>1, <1>2, <1>3

(* Whatever overlaps, an approval posts movements of exactly the quantity  *)
(* it read for the review: never more, and never a part of it, though the  *)
(* lots it allocated from may have changed since.                          *)
ApprovalExact ==
    \A w \in Workers : CommitApprove(w) =>
        SumFunctionOnSet(posted', Lots) = SumFunctionOnSet(posted, Lots) - held_need[w]

THEOREM ApprovalTakesNeed == ReviewSpec => [][ApprovalExact]_reviewVars
<1>1. AllocationInv => ApprovalExact
    BY ApprovalPosts DEF ApprovalExact
<1> QED BY <1>1, AllocationInitInv, AllocationNextInv, PTL DEF ReviewSpec

-----------------------------------------------------------------------------
(* One request at a time *)

SerialShape ==
    /\ consumedBy \in [Orders -> Proposals \cup {NoProposal}]
    /\ pdate \in [Proposals -> Dates \cup {NoDate}]
    /\ day \in [Workers -> Dates \cup {NoDate}]
    /\ applied \in [Orders -> Nat]

(* The demand of an order is applied when it becomes consumed. *)
AppliedConsumed == \A o \in Orders : applied[o] = IF consumed[o] THEN 1 ELSE 0

(* What the only request in flight has read is still so: its orders wait   *)
(* to be consumed, the review it drops or replaces is the pending one of   *)
(* its date, the review it works on is pending with the links it has read.           *)
HeldExact ==
    \A w \in Workers :
        /\ step[w] \in {"resolved", "unblocked", "replacing"} =>
              \A o \in held[w] : ~consumed[o]
        /\ step[w] = "replacing" =>
              \/ held_proposal[w] \in PendingFor(day[w])
              \/ held_proposal[w] = NoProposal /\ PendingFor(day[w]) = {}
        /\ step[w] = "dropping" => held_proposal[w] \in PendingFor(day[w])
        /\ step[w] \in Working =>
              pstatus[held_proposal[w]] = "pending" /\ held[w] = links[held_proposal[w]]

SerialReviewInv ==
    /\ ReviewInv
    /\ SerialShape
    /\ AppliedConsumed
    /\ HeldExact
    /\ PendingUnconsumed
    /\ ConsumedTraced
    /\ OnePendingPerDate

(* What SerialReviewInv adds to ReviewInv. *)
Extra ==
    SerialShape /\ AppliedConsumed /\ HeldExact /\ PendingUnconsumed /\ ConsumedTraced
        /\ OnePendingPerDate

LEMMA SerialReviewInit == ReviewInit => SerialReviewInv
<1> SUFFICES ASSUME ReviewInit PROVE SerialReviewInv
    OBVIOUS
<1> USE DEF ReviewInit
<1>1. ReviewInv
    BY ReviewInitInv
<1>2. SerialShape /\ AppliedConsumed /\ PendingUnconsumed /\ ConsumedTraced /\ OnePendingPerDate
    BY DEF SerialShape, AppliedConsumed, PendingUnconsumed, ConsumedTraced, OnePendingPerDate
<1>3. HeldExact
    BY DEF HeldExact, Working
<1> QED BY <1>1, <1>2, <1>3 DEF SerialReviewInv

LEMMA ExtraUntouched ==
    ASSUME SerialReviewInv, UNCHANGED <<consumed, consumedBy, proposalVars, applied>>,
           SerialShape', HeldExact'
    PROVE  Extra'
BY DEF Extra, SerialReviewInv, AppliedConsumed, PendingUnconsumed, ConsumedTraced,
       OnePendingPerDate, proposalVars

LEMMA ExtraGoto ==
    ASSUME OneRequest, SerialReviewInv, UNCHANGED <<consumed, consumedBy, proposalVars, applied>>,
           NEW w \in Workers, NEW s \in Steps, NEW d \in Dates \cup {NoDate},
           NEW S, NEW p, NEW n, Goto(w, s, d, S, p, n),
           s \in {"resolved", "unblocked", "replacing"} => \A o \in S : ~consumed[o],
           s = "replacing" => p \in PendingFor(d) \/ (p = NoProposal /\ PendingFor(d) = {}),
           s = "dropping" => p \in PendingFor(d),
           s \in Working => pstatus[p] = "pending" /\ S = links[p]
    PROVE  Extra'
<1>1. \A v \in Workers : v = w
    BY DEF OneRequest
<1>2. SerialShape'
    BY DEF SerialReviewInv, SerialShape, Goto, proposalVars
<1>3. step'[w] = s /\ day'[w] = d /\ held'[w] = S /\ held_proposal'[w] = p
    BY DEF Goto, SerialReviewInv, SerialShape, ReviewInv, ReviewShape
<1>4. PendingFor(d)' = PendingFor(d)
    BY DEF PendingFor, proposalVars
<1>5. HeldExact'
    <2> SUFFICES
            /\ s \in {"resolved", "unblocked", "replacing"} => \A o \in S : ~consumed'[o]
            /\ s = "replacing" =>
                  p \in PendingFor(day[w])' \/ (p = NoProposal /\ PendingFor(day[w])' = {})
            /\ s = "dropping" => p \in PendingFor(day[w])'
            /\ s \in Working => pstatus'[p] = "pending" /\ S = links'[p]
        BY <1>1, <1>3 DEF HeldExact
    <2>1. PendingFor(day[w])' = PendingFor(d)
        BY <1>3, <1>4 DEF PendingFor, proposalVars
    <2> QED BY <2>1 DEF proposalVars
<1> QED BY <1>2, <1>5, ExtraUntouched

(* A worker that is done is idle, and so is every worker. *)
LEMMA ExtraDone ==
    ASSUME OneRequest, SerialReviewInv, NEW w \in Workers, Done(w)
    PROVE  HeldExact' /\ day' \in [Workers -> Dates \cup {NoDate}]
<1>1. \A v \in Workers : v = w
    BY DEF OneRequest
<1>2. step'[w] = "idle"
    BY DEF Done, Goto, SerialReviewInv, ReviewInv, ReviewShape
<1>3. HeldExact'
    BY <1>1, <1>2 DEF HeldExact, Working
<1>4. day' \in [Workers -> Dates \cup {NoDate}]
    BY DEF Done, Goto, SerialReviewInv, SerialShape
<1> QED BY <1>3, <1>4

LEMMA ExtraDoneUntouched ==
    ASSUME OneRequest, SerialReviewInv, UNCHANGED <<consumed, consumedBy, proposalVars, applied>>,
           NEW w \in Workers, Done(w)
    PROVE  Extra'
<1>1. SerialShape'
    BY ExtraDone DEF SerialReviewInv, SerialShape, proposalVars
<1> QED BY <1>1, ExtraDone, ExtraUntouched

-----------------------------------------------------------------------------

LEMMA SerialOrderRequest ==
    ASSUME OneRequest, SerialReviewInv, NEW w \in Workers, OrderRequest(w)
    PROVE  Extra'
<1>0. ASSUME UNCHANGED <<consumed, consumedBy, proposalVars, applied, reqVars>>
      PROVE  Extra'
    <2>1. SerialShape' /\ HeldExact'
        BY <1>0 DEF SerialReviewInv, SerialShape, HeldExact, PendingFor, proposalVars, reqVars
    <2> QED BY <1>0, <2>1, ExtraUntouched
<1>1. ASSUME NEW o \in Orders, NEW s \in {"placed", "delivered"}, NEW d \in Dates,
             CreateOrder(w, o, s, d)
      PROVE  Extra'
    BY <1>0, <1>1 DEF CreateOrder
<1>2. ASSUME NEW o \in Orders, NEW s \in {"placed", "delivered"}, NEW d \in Dates,
             UpdateOrder(w, o, s, d)
      PROVE  Extra'
    <2>1. UNCHANGED <<consumed, consumedBy, proposalVars, applied>>
        BY <1>2 DEF UpdateOrder
    <2>2. CASE Goto(w, "refresh", d, {}, NoProposal, 0)
        BY <2>1, <2>2, ExtraGoto DEF Steps, Working
    <2> QED BY <1>0, <1>2, <2>1, <2>2 DEF UpdateOrder
<1>3. ASSUME NEW o \in Orders, DeleteOrder(w, o)
      PROVE  Extra'
    <2>1. /\ consumedBy' = [consumedBy EXCEPT ![o] = NoProposal]
          /\ UNCHANGED <<consumed, pstatus, pdate, links, applied, reqVars>> /\ ~Linked(o)
        BY <1>3 DEF DeleteOrder, proposalVars
    <2>2. ~consumed[o]
        BY <2>1 DEF Linked, SerialReviewInv, ConsumedTraced
    <2>3. SerialShape' /\ HeldExact'
        BY <2>1 DEF SerialReviewInv, SerialShape, HeldExact, PendingFor, reqVars
    <2>4. ConsumedTraced'
        BY <2>1, <2>2 DEF SerialReviewInv, SerialShape, ConsumedTraced
    <2>5. AppliedConsumed' /\ PendingUnconsumed' /\ OnePendingPerDate'
        BY <2>1 DEF SerialReviewInv, AppliedConsumed, PendingUnconsumed, OnePendingPerDate
    <2> QED BY <2>3, <2>4, <2>5 DEF Extra
<1> QED BY <1>1, <1>2, <1>3 DEF OrderRequest

LEMMA SerialRefresh ==
    ASSUME OneRequest, SerialReviewInv, NEW w \in Workers, Refresh(w) \/ FindEmptied(w)
    PROVE  Extra'
<1>1. UNCHANGED <<consumed, consumedBy, proposalVars, applied>>
    BY DEF Refresh, FindEmptied, dataVars, orderVars
<1>2. day[w] \in Dates \cup {NoDate}
    BY DEF SerialReviewInv, SerialShape
<1>3. CASE Refresh(w)
    <2> DEFINE S == {o \in DeliveredUnconsumed : odate[o] = day[w]}
               s == IF S = {} THEN "emptied" ELSE "resolved"
    <2>1. /\ Goto(w, s, day[w], S, NoProposal, 0) /\ \A o \in S : ~consumed[o]
          /\ s \in Steps /\ s \notin Working /\ s # "replacing" /\ s # "dropping"
        BY <1>3 DEF Refresh, DeliveredUnconsumed, Steps, Working
    <2> HIDE DEF S, s
    <2> QED BY <1>1, <1>2, <2>1, ExtraGoto
<1>4. CASE FindEmptied(w)
    <2>1. CASE Done(w)
        BY <1>1, <2>1, ExtraDoneUntouched
    <2>2. ASSUME NEW p \in PendingFor(day[w]), Goto(w, "dropping", day[w], {}, p, 0)
          PROVE  Extra'
        BY <1>1, <1>2, <2>2, ExtraGoto DEF Steps, Working
    <2> QED BY <1>4, <2>1, <2>2 DEF FindEmptied
<1> QED BY <1>3, <1>4

(* A pending review is dropped: none of its orders has been consumed. *)
LEMMA SerialCommitDrop ==
    ASSUME OneRequest, SerialReviewInv, NEW w \in Workers, CommitDrop(w)
    PROVE  Extra'
<1> DEFINE v == held_proposal[w]
<1>1. v \in Proposals /\ pstatus[v] = "pending"
    BY DEF CommitDrop, SerialReviewInv, HeldExact, PendingFor
<1>2. /\ pstatus' = [pstatus EXCEPT ![v] = "deleted"]
      /\ links' = [q \in Proposals |-> IF q = v THEN {} ELSE links[q]]
      /\ consumedBy' = [o \in Orders |-> IF consumedBy[o] = v THEN NoProposal ELSE consumedBy[o]]
      /\ Done(w) /\ UNCHANGED <<consumed, pdate, applied>>
    BY DEF CommitDrop, LinksWithout, Untied
<1> HIDE DEF v
<1>3. SerialShape' /\ HeldExact'
    BY <1>2, ExtraDone DEF SerialReviewInv, SerialShape
<1>4. PendingUnconsumed' /\ OnePendingPerDate' /\ AppliedConsumed'
    BY <1>1, <1>2 DEF SerialReviewInv, ReviewInv, ReviewShape, PendingUnconsumed,
                      OnePendingPerDate, AppliedConsumed
<1>5. ConsumedTraced'
    BY <1>1, <1>2, ReviewAssumption
       DEF SerialReviewInv, ReviewInv, ReviewShape, SerialShape, ConsumedTraced
<1> QED BY <1>3, <1>4, <1>5 DEF Extra

(* The review that is replaced is the only pending one of its date; none   *)
(* of its orders has been consumed.                                        *)
LEMMA SerialCommitGenerate ==
    ASSUME OneRequest, SerialReviewInv, NEW w \in Workers, NEW p \in Proposals,
           CommitGenerate(w, p)
    PROVE  Extra'
<1> DEFINE v == held_proposal[w]
           S == held[w]
           d == day[w]
<1>1. /\ pstatus[p] = "unused" /\ \A o \in S : ~consumed[o]
      /\ d \in Dates \cup {NoDate}
      /\ \/ v \in Proposals /\ pstatus[v] = "pending" /\ pdate[v] = d
         \/ v = NoProposal /\ v \notin Proposals /\ PendingFor(d) = {}
    BY ReviewAssumption DEF CommitGenerate, SerialReviewInv, SerialShape, HeldExact, PendingFor
<1>2. /\ pstatus' = [q \in Proposals |->
            IF q = v THEN "deleted" ELSE IF q = p THEN "pending" ELSE pstatus[q]]
      /\ pdate' = [pdate EXCEPT ![p] = d]
      /\ links' = [q \in Proposals |-> IF q = p THEN S ELSE IF q = v THEN {} ELSE links[q]]
      /\ consumedBy' = [o \in Orders |-> IF consumedBy[o] = v THEN NoProposal ELSE consumedBy[o]]
      /\ Done(w) /\ UNCHANGED <<consumed, applied>>
    BY DEF CommitGenerate, LinksWithout, Untied
<1> HIDE DEF v, S, d
<1>3. SerialShape' /\ HeldExact'
    BY <1>1, <1>2, ExtraDone DEF SerialReviewInv, SerialShape
<1>4. AppliedConsumed'
    BY <1>2 DEF SerialReviewInv, AppliedConsumed
<1>5. PendingUnconsumed'
    BY <1>1, <1>2 DEF SerialReviewInv, PendingUnconsumed
<1>6. ConsumedTraced'
    BY <1>1, <1>2 DEF SerialReviewInv, SerialShape, ConsumedTraced
<1>7. OnePendingPerDate'
    <2>1. ASSUME NEW q \in Proposals, q # v, pstatus[q] = "pending"
          PROVE  pdate[q] # d
        BY <1>1, <2>1 DEF SerialReviewInv, OnePendingPerDate, PendingFor
    <2> QED BY <1>1, <1>2, <2>1 DEF SerialReviewInv, SerialShape, OnePendingPerDate
<1> QED BY <1>3, <1>4, <1>5, <1>6, <1>7 DEF Extra

LEMMA SerialBuildReview ==
    ASSUME OneRequest, SerialReviewInv, NEW w \in Workers, BuildReview(w)
    PROVE  Extra'
<1>1. ASSUME NEW d \in Dates, NEW T \in SUBSET Orders, Generate(w, d, T)
      PROVE  Extra'
    <2> DEFINE S == {o \in DeliveredUnconsumed : o \in T}
    <2>1. Goto(w, "resolved", d, S, NoProposal, 0) /\ \A o \in S : ~consumed[o]
        BY <1>1 DEF Generate, DeliveredUnconsumed
    <2>2. UNCHANGED <<consumed, consumedBy, proposalVars, applied>>
        BY <1>1 DEF Generate, dataVars, orderVars
    <2> HIDE DEF S
    <2> QED BY <2>1, <2>2, ExtraGoto DEF Steps, Working
<1>2. CASE CheckBlocked(w)
    <2>1. /\ step[w] = "resolved"
          /\ UNCHANGED <<consumed, consumedBy, proposalVars, applied, day, held, held_proposal>>
          /\ \/ step' = [step EXCEPT ![w] = "refused"]
             \/ step' = [step EXCEPT ![w] = "unblocked"]
        BY <1>2 DEF CheckBlocked, dataVars, orderVars
    <2>2. SerialShape'
        BY <2>1 DEF SerialReviewInv, SerialShape, proposalVars
    <2>3. \A u \in Workers : u = w /\ step'[u] \in {"refused", "unblocked"}
        BY <2>1 DEF OneRequest, SerialReviewInv, ReviewInv, ReviewShape
    <2>4. HeldExact'
        BY <2>1, <2>3 DEF SerialReviewInv, HeldExact, Working
    <2> QED BY <2>1, <2>2, <2>4, ExtraUntouched
<1>3. CASE FindPending(w)
    <2> DEFINE d == day[w]
    <2>1. PICK p \in IF PendingFor(d) = {} THEN {NoProposal} ELSE PendingFor(d) :
              Goto(w, "replacing", d, held[w], p, 0)
        BY <1>3 DEF FindPending
    <2>2. /\ UNCHANGED <<consumed, consumedBy, proposalVars, applied>>
          /\ d \in Dates \cup {NoDate} /\ \A o \in held[w] : ~consumed[o]
        BY <1>3 DEF FindPending, dataVars, orderVars, SerialReviewInv, SerialShape, HeldExact
    <2>3. p \in PendingFor(d) \/ (p = NoProposal /\ PendingFor(d) = {})
        BY <2>1
    <2> HIDE DEF d
    <2> QED BY <2>1, <2>2, <2>3, ExtraGoto DEF Steps, Working
<1> QED BY <1>1, <1>2, <1>3, SerialRefresh, SerialCommitDrop, SerialCommitGenerate
       DEF BuildReview

LEMMA SerialCommitDismiss ==
    ASSUME OneRequest, SerialReviewInv, NEW w \in Workers, CommitDismiss(w)
    PROVE  Extra'
<1> DEFINE p == held_proposal[w]
<1>1. /\ p \in Proposals /\ pstatus[p] = "pending"
      /\ pstatus' = [pstatus EXCEPT ![p] = "dismissed"]
      /\ links' = [links EXCEPT ![p] = @ \ held[w]]
      /\ Done(w) /\ UNCHANGED <<consumed, consumedBy, pdate, applied>>
    BY DEF CommitDismiss, Close, orderVars, SerialReviewInv, HeldExact, ReviewInv, HeldCurrent,
           Working
<1> HIDE DEF p
<1>2. SerialShape' /\ HeldExact'
    BY <1>1, ExtraDone DEF SerialReviewInv, SerialShape
<1>3. PendingUnconsumed' /\ OnePendingPerDate' /\ AppliedConsumed'
    BY <1>1 DEF SerialReviewInv, ReviewInv, ReviewShape, PendingUnconsumed, OnePendingPerDate,
                AppliedConsumed
<1>4. ConsumedTraced'
    BY <1>1 DEF SerialReviewInv, ReviewInv, ReviewShape, ConsumedTraced
<1> QED BY <1>2, <1>3, <1>4 DEF Extra

(* The orders that are marked are those of the review, unconsumed until    *)
(* now and of no other review.                                             *)
LEMMA SerialCommitApprove ==
    ASSUME OneRequest, SerialReviewInv, NEW w \in Workers, CommitApprove(w)
    PROVE  Extra'
<1> DEFINE p == held_proposal[w]
           H == held[w]
<1>1. p \in Proposals /\ pstatus[p] = "pending" /\ H = links[p] /\ H \subseteq Orders
    BY DEF CommitApprove, SerialReviewInv, HeldExact, ReviewInv, ReviewShape, HeldCurrent, Working
<1>2. /\ pstatus' = [pstatus EXCEPT ![p] = "approved"]
      /\ consumed' = [o \in Orders |-> consumed[o] \/ o \in H]
      /\ consumedBy' = [o \in Orders |-> IF o \in H THEN p ELSE consumedBy[o]]
      /\ applied' = [o \in Orders |-> IF o \in H THEN applied[o] + 1 ELSE applied[o]]
      /\ Done(w) /\ UNCHANGED <<pdate, links>>
    BY DEF CommitApprove, Close
<1> HIDE DEF p, H
<1>3. \A o \in H : ~consumed[o]
    BY <1>1 DEF SerialReviewInv, PendingUnconsumed
<1>4. /\ \A o \in H : consumed'[o]
      /\ \A o \in Orders \ H : consumed'[o] <=> consumed[o]
    BY <1>1, <1>2, Zenon
<1>5. SerialShape' /\ HeldExact'
    BY <1>1, <1>2, ExtraDone DEF SerialReviewInv, SerialShape
<1>6. AppliedConsumed'
    <2> SUFFICES ASSUME NEW o \in Orders
                 PROVE  applied'[o] = IF consumed'[o] THEN 1 ELSE 0
        BY DEF AppliedConsumed
    <2>1. applied[o] = IF consumed[o] THEN 1 ELSE 0
        BY DEF SerialReviewInv, AppliedConsumed
    <2>2. CASE o \in H
        BY <1>2, <1>3, <1>4, <2>1, <2>2
    <2>3. CASE o \notin H
        BY <1>2, <1>4, <2>1, <2>3
    <2> QED BY <2>2, <2>3
<1>7. PendingUnconsumed'
    <2> SUFFICES ASSUME NEW q \in Proposals, pstatus'[q] = "pending", NEW o \in links[q]
                 PROVE  ~consumed'[o]
        BY <1>2 DEF PendingUnconsumed
    <2>1. q # p /\ pstatus[q] = "pending" /\ o \in Orders
        BY <1>1, <1>2 DEF SerialReviewInv, ReviewInv, ReviewShape
    <2>2. o \notin H
        BY <1>1, <2>1 DEF SerialReviewInv, ReviewInv, LinksConsistent
    <2> QED BY <1>4, <2>1, <2>2 DEF SerialReviewInv, PendingUnconsumed
<1>8. ConsumedTraced'
    <2> SUFFICES ASSUME NEW o \in Orders, consumed'[o]
                 PROVE  \E q \in Proposals :
                            consumedBy'[o] = q /\ pstatus'[q] = "approved" /\ o \in links'[q]
        BY DEF ConsumedTraced
    <2>1. CASE o \in H
        BY <1>1, <1>2, <2>1 DEF SerialReviewInv, ReviewInv, ReviewShape
    <2>2. CASE o \notin H
        <3>1. PICK q \in Proposals : consumedBy[o] = q /\ pstatus[q] = "approved" /\ o \in links[q]
            BY <1>4, <2>2 DEF SerialReviewInv, ConsumedTraced
        <3> QED BY <1>1, <1>2, <2>2, <3>1 DEF SerialReviewInv, ReviewInv, ReviewShape
    <2> QED BY <2>1, <2>2
<1>9. OnePendingPerDate'
    BY <1>1, <1>2 DEF SerialReviewInv, ReviewInv, ReviewShape, OnePendingPerDate
<1> QED BY <1>5, <1>6, <1>7, <1>8, <1>9 DEF Extra

LEMMA SerialWorkReview ==
    ASSUME OneRequest, SerialReviewInv, NEW w \in Workers, WorkReview(w)
    PROVE  Extra'
<1>1. ASSUME NEW s \in {"editing", "dismissing", "approving"}, NEW p \in Proposals,
             Load(w, s, p)
      PROVE  Extra'
    <2>1. /\ UNCHANGED <<consumed, consumedBy, proposalVars, applied>> /\ pstatus[p] = "pending"
          /\ pdate[p] \in Dates \cup {NoDate} /\ Goto(w, s, pdate[p], links[p], p, need[p])
        BY <1>1 DEF Load, Open, dataVars, orderVars, SerialReviewInv, SerialShape
    <2> QED BY <2>1, ExtraGoto DEF Steps
<1>2. ASSUME NEW n \in Quantities, CommitEdit(w, n)
      PROVE  Extra'
    <2>1. Done(w) /\ UNCHANGED <<consumed, consumedBy, pstatus, pdate, links, applied>>
        BY <1>2 DEF CommitEdit, orderVars
    <2>2. SerialShape' /\ HeldExact'
        BY <2>1, ExtraDone DEF SerialReviewInv, SerialShape
    <2>3. AppliedConsumed' /\ PendingUnconsumed' /\ ConsumedTraced' /\ OnePendingPerDate'
        BY <2>1 DEF SerialReviewInv, AppliedConsumed, PendingUnconsumed, ConsumedTraced,
                    OnePendingPerDate
    <2> QED BY <2>2, <2>3 DEF Extra
<1>3. ASSUME NEW b \in [Lots -> -MaxQty .. 0], Allocate(w, b)
      PROVE  Extra'
    <2>1. /\ UNCHANGED <<consumed, consumedBy, proposalVars, applied, day, held, held_proposal>>
          /\ step[w] = "approving" /\ step' = [step EXCEPT ![w] = "allocated"]
        BY <1>3 DEF Allocate, dataVars, orderVars
    <2>2. SerialShape'
        BY <2>1 DEF SerialReviewInv, SerialShape, proposalVars
    <2>3. \A u \in Workers : u = w /\ step'[u] = "allocated"
        BY <2>1 DEF OneRequest, SerialReviewInv, ReviewInv, ReviewShape
    <2>4. HeldExact'
        BY <2>1, <2>3 DEF SerialReviewInv, HeldExact, Working, proposalVars
    <2> QED BY <2>1, <2>2, <2>4, ExtraUntouched
<1> QED BY <1>1, <1>2, <1>3, SerialCommitDismiss, SerialCommitApprove DEF WorkReview

(* Requests that leave the orders and reviews to the others. *)
LEMMA ReviewsAlone ==
    ASSUME ReviewInv, UNCHANGED <<dataVars, reqVars>>
    PROVE  ReviewInv'
BY DEF ReviewInv, ReviewShape, HeldCurrent, LinksConsistent, ApprovedConsumed,
       dataVars, reqVars, orderVars, proposalVars

LEMMA SerialReviewsAlone ==
    ASSUME OneRequest, SerialReviewInv, UNCHANGED <<dataVars, reqVars>>
    PROVE  SerialReviewInv'
<1>1. SerialShape' /\ HeldExact'
    BY DEF SerialReviewInv, SerialShape, HeldExact, PendingFor, dataVars, orderVars,
           proposalVars, reqVars
<1>2. Extra'
    BY <1>1, ExtraUntouched DEF dataVars, orderVars
<1> QED BY <1>2, ReviewsAlone DEF Extra, SerialReviewInv

LEMMA SerialReviewNext ==
    ASSUME OneRequest, SerialReviewInv, [ReviewNext]_reviewVars
    PROVE  SerialReviewInv'
<1>0. ReviewInv'
    BY ReviewNextInv DEF SerialReviewInv
<1>1. CASE UNCHANGED <<dataVars, reqVars>>
    BY <1>1, SerialReviewsAlone
<1>2. ASSUME NEW w \in Workers, ReviewRequest(w)
      PROVE  SerialReviewInv'
    <2>1. ASSUME AbandonReview(w)
          PROVE  Extra'
        BY <2>1, ExtraDoneUntouched DEF AbandonReview, dataVars, orderVars
    <2>2. Extra'
        BY <1>2, <2>1, SerialOrderRequest, SerialBuildReview, SerialWorkReview DEF ReviewRequest
    <2> QED BY <1>0, <2>2 DEF Extra, SerialReviewInv
<1>3. ASSUME NEW w \in Workers, ManualUnlessReviewing(w)
      PROVE  SerialReviewInv'
    BY <1>1, <1>3 DEF ManualUnlessReviewing
<1> QED BY <1>1, <1>2, <1>3 DEF ReviewNext, reviewVars

LEMMA SerialReviewSafe ==
    SerialReviewInv => ConsumedOnce /\ PendingUnconsumed /\ ConsumedTraced /\ OnePendingPerDate
<1>1. ASSUME AppliedConsumed, NEW o \in Orders
      PROVE  applied[o] \in {0, 1}
    BY <1>1 DEF AppliedConsumed
<1>2. AppliedConsumed => ConsumedOnce
    BY <1>1 DEF ConsumedOnce
<1> QED BY <1>2 DEF SerialReviewInv

(* One request at a time keeps what the service promises: no order's       *)
(* demand is applied twice, nothing that waits for review is consumed      *)
(* already, a consumed order is traced to the approved review that lists   *)
(* it, and a date has one pending review at most.                          *)
THEOREM SerialConsumption ==
    ASSUME OneRequest
    PROVE  ReviewSpec =>
               [](ConsumedOnce /\ PendingUnconsumed /\ ConsumedTraced /\ OnePendingPerDate)
<1>1. SerialReviewInv /\ [ReviewNext]_reviewVars => SerialReviewInv'
    BY SerialReviewNext
<1> QED BY <1>1, SerialReviewSafe, SerialReviewInit, PTL DEF ReviewSpec
=============================================================================
