------------------------ MODULE InventoryLedger_proofs ------------------------
(***************************************************************************)
(* What holds of the lot ledger for every set of lots and of overlapping   *)
(* requests.                                                               *)
(***************************************************************************)
EXTENDS InventoryLedger, TLAPS

(* A pending movement was computed on an existing lot and leaves a legal   *)
(* balance; unless the row has changed since, the balance it was computed  *)
(* from is still the lot's and the lot is still open.                      *)
BuffersCurrent ==
    \A w \in Workers, l \in Lots : change[w][l] # 0 =>
        /\ l \in present
        /\ seen[w][l] + change[w][l] \in Quantities
        /\ <<w, l>> \notin stale => seen[w][l] = qty[l] /\ active[l]

LedgerInv ==
    /\ LedgerTypeOK
    /\ BuffersCurrent
    /\ BalancedUnlessOverwritten
    /\ OpenIffStocked

-----------------------------------------------------------------------------

LEMMA LedgerInitInv == LedgerInit => LedgerInv
<1> SUFFICES ASSUME LedgerInit PROVE LedgerInv
    OBVIOUS
<1> USE LedgerAssumption DEF LedgerInit, EmptyRow, Quantities
<1>1. LedgerTypeOK
    <2>1. posted \in [Lots -> Int] /\ active \in [Lots -> BOOLEAN]
        OBVIOUS
    <2>2. change \in [Workers -> [Lots -> Int]] /\ seen \in [Workers -> [Lots -> Int]]
        OBVIOUS
    <2> QED BY <2>1, <2>2 DEF LedgerTypeOK
<1>2. BuffersCurrent
    BY DEF BuffersCurrent
<1>3. BalancedUnlessOverwritten /\ OpenIffStocked
    BY DEF BalancedUnlessOverwritten, OpenIffStocked
<1> QED BY <1>1, <1>2, <1>3 DEF LedgerInv

(* Reading lots into a buffer: all that matters is that each buffered      *)
(* movement is legal on the current balance of an open lot.                *)
LEMMA BufferInv ==
    ASSUME LedgerInv, NEW w \in Workers, NEW b \in [Lots -> Int],
           \A l \in Lots : b[l] # 0 => l \in present /\ active[l] /\ CanApply(l, b[l]),
           Buffer(w, b), UNCHANGED <<lotVars, overwritten>>
    PROVE  LedgerInv'
<1> USE DEF LedgerInv
<1>1. LedgerTypeOK'
    <2>1. change' \in [Workers -> [Lots -> Int]]
        BY DEF LedgerTypeOK, Buffer
    <2>2. seen' \in [Workers -> [Lots -> Int]]
        BY DEF LedgerTypeOK, Buffer, Quantities
    <2>3. stale' \subseteq Workers \X Lots
        BY DEF LedgerTypeOK, Buffer
    <2> QED BY <2>1, <2>2, <2>3 DEF LedgerTypeOK, lotVars
<1>2. BuffersCurrent'
    <2> SUFFICES ASSUME NEW v \in Workers, NEW l \in Lots, change'[v][l] # 0
                 PROVE  /\ l \in present'
                        /\ seen'[v][l] + change'[v][l] \in Quantities
                        /\ <<v, l>> \notin stale' => seen'[v][l] = qty'[l] /\ active'[l]
        BY DEF BuffersCurrent, Quantities
    <2>1. CASE v = w
        <3>1. change'[v][l] = b[l] /\ seen'[v][l] = qty[l]
            BY <2>1 DEF Buffer, LedgerTypeOK
        <3>2. qty[l] + b[l] \in Quantities
            BY <3>1, LedgerAssumption DEF CanApply, LedgerTypeOK, Quantities
        <3> QED BY <3>1, <3>2 DEF lotVars
    <2>2. CASE v # w
        <3>1. change'[v][l] = change[v][l] /\ seen'[v][l] = seen[v][l]
            BY <2>2 DEF Buffer, LedgerTypeOK
        <3>2. <<v, l>> \in stale' <=> <<v, l>> \in stale
            BY <2>2 DEF Buffer
        <3> QED BY <3>1, <3>2 DEF lotVars, BuffersCurrent
    <2> QED BY <2>1, <2>2
<1>3. BalancedUnlessOverwritten' /\ OpenIffStocked'
    BY DEF BalancedUnlessOverwritten, OpenIffStocked, lotVars
<1> QED BY <1>1, <1>2, <1>3

LEMMA PostMovementsInv ==
    ASSUME LedgerInv, NEW w \in Workers, PostMovements(w)
    PROVE  LedgerInv'
<1> USE DEF LedgerInv
<1> DEFINE S == LotsOf(w)
           new(l) == seen[w][l] + change[w][l]
<1>1. /\ change' \in [Workers -> [Lots -> Int]]
      /\ seen' \in [Workers -> [Lots -> Int]]
    BY DEF LedgerTypeOK, PostMovements, DropBuffer, EmptyRow
<1>2. \A l \in S : l \in present /\ new(l) \in Quantities
    BY DEF LotsOf, BuffersCurrent
<1>3. LedgerTypeOK'
    <2>1. qty' \in [Lots -> Quantities]
        BY <1>2 DEF LedgerTypeOK, PostMovements
    <2>2. posted' \in [Lots -> Int]
        BY DEF LedgerTypeOK, PostMovements
    <2>4. active' \in [Lots -> BOOLEAN]
        BY Zenon DEF LedgerTypeOK, PostMovements
    <2>3. stale' \subseteq Workers \X Lots /\ overwritten' \subseteq Lots
        BY DEF LedgerTypeOK, PostMovements, LotsOf
    <2> QED BY <1>1, <2>1, <2>2, <2>3, <2>4 DEF LedgerTypeOK, PostMovements
<1>4. BuffersCurrent'
    <2> SUFFICES ASSUME NEW v \in Workers, NEW l \in Lots, change'[v][l] # 0
                 PROVE  /\ l \in present'
                        /\ seen'[v][l] + change'[v][l] \in Quantities
                        /\ <<v, l>> \notin stale' => seen'[v][l] = qty'[l] /\ active'[l]
        BY DEF BuffersCurrent, Quantities
    <2>1. v # w
        BY DEF PostMovements, DropBuffer, EmptyRow, LedgerTypeOK
    <2>2. change'[v][l] = change[v][l] /\ seen'[v][l] = seen[v][l]
        BY <2>1 DEF PostMovements, DropBuffer, LedgerTypeOK
    <2>3. l \in S => <<v, l>> \in stale'
        BY <2>1, <2>2 DEF PostMovements
    <2>4. l \notin S => qty'[l] = qty[l] /\ active'[l] = active[l]
        BY DEF PostMovements
    <2>5. <<v, l>> \in stale => <<v, l>> \in stale'
        BY <2>1 DEF PostMovements
    <2> QED BY <2>2, <2>3, <2>4, <2>5 DEF BuffersCurrent, PostMovements
<1>5. ASSUME NEW l \in present', l \notin overwritten'
      PROVE  qty'[l] = posted'[l] /\ (active'[l] <=> qty'[l] > 0)
    <2>1. l \in present /\ l \in Lots /\ l \notin overwritten
        BY <1>5 DEF PostMovements, LedgerTypeOK
    <2>2. qty[l] = posted[l] /\ (active[l] <=> qty[l] > 0)
        BY <2>1 DEF BalancedUnlessOverwritten, OpenIffStocked
    <2>3. CASE l \in S
        <3>1. <<w, l>> \notin stale
            BY <1>5, <2>3 DEF PostMovements
        <3>2. seen[w][l] = qty[l] /\ active[l]
            BY <2>1, <2>3, <3>1 DEF BuffersCurrent, LotsOf
        <3>3. /\ qty'[l] = qty[l] + change[w][l]
              /\ posted'[l] = posted[l] + change[w][l]
            BY <2>1, <2>3, <3>2 DEF PostMovements
        <3>4. active'[l] <=> qty[l] + change[w][l] # 0
            BY <2>1, <2>3, <3>2 DEF PostMovements, Closes
        <3>5. qty[l] + change[w][l] \in Quantities
            BY <1>2, <2>3, <3>2
        <3>6. qty[l] + change[w][l] # 0 <=> qty[l] + change[w][l] > 0
            BY <3>5, LedgerAssumption DEF Quantities
        <3> QED BY <2>2, <3>3, <3>4, <3>6
    <2>4. CASE l \notin S
        BY <2>1, <2>2, <2>4 DEF PostMovements
    <2> QED BY <2>3, <2>4
<1> QED BY <1>3, <1>4, <1>5 DEF BalancedUnlessOverwritten, OpenIffStocked

LEMMA RollbackInv ==
    ASSUME LedgerInv, NEW w \in Workers, Rollback(w)
    PROVE  LedgerInv'
<1> USE DEF LedgerInv
<1>1. LedgerTypeOK'
    BY DEF LedgerTypeOK, Rollback, DropBuffer, EmptyRow, lotVars
<1>2. BuffersCurrent'
    BY DEF BuffersCurrent, LedgerTypeOK, Rollback, DropBuffer, EmptyRow, lotVars
<1>3. BalancedUnlessOverwritten' /\ OpenIffStocked'
    BY DEF BalancedUnlessOverwritten, OpenIffStocked, Rollback, lotVars
<1> QED BY <1>1, <1>2, <1>3

LEMMA LedgerNextInv == LedgerInv /\ [LedgerNext]_ledgerVars => LedgerInv'
<1> SUFFICES ASSUME LedgerInv, [LedgerNext]_ledgerVars PROVE LedgerInv'
    OBVIOUS
<1>1. ASSUME NEW w \in Workers, NEW l \in Lots, NEW d \in Changes, Adjust(w, l, d)
      PROVE  LedgerInv'
    <2> DEFINE b == [EmptyRow EXCEPT ![l] = d]
    <2>1. b \in [Lots -> Int]
        BY LedgerAssumption DEF EmptyRow, Changes
    <2>2. \A k \in Lots : b[k] # 0 => k = l /\ b[k] = d
        BY DEF EmptyRow
    <2>3. /\ l \in present /\ active[l] /\ CanApply(l, d)
          /\ Buffer(w, b) /\ UNCHANGED <<lotVars, overwritten>>
        BY <1>1 DEF Adjust
    <2> HIDE DEF b
    <2> QED BY <2>1, <2>2, <2>3, BufferInv
<1>2. ASSUME NEW w \in Workers, NEW l \in Lots, NEW n \in 1 .. MaxQty, Waste(w, l, n)
      PROVE  LedgerInv'
    <2> DEFINE b == [EmptyRow EXCEPT ![l] = -n]
    <2>1. b \in [Lots -> Int]
        BY LedgerAssumption DEF EmptyRow
    <2>2. \A k \in Lots : b[k] # 0 => k = l /\ b[k] = -n
        BY DEF EmptyRow
    <2>3. /\ l \in present /\ active[l] /\ CanApply(l, -n)
          /\ Buffer(w, b) /\ UNCHANGED <<lotVars, overwritten>>
        BY <1>2 DEF Waste
    <2> HIDE DEF b
    <2> QED BY <2>1, <2>2, <2>3, BufferInv
<1>3. ASSUME NEW w \in Workers, CommitMovements(w)
      PROVE  LedgerInv'
    BY <1>3, PostMovementsInv DEF CommitMovements
<1>4. ASSUME NEW w \in Workers, Rollback(w)
      PROVE  LedgerInv'
    BY <1>4, RollbackInv
<1>5. CASE UNCHANGED ledgerVars
    BY <1>5 DEF ledgerVars, LedgerInv, LedgerTypeOK, BuffersCurrent,
                BalancedUnlessOverwritten, OpenIffStocked, CanApply
<1> QED BY <1>1, <1>2, <1>3, <1>4, <1>5 DEF LedgerNext, ManualRequest

(* However requests overlap, no balance is ever negative and every lot     *)
(* that escaped a stale write is the sum of its movements and is open      *)
(* exactly while it holds stock (_apply_quantity_change).                  *)
THEOREM LedgerCorrect ==
    LedgerSpec => [](LedgerTypeOK /\ BalancedUnlessOverwritten /\ OpenIffStocked)
<1>1. LedgerSpec => []LedgerInv
    BY LedgerInitInv, LedgerNextInv, PTL DEF LedgerSpec
<1>2. LedgerInv => LedgerTypeOK /\ BalancedUnlessOverwritten /\ OpenIffStocked
    BY DEF LedgerInv
<1> QED BY <1>1, <1>2, PTL

-----------------------------------------------------------------------------
(* One request at a time *)

OneRequest == \A v, w \in Workers : v = w

SerialInv == LedgerInv /\ stale = {} /\ overwritten = {}

LEMMA SerialNextInv ==
    ASSUME OneRequest, SerialInv, [LedgerNext]_ledgerVars
    PROVE  SerialInv'
<1>1. LedgerInv'
    BY LedgerNextInv DEF SerialInv
<1>2. stale' = {} /\ overwritten' = {}
    <2>1. ASSUME NEW w \in Workers, PostMovements(w)
          PROVE  stale' = {} /\ overwritten' = {}
        <3>1. Workers \ {w} = {}
            BY DEF OneRequest
        <3> QED BY <2>1, <3>1 DEF PostMovements, SerialInv
    <2>2. CASE LedgerNext
        BY <2>1, <2>2 DEF LedgerNext, ManualRequest, SerialInv, Adjust, Waste, Buffer, CommitMovements,
                          Rollback, lotVars
    <2>3. CASE UNCHANGED ledgerVars
        BY <2>3 DEF ledgerVars, SerialInv
    <2> QED BY <2>2, <2>3
<1> QED BY <1>1, <1>2 DEF SerialInv

(* With requests one at a time the movement sums are the balances, the     *)
(* claim of migration 041.                                                 *)
THEOREM SerialLedgerExact ==
    ASSUME OneRequest
    PROVE  LedgerSpec => []LedgerExact
<1>1. LedgerInit => SerialInv
    BY LedgerInitInv DEF SerialInv, LedgerInit
<1>2. SerialInv => LedgerExact
    BY DEF SerialInv, LedgerInv, BalancedUnlessOverwritten, LedgerExact
<1>3. SerialInv /\ [LedgerNext]_ledgerVars => SerialInv'
    BY SerialNextInv
<1> QED BY <1>1, <1>2, <1>3, PTL DEF LedgerSpec

(* A commit of the only request in flight is one atomic posting. *)
LEMMA CommitPosts ==
    ASSUME SerialInv, NEW w \in Workers, PostMovements(w)
    PROVE  Stock!Post(LotsOf(w), qty')
<1> DEFINE S == LotsOf(w)
<1> USE DEF SerialInv, LedgerInv
<1>1. \A l \in S : /\ l \in Lots /\ l \in present /\ active[l]
                   /\ seen[w][l] = qty[l]
                   /\ seen[w][l] + change[w][l] \in Quantities
    BY DEF LotsOf, BuffersCurrent
<1>2. \A l \in S : qty[l] > 0
    BY <1>1 DEF OpenIffStocked
<1>3. S \subseteq present
    BY <1>1
<1>4. \A l \in S : qty'[l] >= 0
    BY <1>1, LedgerAssumption DEF PostMovements, Quantities
<1>5. qty' = [l \in Lots |-> IF l \in S THEN qty'[l] ELSE qty[l]]
    BY <1>1 DEF PostMovements
<1>6. \A l \in Lots : posted'[l] = posted[l] + (qty'[l] - qty[l])
    <2> TAKE l \in Lots
    <2>1. /\ qty[l] \in Int /\ posted[l] \in Int /\ change[w][l] \in Int
        BY LedgerAssumption DEF LedgerTypeOK, Quantities
    <2>2. CASE l \in S
        <3>1. qty'[l] = qty[l] + change[w][l]
            BY <1>1, <2>2 DEF PostMovements
        <3>2. posted'[l] = posted[l] + change[w][l]
            BY <2>2 DEF PostMovements
        <3> QED BY <2>1, <3>1, <3>2
    <2>3. CASE l \notin S
        <3>1. qty'[l] = qty[l] /\ posted'[l] = posted[l]
            BY <2>3 DEF PostMovements
        <3> QED BY <2>1, <3>1
    <2> QED BY <2>2, <2>3
<1>7. posted' = [l \in Lots |-> posted[l] + (qty'[l] - qty[l])]
    BY <1>6 DEF PostMovements
<1> QED BY <1>2, <1>3, <1>4, <1>5, <1>7 DEF PostMovements, Stock!Post

(* The ledger implements the atomic stock when requests do not overlap:    *)
(* no posting reaches a drained lot and no movement is lost.               *)
THEOREM SerialRefinesStock ==
    ASSUME OneRequest
    PROVE  LedgerSpec => StockRefined
<1>1. LedgerInit => SerialInv
    BY LedgerInitInv DEF SerialInv, LedgerInit
<1>2. SerialInv /\ [LedgerNext]_ledgerVars => SerialInv'
    BY SerialNextInv
<1>3. LedgerInit => Stock!Init
    BY DEF LedgerInit, Stock!Init, Quantities
<1>4. ASSUME SerialInv, SerialInv', [LedgerNext]_ledgerVars
      PROVE  [Stock!Next]_(Stock!vars)
    <2>1. ASSUME NEW w \in Workers, PostMovements(w)
          PROVE  Stock!Next
        <3>1. Stock!Post(LotsOf(w), qty')
            BY <1>4, <2>1, CommitPosts
        <3>2. LotsOf(w) \in SUBSET Lots
            BY DEF LotsOf
        <3>3. qty' \in [Lots -> 0 .. MaxQty]
            BY <1>4 DEF SerialInv, LedgerInv, LedgerTypeOK, Quantities
        <3> QED BY <3>1, <3>2, <3>3 DEF Stock!Next
    <2>2. CASE LedgerNext
        BY <2>1, <2>2 DEF LedgerNext, ManualRequest, Adjust, Waste, CommitMovements, Rollback,
                          lotVars, Stock!vars
    <2>3. CASE UNCHANGED ledgerVars
        BY <2>3 DEF ledgerVars, Stock!vars
    <2> QED BY <1>4, <2>2, <2>3
<1> QED BY <1>1, <1>2, <1>3, <1>4, PTL DEF LedgerSpec, Stock!Spec, StockRefined
=============================================================================
