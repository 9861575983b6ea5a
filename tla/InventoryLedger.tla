--------------------------- MODULE InventoryLedger ---------------------------
(***************************************************************************)
(* The lot ledger of app/services/inventory_movement_service.py: every     *)
(* change of a lot writes the lot's quantity_on_hand and inserts one row   *)
(* of inventory_movements, in one database transaction.                    *)
(*                                                                         *)
(* A request reads the lot with a plain SELECT (READ COMMITTED, no FOR     *)
(* UPDATE), computes the new balance in Python and writes the absolute     *)
(* value back when it flushes.  Requests run in the threads of the server, *)
(* so another request may commit between the read and the write: a request *)
(* is therefore two actions, the read (Adjust, Waste) and the commit       *)
(* (CommitMovements).  A flushed row stays locked until the commit, so     *)
(* flush and commit are one action.                                        *)
(*                                                                         *)
(* A worker's buffer holds at most one pending movement per lot; manual    *)
(* requests fill one lot, the modules that extend this one fill several.   *)
(***************************************************************************)
EXTENDS Integers

CONSTANTS
    Lots,       \* rows of inventory_lots
    Workers,    \* requests that may be in flight at once
    MaxQty      \* bound on balances and movement sums

ASSUME LedgerAssumption == MaxQty \in Nat \ {0}

VARIABLES
    present,      \* lots that exist
    qty,          \* inventory_lots.quantity_on_hand
    active,       \* inventory_lots.is_active
    posted,       \* SUM(inventory_movements.quantity_change) of the lot
    change,       \* per worker and lot, the movement it is about to post (0: none)
    seen,         \* per worker and lot, the quantity_on_hand it has read
    stale,        \* <<worker, lot>>: the row changed after that worker read it
    overwritten   \* history: lots on which a stale read was written back

lotVars    == <<present, qty, active, posted>>
bufferVars == <<change, seen, stale>>
ledgerVars == <<present, qty, active, posted, change, seen, stale, overwritten>>

-----------------------------------------------------------------------------
(* Definitions *)

Quantities == 0 .. MaxQty
Changes    == (-MaxQty .. MaxQty) \ {0}

LotsOf(w) == {l \in Lots : change[w][l] # 0}

(* A request that has buffered nothing is between requests. *)
Unbuffered(w) == LotsOf(w) = {}

(* _apply_quantity_change refuses a negative balance; the upper bounds are *)
(* the model's.                                                            *)
CanApplyUnchecked(l, d) ==      \* mutant: the negative balance is not refused
    /\ qty[l] + d <= MaxQty
    /\ posted[l] + d \in -MaxQty .. MaxQty

CanApply(l, d) ==
    /\ qty[l] + d >= 0
    /\ qty[l] + d <= MaxQty
    /\ posted[l] + d \in -MaxQty .. MaxQty

EmptyRow == [l \in Lots |-> 0]

(* The pending movements b (lot -> change) of worker w, computed from the *)
(* balances that are on hand now.                                         *)
Buffer(w, b) ==
    /\ change' = [change EXCEPT ![w] = b]
    /\ seen' = [seen EXCEPT ![w] = [l \in Lots |-> IF b[l] = 0 THEN 0 ELSE qty[l]]]
    /\ stale' = {p \in stale : p[1] # w}

(* The movements are committed or rolled back. *)
DropBufferNot(w) == UNCHANGED <<change, seen>>      \* mutant: they can be posted again

DropBuffer(w) ==
    /\ change' = [change EXCEPT ![w] = EmptyRow]
    /\ seen' = [seen EXCEPT ![w] = EmptyRow]

-----------------------------------------------------------------------------
(* Requests *)

(* POST /inventory/adjustments: a non-zero change on an active lot. *)
Adjust(w, l, d) ==
    /\ Unbuffered(w)
    /\ d # 0
    /\ l \in present
    /\ active[l]
    /\ CanApply(l, d)
    /\ Buffer(w, [EmptyRow EXCEPT ![l] = d])
    /\ UNCHANGED <<lotVars, overwritten>>

(* POST /inventory/waste: a positive quantity is taken off an active lot. *)
Waste(w, l, n) ==
    /\ Unbuffered(w)
    /\ n > 0
    /\ l \in present
    /\ active[l]
    /\ CanApply(l, -n)
    /\ Buffer(w, [EmptyRow EXCEPT ![l] = -n])
    /\ UNCHANGED <<lotVars, overwritten>>

(* A lot is closed when its new balance is zero. *)
ClosesBelow(b) == b < 0      \* mutant: an empty lot stays open

Closes(b) == b = 0

(* Flush and commit of all buffered movements: the absolute balance       *)
(* computed from the read, the lot closed when that balance is zero (and  *)
(* is_active left alone otherwise), one movement row per lot.             *)
PostMovements(w) ==
    LET S == LotsOf(w) IN
    /\ qty' = [l \in Lots |-> IF l \in S THEN seen[w][l] + change[w][l] ELSE qty[l]]
    /\ active' = [l \in Lots |-> IF l \in S /\ Closes(seen[w][l] + change[w][l])
                                 THEN FALSE ELSE active[l]]
    /\ posted' = [l \in Lots |-> IF l \in S THEN posted[l] + change[w][l] ELSE posted[l]]
    /\ overwritten' = overwritten \cup {l \in S : <<w, l>> \in stale}
    /\ stale' = {p \in stale : p[1] # w}
                  \cup {p \in (Workers \ {w}) \X S : change[p[1]][p[2]] # 0}
    /\ DropBuffer(w)
    /\ UNCHANGED present

CommitMovements(w) ==
    /\ ~Unbuffered(w)
    /\ PostMovements(w)

(* The request fails before its commit and its session is rolled back. *)
Rollback(w) ==
    /\ ~Unbuffered(w)
    /\ DropBuffer(w)
    /\ stale' = {p \in stale : p[1] # w}
    /\ UNCHANGED <<lotVars, overwritten>>

(* Stock that was on hand before the first request, each lot created by a *)
(* receipt movement of its whole quantity.                                *)
LedgerInit ==
    /\ present \in SUBSET Lots
    /\ qty \in [Lots -> Quantities]
    /\ \A l \in Lots : l \in present <=> qty[l] > 0
    /\ active = [l \in Lots |-> l \in present]
    /\ posted = qty
    /\ change = [w \in Workers |-> EmptyRow]
    /\ seen = [w \in Workers |-> EmptyRow]
    /\ stale = {}
    /\ overwritten = {}

ManualRequest(w) ==
    \/ \E l \in Lots, d \in Changes : Adjust(w, l, d)
    \/ \E l \in Lots, n \in 1 .. MaxQty : Waste(w, l, n)
    \/ CommitMovements(w)
    \/ Rollback(w)

LedgerNext == \E w \in Workers : ManualRequest(w)

LedgerSpec == LedgerInit /\ [][LedgerNext]_ledgerVars

-----------------------------------------------------------------------------
(* Properties *)

(* Whatever the requests overlap, every balance is one that             *)
(* _apply_quantity_change accepted: never negative, also on a lot that a  *)
(* stale write hit.                                                       *)
LedgerTypeOK ==
    /\ present \subseteq Lots
    /\ qty \in [Lots -> Quantities]
    /\ active \in [Lots -> BOOLEAN]
    /\ posted \in [Lots -> Int]
    /\ change \in [Workers -> [Lots -> Int]]
    /\ seen \in [Workers -> [Lots -> Int]]
    /\ stale \subseteq Workers \X Lots
    /\ overwritten \subseteq Lots

(* A lot's balance is the sum of its movements unless a request wrote back *)
(* a balance computed from a row that had changed since it was read: the   *)
(* unlocked read of adjust and record_waste is the only way the ledger and *)
(* the lot come apart.                                                     *)
BalancedUnlessOverwritten ==
    \A l \in present \ overwritten : qty[l] = posted[l]

(* Stock is reachable exactly while the lot is open: a lot that no stale   *)
(* write touched is inactive if and only if it is empty, so no quantity is *)
(* stranded on a lot that adjust, waste and FEFO all skip.                 *)
OpenIffStocked ==
    \A l \in present \ overwritten : active[l] <=> qty[l] > 0

(* "Movement sums are the source of truth" (migration 041): every lot      *)
(* balances.  It holds for one request at a time and fails for two.        *)
LedgerExact == \A l \in present : qty[l] = posted[l]

(* One request at a time implements the abstract stock: each commit is one *)
(* atomic posting on open lots, each read and rollback a stutter.          *)
Stock == INSTANCE StockLedger WITH stock <- qty, moved <- posted, opened <- present

StockRefined == Stock!Spec
=============================================================================
