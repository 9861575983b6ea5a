----------------------------- MODULE StockLedger -----------------------------
(***************************************************************************)
(* What the lot ledger promises, with every request atomic: a lot is       *)
(* opened once with a positive quantity, a posting changes open lots only, *)
(* leaves no balance negative and is added to the lot's movements, and a   *)
(* lot that has been drained is closed for good.                           *)
(***************************************************************************)
EXTENDS Integers

CONSTANTS Lots, MaxQty

VARIABLES
    stock,     \* balance of each lot
    moved,     \* sum of each lot's movements
    opened     \* lots that have been received

vars == <<stock, moved, opened>>

Init ==
    /\ opened \in SUBSET Lots
    /\ stock \in [Lots -> 0 .. MaxQty]
    /\ \A l \in Lots : l \in opened <=> stock[l] > 0
    /\ moved = stock

(* Lots of S are received, lot l with b[l]. *)
Receive(S, b) ==
    /\ S \subseteq Lots \ opened
    /\ \A l \in S : b[l] > 0
    /\ opened' = opened \cup S
    /\ stock' = [l \in Lots |-> IF l \in S THEN b[l] ELSE stock[l]]
    /\ moved' = [l \in Lots |-> IF l \in S THEN b[l] ELSE moved[l]]

(* The balances of the lots in S become b, all at once. *)
Post(S, b) ==
    /\ S \subseteq opened
    /\ \A l \in S : stock[l] > 0 /\ b[l] >= 0
    /\ stock' = [l \in Lots |-> IF l \in S THEN b[l] ELSE stock[l]]
    /\ moved' = [l \in Lots |-> moved[l] + (stock'[l] - stock[l])]
    /\ UNCHANGED opened

Next ==
    \E S \in SUBSET Lots, b \in [Lots -> 0 .. MaxQty] : Receive(S, b) \/ Post(S, b)

Spec == Init /\ [][Next]_vars
=============================================================================
