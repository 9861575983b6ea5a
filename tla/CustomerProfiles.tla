---------------------------- MODULE CustomerProfiles ----------------------------
(***************************************************************************)
(* The customer profiles behind one e-mail address: guest profiles made by *)
(* checkouts, profiles made by administrators, and the one linked to the   *)
(* account (app/services/customer_identity_service.py,                     *)
(* customer_service.py, and the checkout, registration and account         *)
(* requests that call them).                                               *)
(*                                                                         *)
(* Every request of a signed-in customer first resolves the canonical      *)
(* profile and moves the link to it.  customers.user_id is unique and      *)
(* SQLAlchemy flushes the UPDATEs of a transaction in the order of ids, so *)
(* the link can only move to a profile with a later id: before the other   *)
(* one is cleared, the index refuses an earlier one.                       *)
(***************************************************************************)
EXTENDS Integers, FiniteSets

CONSTANTS
    Profiles,      \* ids of profiles, ordered; each used once
    NoProfile,
    CWorkers,      \* requests in flight at once
    MaxOrders      \* bounds the orders of a profile

ASSUME ProfileAssumption ==
    /\ Profiles \subseteq Nat
    /\ IsFiniteSet(Profiles)
    /\ NoProfile \in Nat \ Profiles
    /\ MaxOrders \in Nat

VARIABLES
    account,      \* whether the address has a user
    made,         \* when a profile was made, a number; 0: not yet
    mail,         \* profiles that have the address
    linked,       \* the profile whose user_id is the user, or NoProfile
    orders,       \* how many orders a profile has
    c_step,       \* per worker, how far its request has come
    c_read,       \* what it read: account, linked, and the profile it chose
    unsettled     \* history: an administrator changed profiles or orders, or a
                  \* request committed after what it read had changed

profileVars == <<account, made, mail, linked, orders, c_step, c_read, unsettled>>

-----------------------------------------------------------------------------
(* Definitions *)

(* A new profile gets a random id. *)
Unmade == {p \in Profiles : made[p] = 0}

Clock == Cardinality(Profiles \ Unmade) + 1

(* _pick_canonical_customer: most orders, then the linked one, then the     *)
(* newest.  Without a user it is _pick_canonical_customer_by_email.         *)
AsGood(p, q) ==
    \/ orders[p] > orders[q]
    \/ orders[p] = orders[q] /\ (p = linked \/ (q # linked /\ made[p] >= made[q]))

Canonical(P) == CHOOSE p \in P : \A q \in P : AsGood(p, q)

Candidates == (mail \cup {linked}) \ {NoProfile}

(* ensure_customer_for_user: the profile it returns, NoProfile for a new    *)
(* one; resolve_customer_for_checkout_email when there is no user.          *)
Owner ==
    IF mail \subseteq {linked} /\ linked # NoProfile THEN linked
    ELSE IF Candidates = {} THEN NoProfile
    ELSE Canonical(Candidates)

(* The flush sets user_id of an earlier id before it clears the later one.  *)
LinkRefused == linked # NoProfile /\ Owner < linked

LockedOut == account /\ LinkRefused

NoRead == [account |-> FALSE, linked |-> NoProfile, owner |-> NoProfile]

Reading == [account |-> account, linked |-> linked, owner |-> Owner]

(* Whether user_id is written: an attribute set to the value it was loaded  *)
(* with is not.                                                             *)
Moves(r) == r.account /\ (r.owner # r.linked \/ r.owner = NoProfile)

CGoto(w, s, r) ==
    /\ c_step' = [c_step EXCEPT ![w] = s]
    /\ c_read' = [c_read EXCEPT ![w] = r]

(* A profile p made or taken over, linked when l, with n orders more. *)
Unsaved(p, l, n) ==      \* mutant: a profile just made is not added
    /\ made' = made
    /\ mail' = mail \cup {p}
    /\ linked' = IF l THEN p ELSE linked
    /\ orders' = [orders EXCEPT ![p] = @ + n]

Settle(p, l, n) ==
    /\ made' = [made EXCEPT ![p] = IF @ = 0 THEN Clock ELSE @]
    /\ mail' = mail \cup {p}
    /\ linked' = IF l THEN p ELSE linked
    /\ orders' = [orders EXCEPT ![p] = @ + n]

(* The profiles a request may end up with, given the one it chose. *)
AlwaysNew(p) == Unmade      \* mutant: a profile found is not used

ProfileFor(p) == IF p = NoProfile THEN Unmade ELSE {p}

-----------------------------------------------------------------------------
(* Registration and the requests of a signed-in customer *)

(* register *)
Register ==
    /\ ~account
    /\ account' = TRUE
    /\ \E p \in ProfileFor(Owner) : Settle(p, TRUE, 0)
    /\ UNCHANGED <<c_step, c_read, unsettled>>

(* get_or_create_customer: ensure_customer_for_user reads; with nothing to  *)
(* change, or refused by the index, the request ends without a write.       *)
StartVisit(w) ==
    /\ c_step[w] = "idle"
    /\ account
    /\ ~LockedOut
    /\ Moves(Reading) \/ mail \ {linked} # {}
    /\ CGoto(w, "visit", Reading)
    /\ UNCHANGED <<account, made, mail, linked, orders, unsettled>>

(* Its commit; when the link stays, the address is written back only if the *)
(* rest of the request commits.  The index on user_id refuses a link that   *)
(* another request has moved elsewhere.                                     *)
CompleteVisit(w) ==
    LET r == c_read[w] IN
    /\ c_step[w] = "visit"
    /\ Moves(r) => linked \in {r.linked, r.owner}
    /\ \E p \in ProfileFor(r.owner) : Settle(p, Moves(r), 0)
    /\ unsettled' = (unsettled \/ r # Reading)
    /\ CGoto(w, "idle", NoRead)
    /\ UNCHANGED account

-----------------------------------------------------------------------------
(* Checkout *)

(* _resolve_customer; a customer locked out cannot check out either. *)
StartCheckout(w) ==
    /\ c_step[w] = "idle"
    /\ ~LockedOut
    /\ CGoto(w, "place", Reading)
    /\ UNCHANGED <<account, made, mail, linked, orders, unsettled>>

(* The order, the profile and the link, in one transaction; joins: with     *)
(* create_account, which an account made meanwhile refuses.                 *)
CompleteCheckout(w, joins) ==
    LET r == c_read[w]
        l == joins \/ Moves(r)
    IN
    /\ c_step[w] = "place"
    /\ joins => ~account /\ ~r.account
    /\ Moves(r) => linked \in {r.linked, r.owner}
    /\ \E p \in ProfileFor(r.owner) :
          orders[p] < MaxOrders /\ Settle(p, l, 1)
    /\ account' = (account \/ joins)
    /\ unsettled' = (unsettled \/ r # Reading)
    /\ CGoto(w, "idle", NoRead)

(* A request that is refused changes nothing. *)
DropRequest(w) ==
    /\ c_step[w] # "idle"
    /\ CGoto(w, "idle", NoRead)
    /\ UNCHANGED <<account, made, mail, linked, orders, unsettled>>

-----------------------------------------------------------------------------
(* Administrators *)

(* CustomerService.create, update: the address and the link of a profile. *)
EditProfile(p, m, l) ==
    /\ l => account /\ linked \in {NoProfile, p}
    /\ made' = [made EXCEPT ![p] = IF @ = 0 THEN Clock ELSE @]
    /\ mail' = IF m THEN mail \cup {p} ELSE mail \ {p}
    /\ linked' = IF l THEN p ELSE linked
    /\ unsettled' = TRUE
    /\ UNCHANGED <<account, orders, c_step, c_read>>

(* OrderService.create and delete *)
SetOrders(p, n) ==
    /\ made[p] > 0
    /\ n \in {orders[p] - 1, orders[p] + 1}
    /\ orders' = [orders EXCEPT ![p] = n]
    /\ unsettled' = TRUE
    /\ UNCHANGED <<account, made, mail, linked, c_step, c_read>>

ProfileInit ==
    /\ account = FALSE
    /\ made = [p \in Profiles |-> 0]
    /\ mail = {}
    /\ linked = NoProfile
    /\ orders = [p \in Profiles |-> 0]
    /\ c_step = [w \in CWorkers |-> "idle"]
    /\ c_read = [w \in CWorkers |-> NoRead]
    /\ unsettled = FALSE

ProfileNext ==
    \/ Register
    \/ \E w \in CWorkers :
          \/ StartVisit(w) \/ CompleteVisit(w)
          \/ StartCheckout(w) \/ DropRequest(w)
          \/ \E joins \in BOOLEAN : CompleteCheckout(w, joins)
    \/ \E p \in Profiles :
          \/ \E m, l \in BOOLEAN : EditProfile(p, m, l)
          \/ \E n \in 0..MaxOrders : SetOrders(p, n)

ProfileSpec == ProfileInit /\ [][ProfileNext]_profileVars

-----------------------------------------------------------------------------
(* Properties *)

ProfileTypeOK ==
    /\ account \in BOOLEAN
    /\ made \in [Profiles -> 0..Cardinality(Profiles)]
    /\ mail \subseteq Profiles \ Unmade
    /\ linked \in (Profiles \ Unmade) \cup {NoProfile}
    /\ orders \in [Profiles -> 0..MaxOrders]
    /\ c_step \in [CWorkers -> {"idle", "visit", "place"}]
    /\ c_read \in [CWorkers -> [account : BOOLEAN, linked : Profiles \cup {NoProfile},
                                owner : Profiles \cup {NoProfile}]]
    /\ unsettled \in BOOLEAN

(* Registering, signing in and checking out, one after the other and in any *)
(* order, never leave a customer with a link that cannot be moved to the    *)
(* canonical profile, which would refuse every request of the account       *)
(* (ensure_customer_for_user): only an administrator's change of profiles   *)
(* or orders does, or a request that overlapped another one.                *)
AccountUsable == LockedOut => unsettled
=============================================================================
