------------------------------ MODULE AddressBook ------------------------------
(***************************************************************************)
(* The saved addresses of one customer, one of which is the default        *)
(* (app/services/client_address_service.py,                                *)
(* app/repositories/customer_address_repository.py).                       *)
(*                                                                         *)
(* clear_default is one UPDATE of the rows it sees when it begins.  It     *)
(* waits for those another request has changed and holds all of them until *)
(* its commit; a row inserted while it waits is not among them.            *)
(***************************************************************************)
EXTENDS Integers, FiniteSets

CONSTANTS
    MaxHomes,     \* bounds the addresses, numbered in the order of creation
    HWorkers      \* requests in flight at once

ASSUME AddressAssumption == MaxHomes \in Nat

VARIABLES
    saved,        \* the addresses there are
    main,         \* those with is_default
    h_made,       \* how many have been created
    h_step,       \* per worker, how far its request has come
    h_home,       \* the address it is about; 0: a new one
    h_main,       \* is_default, as it is to be or, to delete, as it was read
    h_rows,       \* rows found: by the UPDATE, or the heir of the default
    joined,       \* history: addresses added since then
    doubled,      \* history: the default was last set while an address was
                  \* added, or by a deletion of what had been the default
    unset         \* history: the default was given up, or nobody saw it was

h_reqs      == <<h_step, h_home, h_main, h_rows>>
addressVars == <<saved, main, h_made, h_reqs, joined, doubled, unset>>

-----------------------------------------------------------------------------
(* Definitions *)

Homes == 1..MaxHomes

(* remaining[0]: defaults come first, then the newest. *)
FirstOfRest(h, S) ==
    \A g \in S : IF (g \in main) = (h \in main) THEN g <= h ELSE h \in main

(* Rows that another request has written and not committed. *)
LockedRows(w) ==
    {h \in Homes : \E v \in HWorkers \ {w} :
        \/ h_step[v] = "write" /\ h \in h_rows[v]
        \/ h_step[v] = "promote" /\ h = h_home[v]}

HGoto(w, s, h, default, rows) ==
    /\ h_step' = [h_step EXCEPT ![w] = s]
    /\ h_home' = [h_home EXCEPT ![w] = h]
    /\ h_main' = [h_main EXCEPT ![w] = default]
    /\ h_rows' = [h_rows EXCEPT ![w] = rows]
    /\ joined' = [joined EXCEPT ![w] = {}]

HDone(w) == HGoto(w, "idle", 0, FALSE, {})

HBegin(w, s, h, default) ==
    /\ h_step[w] = "idle"
    /\ HGoto(w, s, h, default, {})
    /\ UNCHANGED <<saved, main, h_made, doubled, unset>>

-----------------------------------------------------------------------------
(* Requests *)

(* create_address: the list is read; the first address becomes the default. *)
StartCreate(w, wanted) ==
    LET default == wanted \/ saved = {}
    IN  HBegin(w, IF default THEN "clear" ELSE "write", 0, default)

ChooseUncleared(w, h) ==                     \* mutant: set without clear_default
    h \in saved /\ HBegin(w, "write", h, TRUE)

(* set_default, and update_address with is_default. *)
StartChoose(w, h) == h \in saved /\ HBegin(w, "clear", h, TRUE)

(* clear_default begins; it has to wait for rows that are locked. *)
ClearDefault(w) ==
    /\ h_step[w] = "clear"
    /\ HGoto(w, IF saved \cap LockedRows(w) = {} THEN "write" ELSE "wait",
             h_home[w], TRUE, saved)
    /\ UNCHANGED <<saved, main, h_made, doubled, unset>>

GetRows(w) ==
    /\ h_step[w] = "wait"
    /\ h_rows[w] \cap LockedRows(w) = {}
    /\ h_step' = [h_step EXCEPT ![w] = "write"]
    /\ UNCHANGED <<saved, main, h_made, h_home, h_main, h_rows, joined, doubled, unset>>

(* The commit of create_address. *)
AddHome(w) ==
    LET h == h_made + 1 IN
    /\ h_step[w] = "write" /\ h_home[w] = 0
    /\ h \in Homes
    /\ saved' = saved \cup {h}
    /\ main' = IF h_main[w] THEN (main \ h_rows[w]) \cup {h} ELSE main
    /\ h_made' = h
    /\ h_step' = [h_step EXCEPT ![w] = "idle"]
    /\ h_main' = [h_main EXCEPT ![w] = FALSE]
    /\ h_rows' = [h_rows EXCEPT ![w] = {}]
    /\ joined' = [v \in HWorkers |->
                     IF v # w /\ h_step[v] \in {"wait", "write"} THEN joined[v] \cup {h} ELSE {}]
    /\ doubled' = IF h_main[w] THEN joined[w] # {} ELSE doubled
    /\ unset' = IF h_main[w] THEN FALSE ELSE unset \/ saved = {}
    /\ UNCHANGED h_home

(* The commit of set_default; StaleDataError when the address has gone. *)
ChooseHome(w) ==
    LET h == h_home[w] IN
    /\ h_step[w] = "write" /\ h # 0
    /\ IF h \in saved
       THEN /\ main' = (main \ h_rows[w]) \cup {h}
            /\ doubled' = (joined[w] # {})
            /\ unset' = FALSE
       ELSE UNCHANGED <<main, doubled, unset>>
    /\ HDone(w)
    /\ UNCHANGED <<saved, h_made>>

(* update_address with is_default false. *)
UnsetHome(w, h) ==
    /\ h_step[w] = "idle"
    /\ h \in main \ LockedRows(w)
    /\ main' = main \ {h}
    /\ unset' = TRUE
    /\ UNCHANGED <<saved, h_made, h_reqs, joined, doubled>>

StartDelete(w, h) == h \in saved /\ HBegin(w, "delete", h, h \in main)

(* delete_address: the row goes, if it is still there, and when it was the  *)
(* default another takes its place: set and committed by Promote.           *)
DeleteHome(w) ==
    LET h == h_home[w]
        rest == saved \ {h}
    IN
    /\ h_step[w] = "delete"
    /\ h \notin LockedRows(w)
    /\ IF h_main[w] /\ rest # {}
       THEN /\ \E heir \in rest :
                  FirstOfRest(heir, rest) /\ HGoto(w, "promote", h, heir \in main, {heir})
            /\ UNCHANGED <<saved, main, unset>>
       ELSE /\ saved' = rest
            /\ main' = main \ {h}
            /\ unset' = (unset \/ (h \in main /\ ~h_main[w]))
            /\ HDone(w)
    /\ UNCHANGED <<h_made, doubled>>

(* The heir is written unless it was the default when read; StaleDataError  *)
(* when it has gone.                                                        *)
Promote(w) ==
    LET h == h_home[w] IN
    /\ h_step[w] = "promote"
    /\ IF h_main[w]
       THEN saved' = saved \ {h} /\ main' = main \ {h} /\ UNCHANGED <<doubled, unset>>
       ELSE /\ h_rows[w] \cap LockedRows(w) = {}
            /\ IF h_rows[w] \subseteq saved
               THEN /\ saved' = saved \ {h}
                    /\ main' = (main \ {h}) \cup h_rows[w]
                    /\ doubled' = (doubled \/ h \notin main)
                    /\ unset' = FALSE
               ELSE UNCHANGED <<saved, main, doubled, unset>>
    /\ HDone(w)
    /\ UNCHANGED h_made

(* A process that dies, or a deadlock the database ends. *)
GiveUp(w) ==
    /\ h_step[w] # "idle"
    /\ HDone(w)
    /\ UNCHANGED <<saved, main, h_made, doubled, unset>>

AddressInit ==
    /\ saved = {} /\ main = {} /\ h_made = 0
    /\ h_step = [w \in HWorkers |-> "idle"]
    /\ h_home = [w \in HWorkers |-> 0]
    /\ h_main = [w \in HWorkers |-> FALSE]
    /\ h_rows = [w \in HWorkers |-> {}]
    /\ joined = [w \in HWorkers |-> {}]
    /\ doubled = FALSE /\ unset = FALSE

AddressNext == \E w \in HWorkers :
    \/ \E wanted \in BOOLEAN : StartCreate(w, wanted)
    \/ \E h \in Homes : StartChoose(w, h) \/ UnsetHome(w, h) \/ StartDelete(w, h)
    \/ ClearDefault(w) \/ GetRows(w) \/ AddHome(w) \/ ChooseHome(w)
    \/ DeleteHome(w) \/ Promote(w) \/ GiveUp(w)

AddressSpec == AddressInit /\ [][AddressNext]_addressVars

-----------------------------------------------------------------------------
(* Properties *)

(* Type invariant; every default is a saved address. *)
AddressTypeOK ==
    /\ h_made \in 0..MaxHomes
    /\ saved \subseteq 1..h_made
    /\ main \subseteq saved
    /\ h_step \in [HWorkers -> {"idle", "clear", "wait", "write", "delete", "promote"}]
    /\ h_home \in [HWorkers -> 0..h_made]
    /\ h_main \in [HWorkers -> BOOLEAN]
    /\ h_rows \in [HWorkers -> SUBSET (1..h_made)]
    /\ joined \in [HWorkers -> SUBSET (1..h_made)]
    /\ doubled \in BOOLEAN /\ unset \in BOOLEAN

(* A customer with addresses has one default.  There are two only while the *)
(* one last set was set across the adding of an address or by a deletion    *)
(* whose address was the default only when it was read; none only when it   *)
(* was given up, when there had been two, or when a request did not know    *)
(* that it was the default or the last.                                     *)
DefaultKept ==
    /\ Cardinality(main) > 1 => doubled
    /\ saved # {} /\ main = {} => unset \/ doubled
=============================================================================
