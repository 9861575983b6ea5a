---------------------------- MODULE PurchasePlanning ----------------------------
(***************************************************************************)
(* The purchase plan of one delivery date: the items its orders need, and  *)
(* the planning status of each, kept in the production batch of the date   *)
(* (app/services/purchase_planning_service.py,                             *)
(* production_batch_service.py, production_planning_service.py).           *)
(*                                                                         *)
(* Opening the plan writes: it makes the batch and a row for each item     *)
(* needed.  Reads and inserts of overlapping requests interleave; two      *)
(* unique constraints refuse the second insert.                            *)
(***************************************************************************)
EXTENDS ProductionDemand

CONSTANTS
    PWorkers,     \* requests in flight at once
    Flour,        \* an ingredient
    Box,          \* a packaging item, one for each pack
    NoItem

ASSUME PlanningAssumption ==
    /\ Flour # Box
    /\ NoItem \notin {Flour, Box}

VARIABLES
    scheduled,    \* status of an order
    recipe,       \* the current recipe of the cookie
    batch,        \* whether the date has a production batch
    planned,      \* purchase_status of an item; none: no row
    asked,        \* history: statuses administrators saved for an item
    p_step,       \* per worker, how far its request has come
    p_batch,      \* whether it found the batch
    p_rows,       \* the items it found no row for, to be inserted
    p_item,       \* the item whose status it saves
    p_seen        \* the status it read of the item

p_reqs       == <<p_step, p_batch, p_rows, p_item, p_seen>>
planningVars == <<scheduled, recipe, batch, planned, asked, p_reqs>>

-----------------------------------------------------------------------------
(* Definitions *)

PlanItems == {Flour, Box}

(* Nothing tells ORDERED from PLANNED. *)
PlanStatuses == {"not_planned", "planned"}

(* What the plan lists. *)
PlannedQty ==
    LET O == Production(scheduled)
    IN  [i \in PlanItems |-> IF i = Flour THEN FlourFor(O, recipe) ELSE BoxesFor(O)]

Needed == {i \in PlanItems : PlannedQty[i] > 0}

PGoto(w, s, b, rows) ==
    /\ p_step' = [p_step EXCEPT ![w] = s]
    /\ p_batch' = [p_batch EXCEPT ![w] = b]
    /\ p_rows' = [p_rows EXCEPT ![w] = rows]

Saving(w, i, seen) ==
    /\ p_item' = [p_item EXCEPT ![w] = i]
    /\ p_seen' = [p_seen EXCEPT ![w] = seen]

PDone(w) == PGoto(w, "idle", FALSE, {}) /\ Saving(w, NoItem, "none")

Missing == {i \in PlanItems : planned[i] = "none"}

(* A batch or a row it found absent and somebody else inserted meanwhile:   *)
(* IntegrityError, and the transaction is rolled back.                      *)
BatchOnly(w) == batch /\ ~p_batch[w]      \* mutant: an upsert that overwrites

Refused(w) == (batch /\ ~p_batch[w]) \/ p_rows[w] \ Missing # {}

-----------------------------------------------------------------------------
(* Opening the plan *)

(* get_purchase_plan, get_purchase_plan_lines, export_csv: the batch.       *)
StartPlan(w) ==
    /\ p_step[w] = "idle"
    /\ PGoto(w, "plan", batch, {})
    /\ UNCHANGED <<scheduled, recipe, batch, planned, asked, p_item, p_seen>>

(* _build_plan_lines: the demand, and which items have a row.  A cookie     *)
(* without recipe is refused; without demand nothing is committed, the new  *)
(* batch included.                                                          *)
ReadRows(w) ==
    /\ p_step[w] = "plan"
    /\ IF NoRecipe(Production(scheduled), recipe) \/ Needed = {}
       THEN PDone(w)
       ELSE /\ PGoto(w, "upsert", p_batch[w], Needed \cap Missing)
            /\ UNCHANGED <<p_item, p_seen>>
    /\ UNCHANGED <<scheduled, recipe, batch, planned, asked>>

(* upsert_purchase_item for what was needed, and the commit. *)
WriteRows(w) ==
    /\ p_step[w] = "upsert"
    /\ IF Refused(w)
       THEN UNCHANGED <<batch, planned>>
       ELSE /\ batch' = TRUE
            /\ planned' = [i \in PlanItems |->
                               IF i \in p_rows[w] THEN "not_planned"
                                                  ELSE planned[i]]
    /\ PDone(w)
    /\ UNCHANGED <<scheduled, recipe, asked>>

-----------------------------------------------------------------------------
(* Saving a status *)

(* update_purchase_status *)
StartSave(w, i) ==
    /\ p_step[w] = "idle"
    /\ PGoto(w, "save", batch, {i} \cap Missing)
    /\ Saving(w, i, planned[i])
    /\ UNCHANGED <<scheduled, recipe, batch, planned, asked>>

(* A status equal to the one read is not written.  The status is committed  *)
(* first; the plan is opened next, to answer with its line.  No line: the   *)
(* answer is 404, the status stays.                                         *)
Save(w, s) ==
    LET i == p_item[w] IN
    /\ p_step[w] = "save"
    /\ IF Refused(w)
       THEN PDone(w) /\ UNCHANGED <<batch, planned, asked>>
       ELSE /\ batch' = TRUE
            /\ planned' = [planned EXCEPT ![i] = IF s = p_seen[w] THEN @ ELSE s]
            /\ asked' = [asked EXCEPT ![i] = @ \cup {s}]
            /\ PGoto(w, "plan", TRUE, {})
            /\ Saving(w, NoItem, "none")
    /\ UNCHANGED <<scheduled, recipe>>

(* ProductionBatchService.create by /planning-batch *)
CreateBatch ==
    /\ ~batch
    /\ batch' = TRUE
    /\ UNCHANGED <<scheduled, recipe, planned, asked, p_reqs>>

-----------------------------------------------------------------------------
(* Orders and recipes change under the plan *)

SetScheduled(o, s) ==
    /\ scheduled[o] # s
    /\ scheduled' = [scheduled EXCEPT ![o] = s]
    /\ UNCHANGED <<recipe, batch, planned, asked, p_reqs>>

EditRecipe(r) ==
    /\ r # recipe
    /\ recipe' = r
    /\ UNCHANGED <<scheduled, batch, planned, asked, p_reqs>>

PlanningInit ==
    /\ scheduled = [o \in POrders |-> "excluded"]
    /\ recipe \in Recipes
    /\ batch = FALSE
    /\ planned = [i \in PlanItems |-> "none"]
    /\ asked = [i \in PlanItems |-> {}]
    /\ p_step = [w \in PWorkers |-> "idle"]
    /\ p_batch = [w \in PWorkers |-> FALSE]
    /\ p_rows = [w \in PWorkers |-> {}]
    /\ p_item = [w \in PWorkers |-> NoItem]
    /\ p_seen = [w \in PWorkers |-> "none"]

PlanningNext ==
    \/ \E w \in PWorkers :
          \/ StartPlan(w) \/ ReadRows(w) \/ WriteRows(w)
          \/ \E i \in PlanItems : StartSave(w, i)
          \/ \E s \in PlanStatuses : Save(w, s)
    \/ CreateBatch
    \/ \E o \in POrders, s \in OrderStatuses : SetScheduled(o, s)
    \/ \E r \in Recipes : EditRecipe(r)

PlanningSpec == PlanningInit /\ [][PlanningNext]_planningVars

-----------------------------------------------------------------------------
(* Properties *)

(* Type invariant; an item has a planning row only in a batch.              *)
PlanningTypeOK ==
    /\ scheduled \in [POrders -> OrderStatuses]
    /\ recipe \in Recipes
    /\ batch \in BOOLEAN
    /\ planned \in [PlanItems -> PlanStatuses \cup {"none"}]
    /\ asked \in [PlanItems -> SUBSET PlanStatuses]
    /\ p_step \in [PWorkers -> {"idle", "plan", "upsert", "save"}]
    /\ p_batch \in [PWorkers -> BOOLEAN]
    /\ p_rows \in [PWorkers -> SUBSET PlanItems]
    /\ p_item \in [PWorkers -> PlanItems \cup {NoItem}]
    /\ p_seen \in [PWorkers -> PlanStatuses \cup {"none"}]
    /\ (Missing # PlanItems => batch)

(* A status an administrator saved is not lost: whatever plans are opened   *)
(* and statuses saved at the same time, an item for which a status has been *)
(* saved shows a status somebody saved (upsert_purchase_item keeps a row it *)
(* finds; uq_batch_purchase_item_batch_product stops the one it missed).    *)
StatusKept == \A i \in PlanItems : asked[i] # {} => planned[i] \in asked[i]

=============================================================================
