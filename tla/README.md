# The Cookie Circle API: a TLA+ model

The repository is the backend of a bakery: a website takes orders and online
payments, administrators keep the stock.  It is a FastAPI application over one
PostgreSQL database.  Requests run in the threads of the server, each with its
own database session (`app/database/session.py`); isolation is READ COMMITTED
and, but for one query of the discounts (`FOR UPDATE SKIP LOCKED`, in
`DiscountGrants`), nothing is read `FOR UPDATE`.  What two
overlapping requests do to each other is decided by the order of their SELECTs
and commits and by the constraints of the tables.  That is what this project
models, and what the repository's tests (one request at a time, mostly on mocked
sessions) do not reach.

## Inventory of the system

| component | state | operations | interacts with | hard behaviour | what makes it correct |
|---|---|---|---|---|---|
| Lot ledger (`inventory_movement_service`) | lots with balance and open flag; movements | adjust, record_waste, record_receipt_movement, record_consumption_movement | called by receipts and reviews, in their transaction | read, compute, write back without a lock | a balance is never negative and is the sum of its movements; open exactly while stocked |
| Purchase receipts (`purchase_receipt_service`) | receipt, lines, attachments | create, update, delete, confirm; attachments | creates lots, posts movements | confirm, edit and delete overlap; files are deleted before the commit | posted once; the lots are those of the lines; confirmed receipts stay |
| Consumption reviews (`consumption_proposal_service`) | review (pending, approved, dismissed), links to orders, lines; the consumed mark of orders | refresh, generate, update, approve, dismiss | started by an order's change to delivered; allocates and posts movements | replace, edit, dismiss and approve overlap; several SELECTs in one request | an order is consumed once, belongs to one review, and can be traced to it |
| FEFO allocation (`fefo_allocation_service`) | none | allocate | read by reviews | computed from lots that may change | takes by expiry, never more than is on hand |
| Orders (`order_service`) | order, status, date, number, payment status | create, update, delete | refreshes reviews, evaluates discounts, cascades to payment sessions | a committed status before a failing refresh; deletion and numbering | while none is deleted, the numbers of a day have no gap and the next is free |
| Checkout (`customer_checkout_service`) | order, discount grant, payment session | checkout | two transactions; grants; sessions | a crash between the transactions; equal numbers | an online order has a session; a grant is used once |
| Payment sessions (`webxpay_service`, `routers/payments.py`) | session status, gateway reference | create_session, open page, return callback | the gateway, through the customer's browser | late, repeated, lost and reordered answers; expiry; a page opened twice | session and order agree; completed by an approved charge of its own; end states stay |
| Discount grants (`discount_*`, `customer_discount_*`) | grants (active, used, expired, revoked), overrides, rules | evaluate, use, revoke, override, manual grant | checkout, orders | the only row locks of the code, mixed with unlocked readers | the grant a checkout computes with stays its own; one grant discounts one order and is settled then; every request that waits for a lock ends |
| Session tokens (`auth_service`) | refresh tokens, token version | login, refresh, logout, logout-all, password change, reset | every authenticated request | rotation races, logout-all against a refresh in flight | rotation leaves one live token; what logout-all found is over for good |
| Receipt attachments (`purchase_receipt_service`, object store) | rows of attachments; files | upload, presigned upload and registration, removal, deletion of the receipt | the client puts files itself; the store is called inside the transaction | the file goes before the commit; the limit is checked on a list read earlier; two rows on one file | a missing file was deleted for a row; the limit is exceeded only by requests in flight |
| Delivery schedule (`customer_delivery_date_service`, `delivery_schedule_service`) | cutoff and delivery weekday | date of a website order, of a manual order; change of the weekdays | checkout, order administration, the copy shown to the customer | days counted over the end of the week, the cutoff instant, the server's date before 5:30 | an order joins the batch promised; none overtakes an earlier one |
| Pricing (`order_profitability_service` and helpers) | the amounts and line snapshots of an order | place, edit lines, edit products only, change the area | prices and taxes of the catalogue move meanwhile | a shortcut that recomputes from stored amounts; selections re-used as input | totals are sums of their parts; the shortcut gives what a full calculation would |
| Planning (`production_planning_service`, `purchase_planning_service`, `consumption_demand_service`) | batch of a date, planning rows with a status | open the plan, save a status | orders of the date; the reviews that consume them | two requests create the same batch and rows; every review computes and rounds a demand of its own | a saved status is not lost; consumption is covered by the plan |
| Customer profiles (`customer_identity_service`) | profiles, link to the account | register, visit, checkout, administrator's edit | authentication, checkout | the link moves between rows under a unique constraint | an account stays usable |
| Saved addresses (`client_address_service`) | addresses of a customer, one the default | create, update, set_default, delete | none; the rows of one customer | clearing the default waits for locked rows and misses what is added meanwhile; a deletion goes by the default it read | one default, unless requests crossed or it was given up |
| Catalogue, content, settings, overhead charges, analytics, email, storage of images, middleware | mostly their own rows | sequential reads and writes | read by the above | little | covered by the repository's tests |

PROJECT.json lists each with its status; its hazards name, line by line, what is
hard to test and which property looks at it.

## Modules

| module | models | state and code |
|---|---|---|
| `StockLedger` | what the ledger promises: received once, posted atomically, closed when drained | abstract |
| `InventoryLedger` | the ledger | `qty`, `active` are columns of `inventory_lots`; `posted` is the SUM over `inventory_movements`; `change`, `seen` are what a request has computed and not committed |
| `PurchaseReceipts` | extends the ledger with receipts | `rstatus`, `linesOf`, `lotLine`, `receiptOf` are rows; `op`, `target`, `loaded` the request in flight |
| `ConsumptionReview` | extends the ledger with orders and reviews | `ostatus` ... `need` are rows; `step`, `day`, `held...` the request in flight |
| `InventoryFlow` | receipts and reviews on one ledger | composes the two, one request per worker |
| `PaymentLifecycle` | the documented life of a payment session | abstract |
| `OnlinePayment` | checkout, page, gateway, answer, administrator | `live`, `number`, `payment`, `session`, `reference` are rows; `pages`, `outcome`, `charge_of` the world outside |
| `DiscountGrants` | grants, checkouts, evaluation, revocation, for one customer | `grant`, `used_on`, `holder` are a row and its lock; `d_order`, `discount` columns of orders; `switched` the discounts' switches; `lapsed` the grants past `expires_at`; `d_step`, `d_grant` the request in flight |
| `SessionTokens` | one user's refresh tokens, their expiry, and `token_version` | `token`, `chain`, `issued`, `version` are rows; `t_...` the request in flight; `ended`, `crossed`, `rewound` history |
| `ReceiptAttachments` | attachments of one receipt, its migrated bill and the object store | `receipt`, `asset`, `legacy_bill` are rows, `stored` the bucket, `given` presigned addresses; `a_...` the request in flight; `uploaded`, `torn`, `removed` history |
| `DeliverySchedule` | weekly delivery dates | `today` counts days from a Monday, `clock` is the part of the day; `cutoff`, `delivery` settings; `booked`, `entered` the latest dates given |
| `OrderPricing` | the amounts of one order, in cents | `catalogue`, `taxes` prices, fees and taxes; `lines`, `unit`, `area`, `bill` columns of the order |
| `ProductionDemand` | what the orders of one date need | operators only |
| `PurchasePlanning` | extends it with the plan of the date | `scheduled`, `recipe`, `batch`, `planned` are rows; `p_...` the request in flight |
| `PlannedConsumption` | extends it with what the reviews of the date consume | `progress`, `formula`, `review`, `consumed` are rows; `used`, `approvals`, `edited` history |
| `CustomerProfiles` | the profiles of one address and its account | `made`, `mail`, `linked`, `orders` are columns of customers; `c_...` the request in flight |
| `AddressBook` | the saved addresses of one customer | `saved` are rows, `main` those with `is_default`; `h_...` the request in flight; `joined`, `doubled`, `unset` history |
| `Services` | composes the nine from `DiscountGrants` on | `part` says which is exercised |
| `MC...` | model values | |
| `SumFacts` | lemmas about sums over finite sets | |
| `..._proofs` | theorems: of one stock or payment module each, of delivery dates, amounts, grants, plans and their consumption in `OrderDetails_proofs`, of attachments, addresses, profiles, sessions and the composition in `Services_proofs` | |

A request is one action for each SELECT whose result it relies on later and one
for its commit.  Everything the handler does to the database between them is in
the commit action: the flushed rows are locked until then, so flush and commit
are one step.  The guards of a commit are the constraints the database checks
there (unique columns, foreign keys, an UPDATE that finds no row); what the code
only checked on the rows it had read stays with the read.  `Abandon...` and
`Rollback` stand for a failed check, a constraint violation and a dead process
alike: the transaction is gone.  Variables marked history, and `stale` with
them, record what happened and guard nothing.

Operators whose comment begins with "mutant" are not part of the model: each is a
faulty version of the definition below it, under which the property named in
PROJECT.json fails.

What is abstracted: one tracked item, in one unit, stands for the lines of an
order and a review; quantities are small integers (`Numeric(12,4)` in the code),
all orders of `OnlinePayment` are of one day; `placed` is every order status
but delivered; contacts, prices, notes, activity records, emails, signatures and
form fields are left out.  In an order's update the read of the order and its commit are one
step, so two edits of one order do not overlap; the first SELECT of a
refresh and the one that generate repeats are one.  The return callback is a coroutine that does not
await between its SELECT and its commit, so with one server process it is one
action; pages, which run in threads, still interleave with it.

The nine services of `Services` share no row that two of them write, so the
behaviours of the program restricted to one of them are the behaviours of its
module.  `Services` therefore runs one at a time beside the others at rest; that
one leaves the rows of the others alone is what `ServicesSafe` proves.  `DiscountGrants`
has one customer and one rule; the statement that takes a grant and the statements
that write it are steps of their own, because a lock lies between them.  An
UPDATE of a locked row is not enabled, the SELECT with SKIP LOCKED passes over it.
A refresh of a review reads the date's orders (`Refresh`); when none is left it looks for a
pending review (`FindEmptied`) and deletes what it found (`CommitDrop`), each a step of its own.
`SessionTokens` lets a login or refresh overlap the end of all sessions, reads the token and
the user's version in the separate SELECTs of the code, and
records in `crossed` and `rewound` where the code gives no protection.  In `DeliverySchedule` a
day has three parts: before 5:30, when the server, on UTC, still has the date of the day before; the
day; and what follows the cutoff time.  In `OrderPricing`
amounts are whole cents rounded half to even where the code rounds, and packaging is charged by line
or by cookie; `ProductionDemand`
has one ingredient and one box.  In `PlannedConsumption` requests run one after another, since how
reviews overlap is the subject of `ConsumptionReview`; every review computes and rounds the demand of
its own orders, by the recipe of the moment.  `CustomerProfiles` orders rows by creation; what a visit
or checkout reads is one step and its commit another.
In `AddressBook` the rows that an UPDATE has found and locked are another request's to wait for
until its commit; an UPDATE that waited goes on with the rows it had found.

## Runs

| run | instance | shows |
|---|---|---|
| `Receipts_overlap` | 2 workers, 1 receipt, 3 lines, 2 lots | everything a receipt and the ledger keep under overlap |
| `Receipts_lost_update` (violated) | the same | two adjustments lose a quantity |
| `Review_overlap` | 2 workers, 2 orders, 2 reviews, 1 lot | what reviews keep under overlap |
| `Review_double_approve` (violated) | the same, balances up to 2 | one review approved twice |
| `Review_refresh_refused` (violated) | 1 worker | a refresh refused by its own review |
| `Flow_serial` | 1 worker, 2 dates, 2 reviews, 2 lots, 1 receipt | the full promises, one request at a time; `StockLedger` is implemented |
| `Payment_overlap` | 2 workers, 2 orders, 2 transactions, one answered without a reference, deletion | what payments keep under overlap |
| `Payment_serial` | 1 worker, no deletion | own charge, `PaymentLifecycle` is implemented |
| `Payment_number_reuse` (violated) | 1 worker, deletion | an answer pays another order |
| `Payment_approval_ignored` (violated) | 1 worker, no deletion | an approved charge is answered as a duplicate |
| `Services_overlap` | 2 workers, 2 to 3 rows of each kind | what grants, tokens, attachments, dates, amounts, plans, their consumption, profiles and addresses keep; requests on grants end |
| `Pricing_selections` (violated) | one order, no overlap | an edit of the products multiplies the cookies of the packs |

The runs come in pairs.  The overlap runs state what the constraints of the
database really protect; the serial runs state what the code promises and keeps
only while requests do not overlap.  `ConfirmedMatchesStock`, `ConfirmedKept`,
`ConsumedOnce`, `PendingUnconsumed`, `ConsumedTraced`, `OnePendingPerDate`,
`LedgerExact` and the two refinements are of the second kind:
with two workers each of them fails.  `CompletedByOwnCharge` depends on something
else: it holds under overlap (`OwnCharge`) and fails once orders are deleted.  Of these failures
the runs above keep those with a sentence of the repository against them;
the others are in the hazards.  `EndedForGood`, `OneLivePerLogin`, `FileLossAccounted`,
`AccountUsable` and `DefaultKept` hold under overlap because each names the overlaps that break
what one would wish for: a refresh in flight while all sessions end, two
refreshes of one token, a deletion that failed after its call of the store, an
administrator's edit of profiles or a request that committed over what changed since its read, an address added while the default is set.  Nothing else breaks it.

### Bounds

- Two workers: every failure found needs two requests, one between the read and
  the commit of the other.  The theorems hold for any number.
- One receipt with three lines: an edit needs lines before and after, and a
  third to be replaced again.  Two lots: a second confirmation needs a second lot.
- Two orders and two reviews: one review is replaced by the next while
  an order is in each; in `Flow_serial` two dates, so that an order can be moved between them.
- `MaxQty` bounds balances and sums: 1 or 2 suffice for a lot to be drained, left
  at a rest, or overwritten.  It restricts adjustments only upwards.
- `MaxPages` 2 and two transactions: a second charge for one order, or one
  charge for each of two.
- `Services_overlap`: two grants and two orders, so that a grant is taken while
  another is issued and an order of each is placed and removed; three tokens of two logins, so that a
  login is refreshed twice and another stands by, and `MaxVersion` 2, so that a version is
  written back over one raised meanwhile; two rows and two files with a limit of one
  (`MAX_ATTACHMENTS_PER_RECEIPT` is ten), so that the limit is met, exceeded and a file shared; 20 days, two
  turns of the week and six days, for all 49 pairs of weekdays and the three parts of a day; two catalogues
  whose percentages round and whose fees are by line in one and by cookie in the other, a percentage and
  a fixed discount that exceeds a small order, packs of one to four; two orders with and without charged
  packaging and two recipes, one of them empty and the other with a yield that makes a review of two
  cookies round up; two profiles, the least that can compete for a
  link, with up to two orders each; three addresses: the one deleted, the one chosen meanwhile and a
  newer one that is the heir.
- Deadlock is not checked: identifiers are used once, so every instance stops
  when they are used up.
- Symmetry is used for workers, orders, reviews, lines, dates and lots
  that nothing tells apart; lots are not symmetric where FEFO ranks them.

### Fairness

`GrantFairness` is the only fairness, and `RequestsEnd` the only property that needs
it.  A request on grants that has begun goes on (weak fairness of `GrantProceed`,
which includes dying: the session is closed and the lock released); a revocation or override that
waits for a row gets it after those ahead of it (strong fairness of `TakeBack`, as
PostgreSQL queues the waiters of a row lock).  Nothing is assumed about requests
that begin.  Everywhere else none is assumed and no liveness is claimed: the code
has no scheduler, no retry and no background job, a request may die at any point
and an answer of the gateway may never come.  All other properties, the
refinements included, are safety properties.

## Proofs

TLAPS proves, for every value of the constants:

- `LedgerCorrect`: types, `BalancedUnlessOverwritten`, `OpenIffStocked`.  The
  invariant `LedgerInv` adds `BuffersCurrent`: what a worker has read of a lot
  is its present balance unless the pair is in `stale`, and the balance it will
  write is not negative.  Without it the commit, which writes a value computed
  earlier, could not be related to the row it hits.
- `SerialLedgerExact`, `SerialRefinesStock`: assuming one worker, nothing is ever
  stale, so nothing is overwritten, and each commit is one `Post` of the abstract ledger.
- `SerialReceipts`: assuming one worker, the lots of a confirmed receipt are those of its
  lines and it stays.  A request that commits still sees the receipt as it read it, so an edit or a
  deletion cannot hit one that was confirmed meanwhile.
- `ReceiptPostedOnce`, `ReceiptsKeepLedger`: `RowInv` says which lines belong to
  which receipt and task; its heart is `ConfirmedBlocks`, that whoever still
  holds a read of a confirmed receipt will fail at the insert of its lots.
  Confirming is never guarded by the status, so this is why a receipt is
  posted once.
- `PaymentSafe`: payments and references under any overlap.  An approved answer may carry
  no reference: it completes the session and stores none, so the property speaks of the
  transaction that completed the session (`paid_by`) and of the reference where there is one.  The
  invariant adds that both are of an answered transaction that named the
  order's number, so two live orders cannot share one.
- `NumbersNext`: while no order is deleted, the numbers are 1, 2, 3 and so on.  `NumbersCounted`
  adds that nobody has counted beyond the next number; a checkout that has counted an
  earlier one is refused by the unique index.
- `OwnCharge`: assuming no removable order, whatever overlaps: a number then
  belongs to one order for ever (`NumbersLive`).
- `SerialCompletedTerminal`, `SerialLifecycle`: assuming one worker as well, a page
  is out only for a redirected session (`SerialPages`) and what the one request has read still holds (`SerialRequest`).
- `ReviewSafe`, `ReviewsKeepLedger`: links of reviews under any overlap.  The
  invariant adds `HeldCurrent`: a request that works on a review has read every
  order the review still lists, because after its insert a review only loses
  links.  That is why dismiss, which removes the links it read, leaves none, and
  approve, which marks the orders it read, misses none.
- `ReviewTypes`: the shape of rows and requests under any overlap; what a review needs is a sum
  over its orders, and no such sum is negative.
- `FefoExact`: an allocation without shortfall gives exactly the quantity asked for, takes from a lot
  no more than it holds, and from a later one only when the earlier ones are emptied.  Of a
  set of lots with all that expire before them the latest is taken away (`TakeSums`): what
  the others give is the quantity or all they hold, and the latest gives the rest.
- `ApprovalTakesNeed`: however requests overlap, an approval posts exactly the need it read,
  although the lots may have changed since it allocated: `AllocatedExact` says that what an
  approval has buffered sums to the need it holds until it commits.  The balances may then be wrong
  (`stale`), the movements are not.
- `SerialConsumption`: assuming one worker, what a request has read still holds
  when it commits (`HeldExact`), so demand is applied once, consumed orders can
  be traced, and a date has one pending review.
- `GrantsSettled`: grants under any overlap, with `HeldActive`, that the grant a checkout or a
  preview has computed with stays active and its own until that request ends: a revocation that
  found it active waits for the lock.  The invariant adds `Unused`, that what is active or
  expired is on no order.
- `SessionsSafe`: tokens under any overlap.  The invariant relates what a request has
  found or read to the rows at its commit, and adds `VersionsBelow`: unless a
  version was written back, none has been issued above the present one.
- `DatesKept` (`OrderDetails_proofs`): for all days and hours, by the remainder of days by seven.
  `PromisedBatch` is stated for a cutoff no later in the week than the delivery, as the default
  is; with another choice, such as a cutoff on Friday and delivery on Tuesday, the code does not
  keep it.  Website orders never overtake each other for any choice; orders by hand only for
  such a cutoff, and only then never get the day before when they are entered before 5:30.
- `AmountsRight` (`OrderDetails_proofs`): for all prices, fee modes, taxes, areas and discounts the
  shortcut for a delivery fee arrives at every amount, the gross included, that charging
  the lines anew would give (`AmountsAsAnew`).
- `FlowSafe`, `FlowApprovals` (`InventoryFlow_proofs`): receipts and reviews on one ledger keep
  under any overlap what each keeps alone.  A worker is busy with one kind of request; a step of
  one service leaves the rows of the other alone, and the two invariants meet in `LedgerInv`.
- `FlowSerial`, `FlowRefinesStock`: assuming one worker, so do their serial promises, and every
  commit of either service is a step of `StockLedger` or a stutter.
- `PlanKept` (`OrderDetails_proofs`): planning rows under any overlap by `StatusRead`, that what a
  request has read of an item is still so unless a status was saved.
- `PlanCovers` (`OrderDetails_proofs`): `CoveredByPlan` for any orders, contents, recipe and yield, in
  however many reviews.  `UseInv` adds that a pending review proposes what its orders need
  (`ProposedRight`) and that what was used is what the consumed orders need, but for half a unit a
  review (`UsedRight`); the rest is that a sum over fewer orders is no larger.  Rounding can
  therefore take the consumption above the plan, and the property says by how much: two reviews of two
  cookies each, at 100 for three, consume 66.6667 twice where the plan has 133.3333.
- `FilesKept` (`Services_proofs`): attachments under any overlap.  It needs `LossesAccounted`, which
  follows a deletion file by file: what is missing now was dropped by a request that still holds the
  row, by a failed one, with another row, or as the receipt's bill.
- `ProfilesUsable`: an account stays usable until an administrator or an overlap unsettles it.
  `OneProfile` is why: until then an address has one profile at most and an account is linked to
  it, so there is no other to move the link to.  It rests on `CanonicalExists`, that the ranking
  of `_pick_canonical_customer` has a first.
- `DefaultsKept`: addresses under any overlap.  `FoundOrJoined` says that a
  request about to set the default has found every address but those added since, `DeletionAlone`
  that an address under deletion is in no other request's hands, `HeirRead` what a
  deletion has read of the heir; the last needs both others: whoever
  sets the default beside a deletion has not found that address, so it was added meanwhile.
- `ServicesSafe`: the nine services keep in the composition what they keep
  alone, their types included: `PartsInv` is the conjunction of their invariants, and a step of one
  leaves the variables of the others unchanged.

Sums are `SumFunctionOnSet` of the community modules, a recursive function on sets.  `SumFacts`
derives what the proofs need of it (a sum unfolds at any element, is additive, monotone and
independent of the order) without induction over an operator: of the sets for which a fact
failed one would be smallest, and taking an element from it gives a smaller one.

The assumptions on constants are the named ASSUMEs of the modules, which TLC
evaluates, and `OneRequest` and `NothingRemoved` where a theorem states them.  That orders, lots
and profiles are finite sets says that tables have finitely many rows; it is what makes their
sums and their canonical element exist.

Only model-checked: `RequestsEnd`, which is liveness under fairness, and the six runs that
expect a violation (a counterexample needs no proof).  Every other property of a run is stated by a
theorem.  `FefoExact`, `ApprovalTakesNeed` and `FlowApprovals` are proved and not
run: their sums are over the lots, of which the runs have one or two.

## Not modelled

- The catalogue, reviews and memories, FAQ, promotions, overhead charges and the
  rules of discounts: services that validate and write one row per request, with
  no state between requests.  Their models would restate their assignments.
- Analytics, dashboards, the activity log and listings: reads.
- Schemas, enums, routers that only pass a call on, email templates, messages, scripts that seed
  or import data, migrations, image storage: no state of their own.  These are most of the
  repository's lines, so the share of lines the project maps stays small.
- Rate limits and other middleware: counters in memory, outside the business state.
- Tokens of verification and reset mails, passwords, signatures: a reset appears as the
  end of all sessions it causes.
- Setting `bill_asset_id` by an update of a receipt (`purchase_receipt_service.py:156-159`): a receipt
  has the bill it was migrated with or none.
- Within a visit or checkout of `CustomerProfiles` the SELECTs are one step.
- The minimum date of catering orders, several lines of a kind in an order, margins, readiness
  of the stock for a plan, the status of a production batch, deletion of customers.
- Errors answered after a commit: a status of planning saved for an item outside the plan is
  committed and answered with 404; an evaluation refused by the index leaves the session
  unusable, so the checkout answers an error and creates no payment session (the
  state of `Abandon` after `PlaceOrder` in `OnlinePayment`).

Branches the code cannot reach are
left out, too: `create_session` for an order that has a session (its only caller
has just inserted the order) and the tampered state, which nothing sets.
The status expired is reachable only within a request that rolls it back
(`get_active_session` flushes it, `initiate_webxpay_payment` returns without a commit).

Known disagreements that have no run of their own: an edit or delete that read a
draft commits after its confirmation; completed is overwritten with redirected by
a page that read the session earlier; an approved answer without a reference completes the session and
stores none; a page is not single-use; a failed payment
cannot be retried, since no route creates a second session; an order taken back
from delivered stays in its pending review; deleting any order but the last of
the day makes the next numbers collide and checkouts fail.

## Plan

1. Done: the ledger, receipts, reviews, their composition, payments.
2. Done: grants, tokens, attachments, delivery dates, amounts, planning, profiles, their
   composition, and their proofs; the proofs of the serial promises of receipts, of
   `InventoryFlow`, of FEFO allocation, planning and profiles.
3. Open: settings with their defaults and overlapping saves, the one review per order,
   the rate limiter's window; checkout as one module
   over numbering, grants, profiles and payment.
