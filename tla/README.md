# ZARO: verification

ZARO is the back office and storefront of a furniture workshop: a FastAPI service on PostgreSQL
(`apps/zaro-api`), a Next.js front end (`apps/zaro-web`) and a typed client (`packages/zaro-sdk`).
This directory holds TLA+ models of the parts whose correctness depends on what several requests
do at once, the TLC configurations that check them on small instances, and TLAPS proofs of their
main properties for every value of the constants.

Paths below are relative to `src/`; `services/`, `endpoints/`, `models/` and `schemas/` stand for the
directories of that name in `apps/zaro-api/app/` (`endpoints/` is `api/v1/endpoints/`), and
`admin-auth.ts` for `apps/zaro-web/src/lib/admin-auth.ts`.

How to run it, in this directory: `tlc -config X.cfg M` for each run of the table below, `tlapm M.tla`
for each module named `*Proofs`. `PROJECT.json` holds the same project for tools: the components,
the runs, for every definition the lines of source it stands for, for every checked property a
mutation of the code that breaks it, and the hazards.

1. [Inventory of the system](#1-inventory-of-the-system)
2. [How the code runs, and how that is modelled](#2-how-the-code-runs-and-how-that-is-modelled)
3. [Modules](#3-modules)
4. [Runs](#4-runs)
5. [Proofs](#5-proofs)
6. [Where the code and its texts part](#6-where-the-code-and-its-texts-part)
7. [What is not modelled](#7-what-is-not-modelled)
8. [Plan](#8-plan)

## 1. Inventory of the system

| Component | State it keeps | Operations | Talks to | What is hard | What makes it correct |
|---|---|---|---|---|---|
| Stock (`services/inventory_service.py`) | `stock_levels` (on hand, reserved), append-only `stock_movements` with unique idempotency keys | eight movement types through one `apply_movement` | called by production and by eight endpoints | key looked up before the row is locked; retries; a savepoint around the insert | the ledger explains the balances; one key, one effect; answers tell the truth |
| Production (`services/production_service.py`) | production orders (status, worker, inspector), reservation rows with four counters | create, plan, reserve, start, pause, resume, use material, quality check, complete, cancel | stock; orders | several row locks per request; an order's status read without its lock; keys replayed across rows | material reserved equals material held; finished orders hold nothing; two people make and judge; transitions are final |
| Quotes and orders (`services/quotes_service.py`, `orders_service.py`) | quotes with validity, orders with payments | draft, send, view, accept, reject, expire, cancel; deposits, waiver, cancellation; production order | custom requests; production | a customer's view races every decision; payments in parts | a quote and its order agree; books add up; an order is decided once |
| Authentication (`services/auth_service.py`) | sessions with hashed refresh credentials, reset tokens | sign in, refresh, sign out, revoke, change and reset the password | the admin pages; e-mail | nothing is locked; reuse detection; session limit | a refreshed credential is dead; a token sets one password |
| Admin session client (`admin-auth.ts`) | access token and CSRF value in memory; cookies | sign in, cold load, calls with one retry, upload, sign out | authentication over HTTP | shared refresh, lost answers, reloads | one refresh at a time, nobody forgotten, nobody sent away from a live session |
| References (`services/references.py`) | none: numbers are found by `SELECT max(...)` | next number, retry on collision | requests, quotes, orders, production, products | readers of one maximum collide; text order | no gap, no duplicate, refusal only when beaten |
| Custom requests, customers (`services/custom_requests_service.py`, `customers_service.py`) | requests, customers with e-mail and phone | public submission, entering and editing customers, decisions | references; quotes | match, insert and number are separate steps of one transaction | filed under a customer who shares a contact |
| Products (`services/catalog_service.py`, `endpoints/catalog_admin.py`) | products, variants, price events | create, publish, archive, price, add a variant | audit log | decisions on unlocked readings; one lock for variants | the trail explains the price; numbers without a gap |
| Product images (`endpoints/files.py`, `ProductMediaManager.tsx`) | rows with a place, files in a store | upload, edit, move, delete | file storage | a file and a row are not one transaction; a move is two requests | each image has both row and file; the order persists |
| Categories, slugs, translations (`services/references.py`, `endpoints/catalog_admin.py`, `catalog_public.py`) | names, slugs and codes of categories and products; localizations | create, rename; insert, write and delete a translation | products; visitors | names looked up without a lock; a rename that writes only what differs | slugs derive from their names and are unique; a name is shown with its own description |
| Materials and prices (`services/materials_service.py`) | materials, dated price rows | create, edit, add a price | stock, costs, audit log | dates in the past; a price read before another is added | prices are traced by their events, and what an event names was in force |
| Money, cost engine (`core/money.py`, `core/cost_engine.py`) | none | rounding, totals, discounts, deposits, margins | quotes, orders, costs | each amount is rounded by itself, half up | totals add up; a deposit is at most the total; a derived price covers the cost |
| Rate limiter (`core/rate_limit.py`) | counters in Redis, a fallback in memory, a breaker | hit, look without counting | sign-in, other public endpoints | outage and recovery; a count read long before the failure is counted | a bound on what passes in a window, and on wrong passwords |
| Audit log (`services/audit.py`) | audit rows | record | every handler | none of its own: same transaction | every change has its row |
| Permissions (`core/rbac.py`, `api/deps.py`) | none | check | every handler | none | roles may do what the table says |
| Middleware, configuration, start-up | none | — | — | none | — |
| E-mail, Telegram | none | send | password reset | sent before the commit | — |
| Dashboard, health, places | none | reads | — | none | — |
| Storefront, other admin pages | forms; the draft of the product page | type, save, reload | API | every field is saved, answers replace the draft in any order | a save undoes only what its page could not have seen |
| SDK, migrations | none; the schema | — | — | — | the schema has the constraints the models rely on |

Interaction: the API keeps all its state in PostgreSQL and every request is one transaction, so
components meet in tables and row locks and not in memory. Production calls the stock service inside
its own transaction; accepting a quote makes an order; a confirmed order permits one production
order. The admin client meets authentication only through cookies and tokens. `PROJECT.json`
lists each component with its files, its status and the reason where it is left out, and the hazards
with the line at which each one bites.

## 2. How the code runs, and how that is modelled

* **One request, one transaction.** A handler calls `db.commit()` itself when it has succeeded; `get_db` (`db/session.py:36-39`) rolls
  back on any error and closes the session. A request is as many actions as it needs for others to act in between: everything from
  the row lock that protects what it reads to its commit is *one* action; an unlocked read that is used
  later is an action of its own, and the model remembers what was read (`phase`, `job`, `reading`, `tx`,
  `task`).
* **READ COMMITTED.** A statement sees what was committed before it. A locking read waits and then
  sees the latest row, *unless the ORM session holds the instance already*: SQLAlchemy does
  not refresh it. Two endpoints load a row before the service locks it. This is modelled where it
  occurs (`PlanPreloads`, `ViewPreloads`; section 6).
* **What the ORM writes** are the columns that differ from what it loaded (`Products!Flush`,
  `Media!WriteRow`, `Names!Rename`, `Translations!Column`, `ProductForm!Written`).
* **Unique indexes** refuse the second of two inserts, and make it wait if the first is not yet committed
  (`Requests!InsertNumber`, `Inventory!ReplayRaced`).
* **A crash, a lost connection or an error** is `Abort`/`Lose`/`Fail`: the transaction leaves nothing. A
  retry is another request with the same contents. Files are not part of a transaction, and `Media` keeps
  what a failure leaves behind.
* **Time** appears only as what has expired (`overdue`, `late`, `expired`), set by actions that may
  happen at any time; as the number of the current window in `RateLimiter`, and as the day in `Materials`.

## 3. Modules

`M` implements `A` below means that `M` has a refinement mapping to `A` (`INSTANCE ... WITH`), that TLC
checks `A!Spec` as a property of `M`, and that TLAPS proves it.

### Stock: StockRules, Inventory, IdempotentStock

`StockRules` has the arithmetic: what each of the eight movement types adds to the two balances, and which
balances the service accepts. It is shared by `Inventory` and `Production`.

`Inventory` is `apply_movement` under concurrent requests. `level` is `stock_levels`, `ledger[m]` the movements
of material `m` with the balances their audit event names, `call[r]` the contents and key of request `r`,
`phase[r]` how far it has got. `PassChecks` is the unlocked part (validation, active material, look-up of the
key); `Record`, `ReplayRaced`, `ConflictRaced` and `RefuseLocked` are what can happen from the row lock
to the commit, in the code's order: balances are tested *before* the insert may find the key taken.
`SetActive` switches a material; `Lose` is a request that dies.

`IdempotentStock` is the promise: each request is served in one step, its key either new, or that of the same
operation (replayed), or that of another (conflict). `Inventory` implements it (`ImplementsAtomic`).

### Production: ProductionTables, Production, ProductionLifecycle, StockLocks

`ProductionTables` is the transition table of `models/enums.py` and the statuses of rows.

`Production` has one action per service operation, on `status`, `worker`, `inspector` of the orders, `mr`, the
reservation rows with their counters, and the stock (`level`, `active`, `moved`: movements recorded under
clients' keys). Operations that lock all they read are one action (start, pause, resume, complete, cancel,
quality decision). The others are split: `PreloadForPlan`/`PlanPreloaded` (the plan endpoint's unlocked read),
`ReadForReserve`/`ReserveMaterials` and `ReadForQualityCheck`/`StartQualityCheck` (rows read under the order's lock,
not theirs), `AdmitUse`/`HoldRow`/`CommitUse` (a use reads the order's status without a lock, then locks its
row). Staff who post movements directly are `StaffMovement`. `PlanPreloads = FALSE` is the service as its docstring
describes it, `TRUE` is the endpoint as it is.

`ProductionLifecycle` is the promise to the workshop: orders move along the table and never leave a terminal
status; material is held from the reservation and no longer than production; the inspector is not the worker.
`Production` implements it in every behaviour in which no plan is written over an order that has moved on (`PlansInTime`); TLC
checks it with `PlanPreloads = FALSE`, where there is none. With the endpoint as it is, `ProductionKeepsBooks` says what its plans do to the
books: an order that is reserved again leaves more reserved than its rows hold, never less.

`StockLocks` looks at what `Production` makes atomic: the order in which transactions take row locks, and who waits for whom. `Wants` is the
next lock of a transaction, read from its job (the order, rows and material of its request) and from what it holds. A reservation locks its order, reads
which stock levels there are (`Look`: `found`), locks those by material id (`ToLock`), inserts the ones it did not find in
the order of its rows (`ToInsert`), and then writes its rows. A cancellation takes its rows, and their stock in the same order; a use its row and then its stock.
An insert waits, under the unique index on the material, for whoever has written the level and not for one who has only locked it (`WaitsFor`), and it
fails with an unhandled violation if the level has been committed since (`ComesLate`). Amounts and statuses are left open, so that a reservation may meet
rows that a use holds, as it does after a plan that came too late. PostgreSQL aborts a member of a circle of waiting transactions (`AbortVictim`).

### Quotes and orders: Sales, Deal

`Sales`: `quote` and `order` by quote, `overdue`, `produced`, and `reading[v]`, the quote a customer's view request
has loaded without a lock (`OpenQuote`) and will write (`RecordView`). All other operations lock first and are one
action. Amounts are constants (`Total`, `Deposit`), assumed to be what `Pricing` shows: a deposit is at most the total.
`ViewPreloads = FALSE` is the service on its own, `TRUE` the endpoint as it is. `ViewInTime` is a step that writes no view over a decision.

`Deal` is the promise: offered, agreed, then won or lost, once and for all, and paid only while agreed. `Sales`
implements it in every behaviour in which all views are in time; TLC checks it with `ViewPreloads = FALSE`, where they are.

### Authentication: AuthSessions, CredentialFamilies, RateLimiter, AdminAuth

`AuthSessions` has the sessions, reset tokens and password of one user. Nothing in `auth_service.py` locks, so
sign-in, refresh, revocation and the request of a reset token are two steps each, and bulk updates one. The password
is there as history: `outdated` marks a live session that goes back to a replaced password.

`CredentialFamilies` is the promise about refresh credentials: signing in begins a family; a refresh ends the credential it was
given and issues one of its family, only for one that was live when it was presented (`presented`); otherwise credentials
only end. It does not promise that a credential has one successor, since two refreshes at once both succeed. `AuthSessions`
implements it with requests that overlap (`Fate`, `Presented`), the server of `AdminAuth` with one at a time: what the client is checked
against is what the service keeps. The second is proved (`ServerKeepsFamilies`) and not a
property of a run. That a refreshed credential is not live while a successor of it is (`PredecessorsDead`) is a theorem on its own; after two refreshes at once
two successors may live.

`RateLimiter` follows the counters of one e-mail through `login`: an attempt arrives (`Arrive`, counted against its short window),
looks at the failures of the long one (`CheckFailures`), verifies, and counts a wrong password (`CountFailure`). `shared` is
Redis, `windows[p]` the memory of process `p` with its pruning. A `Hit` is answered by Redis or, when Redis fails before or
after counting or the breaker is open, by the memory; the model lets that happen at any hit, which covers every length of
the breaker. `Restart` loses a process with its memory and its attempts, `Tick` begins the next window. Window numbers are used
again after `Horizon`, so that TLC has finitely many states. `MCAuthSessions` checks it beside `AuthSessions`; they share no state.

`AdminAuth` is the client. A page's code runs between awaits without interruption; `task[t]` is a call at the await
where it waits, `net` the requests under way (sent with the cookies of that moment, answered, arrived), `jar` the
cookies, `memory` what the page knows, `server` the credentials. `Reload` forgets the memory and orphans what is
under way; `Lose` loses a request or an answer. `MayLoseCredential` says whether the answer that carries a new
credential may be lost.

### Custom requests: References, Requests, Registry

`References` has the numbers as the database finds them: `TextBefore` is the order of the padded texts, `NextNumber`
one more than their maximum.

`Requests` is one transaction per handler: a submission looks by e-mail, then by phone, adds a customer if there
is none, takes a number, inserts it (waiting for whoever has inserted the same), collides and tries again in a
savepoint, commits. Staff enter and edit customers and decide on requests, each reading first and writing later. A request
keeps the contacts it was sent with (`given`, the snapshot of `models/custom_request.py:32-34`). An edit changes the fields it is sent
(`Correction`); an e-mail can only be replaced, a phone may also be blanked: `CustomerUpdate` accepts `""` (`schemas/customers.py:27`), `update_customer`
writes it (`services/customers_service.py:77-79`), and the look-up takes it as not given (`:33`), so that a blank phone is recorded as none. The code does not look again
at a customer that a submission has found: one who is blocked or edited meanwhile keeps the request, which `FiledUnderMatch` excepts.

`Registry` is the promise of the desk, in one step per change: a request gets the first free number, and with it a customer who is
recorded and shares a contact or who is recorded by the same step; an e-mail belongs to one customer; an e-mail is replaced and never
removed (a phone may be); a status is written only if the table leads to it from one the request had when that was decided. `Requests` implements it
(`ImplementsRegistry`); of its handlers' state the mapping keeps only `Decided`, the decisions that are taken and not yet written.

### Catalog: Products, Media, Names, Translations, ProductForm, Materials, Pricing

`Products` has the rows, the price trail and the variants' numbers; `job[r]` is the unlocked reading of a handler
(`reading`) or the number it has counted under the product's lock (`adding`).

`Media` has the rows, the files, the page and its tasks. A task goes from the button to the list that is loaded
afterwards; a move is two tasks.

`Names` has the names, slugs and codes of products, or the names and slugs of categories (`table`). A slug is a sequence of words, because
a numbered one ("oak" and 2) may be the slug of another name ("Oak 2"): this is what `unique_slug` must get right. A
creation proposes slug and code (`Propose`), inserts them or collides and proposes again; a rename reads the row, looks the slug up and
writes the columns that differ. `torn` remembers that the row had changed since it was read.

`Translations` is one translation: found without a lock, then inserted, written column by column, or deleted. `Shown` is what a
visitor reads; `mixed` remembers that writes overlapped.

`ProductForm` is the details form of the product page: every field is sent, every answer with the product replaces the draft, a PATCH and
a GET of one page may cross. Texts are trimmed before they are sent (`Trim`), so that a field of blanks is saved as an empty one. `commits` counts versions, so that a draft knows what it shows (`shows`), what its own page saved (`own`) and
whether a reading was under way then (`crossed`).

`Materials` has materials, dated prices (`history`), and the audit events in the order in which they were committed: the day and price of the new row, and the
price that was read as being in force. A price may be dated to any day.

`Pricing` has the operators of money: amounts with a ceiling, half-up rounding, the totals of a quote, and the cost estimate
with its selling price and margin. Quantities are decimals in `Scale` parts of one. `sheet` is the answer to a request.

`MCCatalog` checks them in one run: they share nothing, and `part` says which of them a behaviour is about.

## 4. Runs

Every property of a passing run has a mutant in `PROJECT.json`: a plausible error in one definition, for which the
same run finds the property violated. The type invariants of the modules with proofs are theorems (section 5) and not repeated in
runs.

| Run | Configuration | Distinct states | Shows |
|---|---|---|---|
| `inventory` | `Inventory.cfg` | 351 416 | `LedgerExplainsLevel`, `AnswersTrue`, `OneAuthor`, `ImplementsAtomic` |
| `production` | `Production.cfg` | 166 578 | `ReservationSound`, `SegregationOfDuties`, `ReservedBacked`, `CountersMatchMovements`, `CancelPossible`, `ImplementsLifecycle` |
| `production_as_is` | `ProductionAsIs.cfg` | 20 912 | `ReadsStillTrue`, `FinishedOrdersHoldNothing`, `ProductionKeepsBooks` |
| `production_stale_plan` | `ProductionStalePlan.cfg` | — | *violates* `TerminalIsFinal` |
| `stock_locks` | `StockLocks.cfg` | 184 030 | `OnlyKnownCircles` |
| `sales` | `Sales.cfg` | 35 409 | `QuoteFollowsOrder`, `RefinesDeal` |
| `sales_as_is` | `SalesAsIs.cfg` | 37 932 | `Books`, `OrdersStand` |
| `sales_two_decisions` | `SalesTwoDecisions.cfg` | — | *violates* `OneDecisionWins` |
| `auth` | `Auth.cfg` | 1 016 651 | `TokenUsedOnce`, `KeptOneAtATime`, `AdmittedWithinLimit`, `GuessesBounded`, `ImplementsFamilies` |
| `admin_auth` | `AdminAuth.cfg` | 720 637 | `ReuseNeverDetected`, `NoLostWakeup`, `MemoryFollowsJar`, `SignOutEndsSession`, `RefusedOnlyIfOver` |
| `requests` | `Requests.cfg` | 1 558 654 | `Gapless`, `RefusedOnlyByRivals`, `FiledUnderMatch`, `ImplementsRegistry` |
| `catalog` | `Catalog.cfg` | 906 626 | `TrailExplainsPrice`, `VariantsAreNumbered`, `FilesMatchRows`, `OrderPersists`, `NamesWhole`, `PricesAreTraced`, `PricesAddUp`, `SavesUndoOnlyUnseen` |

Bounds, and why they are enough for what is asked:

* `inventory`: three requests (an original, its retry and a rival), two materials (a key used for another one), three
  keys, every movement type with one unit, an adjustment down and a quantity the service refuses. With three
  requests there are at most three movements, which reaches a balance that the first leaves and the second needs
  and the third finds gone.
* `production`: two orders that want up to two units of one material with two on hand, so that they compete, one of them in two rows that
  may fit alone and not together; two requests in flight; four uses, one of each kind, each with its key. Staff post
  nothing here, since a movement of staff does not say whose reserved stock it takes.
* `production_as_is`: one order with two rows of the same material (each fits alone, not together), keys used for two
  rows or with quantity 0, and staff who buy, write off and release what is reserved; `MaxOnHand = 2` bounds what they buy.
* `stock_locks`: three transactions, two orders with the same two materials in opposite order, and every choice of the stock levels that exist: the smallest instance in which
  two orders can cross, in stock that exists or that they create, and a third waits for both. Deadlock is not checked, since the model ends when the
  transactions have.
* `sales`: a quote with a deposit in parts, one without a deposit and one whose deposit is its total; one viewer, whose view is one
  step. `sales_as_is` has two viewers with stale readings and two quotes.
* `auth`: three sessions with `Limit = 2`, so that a sign-in drops one and a credential has a successor and that another; two tokens;
  two requests at once. For the limiter: two processes and two attempts at once, limits of 1, two short windows in a long one and two long
  ones before numbers repeat, an arrival in each short window, one restart: enough for a failure that is counted in Redis, in either
  memory, after the guard of the other attempt has looked, or never.
* `admin_auth`: one page, two calls at once, two credentials (one rotation) and four CSRF values; the credential answer
  is not lost (`MayLoseCredential = FALSE`). With several pages or a lost answer reuse *is* detected; see section 6.
* `requests`: two handlers, one e-mail and one phone (each may be absent), two attempts, two customers, two numbers, decisions on
  the first request (`Target`: to review or to cancel it, which excludes or permits the other) and edits of the first customer. With `Few = TRUE` staff enter a customer with
  one contact, change one field at a time, and edit customers or decide on requests, which have no field in common, and not both; the theorems hold without. `Limit = 10` keeps the numbers within the padding;
  what happens beyond it is a theorem.
* `catalog`: one product (products do not read each other), three requests, prices 0 to 2, three price events, three variants; two
  images and two tasks, since every hazard of the page is about two tasks. Names: two rows, two editors, two attempts, and three names
  of which two have the same slug and the third that of its numbered form. Translations: three requests (found, deleted, made anew), three rows, two texts. Form: one
  page, two fields, two saves, by it or by somebody else, and three values of which one is trimmed to another. Materials: two clerks, three days, three prices of two values. Prices: amounts and percentages at and
  around their limits (0, 1, the ceiling; 0, 1, 33, 50, 99, 100, 200 per cent), quantities in quarters, up to two lines of a quote and one of each
  kind of an estimate.

Permutations of requests, users, slots, viewers, tasks, sessions and contacts that occur only by identity are declared
symmetric; rows, materials, credentials and numbers that are chosen or ordered are not.

Fairness: none is assumed, and no liveness is claimed. Nothing in the code promises that something happens eventually: clients may stop at any point,
failed requests are not retried by the service, and that a transaction which waits is served or aborted is PostgreSQL's doing and not the code's.

## 5. Proofs

All proofs hold for sets of orders, requests, keys and so on of any size, under the named assumptions of the
modules (types of the constants) and those in the statement of the theorem. An invariant that is not inductive is
proved from a stronger one, named in the table.

| Module | Theorems | Argument |
|---|---|---|
| `InventoryProofs` | `TypeCorrect`, `KeysAreUnique`, `LedgerIsTheBalance`, `AnswersAreTrue`, `EveryMovementHasOneAuthor`, `InventoryImplementsAtomic` | Only `Record` writes, and appends one entry to one ledger (`WriteEffect`, `LedgerGrows`). Keys are unique because `Record` requires the key free at the write, not only at the look-up; with that, an applied request is the author of the one entry under its key, and every step of a request maps to one of the atomic service or to nothing. |
| `ProductionProofs` | `TypeCorrect`, `ReservationsAreSound`, `LocksAreExclusive`, `ReadsStayTrue`, `FinishedOrdersAreEmpty`, `DutiesAreSegregated`, `ProductionImplementsLifecycle`, `TerminalStaysFinal` | One inductive invariant `Inv`, the conjunction of the checked ones and `LocksExclusive`. No conjunct is inductive alone: a finished order stays empty because no request still holds one of its rows with something to take, which is `ReadsStillTrue`, which needs exclusive locks. The refinement is proved of every behaviour of the code as it is in which no plan is written over an order that has moved on (`PlansInTime`), from `PlanInv`: then rows stay pending until their order is reserved. `TerminalStaysFinal`: without the unlocked read of the plan endpoint (`~PlanPreloads`) all plans are in time (`PlansAreInTime`), so that this read is the only cause of the violation in section 6. |
| | `BooksAreKept` | Of every material, what is reserved beyond what its rows hold changes by no step of production, but grows when an order is reserved again or a raced use is counted again. Each action changes the sum of the rows by what it adds to the balance: what all rows of an order hold (reserve, cancel) or one row (a use), and what the row was when it was read is still true under its lock. Nothing is assumed of plans, keys or staff. |
| | `CountersAgree` | `CountersInv`: a use adds to one counter of one row, and one movement to the ones recorded; no movement that a request is about to record under a free key is there. |
| | `OrdersCanBeCancelled` | `CancelPossible` says that the guard of `CancelProduction` (`CancelAllowed`) holds for every order that is not finished, if nobody has locked it or its rows and the materials it holds are active. It is proved of every state in which enough is reserved for what all rows hold (`Covered`; by `BooksAreKept` only staff can take that away): then what the rows of one order hold is covered too (`GivenBackCovered`), so that the stock service accepts every release. |
| `StockLocksProofs` | `CirclesHaveCauses` | `LocksInv`: locks are exclusive; a reservation has locked the levels it found up to the next one, by material id, before it inserts any, and inserts all before it writes a row; a cancellation has its rows up to the next one before any stock. Suppose a circle without the causes that `OnlyKnownCircles` names. Nobody in it waits for a row of a use or an insert of another reservation, so that whoever waits with locks in hand wants a lock above all those it holds: orders below rows, rows below stock, each by its number (`CancelsInOrder`, `ReservesInOrder`). The one that wants the highest lock would wait for one that wants a higher one. |
| `SalesProofs` | `TypeCorrect`, `BooksAndProduction`, `OrdersStandAlways`, `QuotesFollowOrders`, `OneDecisionOfSeveral`, `SalesImplementDeal` | `OrderInv`: books, an order that is not made has no money, production only of confirmed orders; it does not mention quotes and so survives stale views. That quotes follow orders, and that each step of `Sales` is one of `Deal`, is proved of every behaviour of the code as it is in which no view is written over a decision (`ViewInTime`). `OneDecisionOfSeveral`: with a view that decides on the row it has locked (`~ViewPreloads`) all are in time (`LockedViews`), so that its unlocked read is the only cause of the violation in section 6. |
| `AuthProofs` | `SessionsTypeCorrect`, `ResetTokenOnce`, `RotationRetires`, `LimitKeptOneAtATime`, `SessionsImplementFamilies` | A credential that is not live never lives again, since only unused rows are created: so a predecessor of a live credential stays dead and a used token stays used, whatever a request has read. `KeptOneAtATime` needs that a request that was alone from its beginning still finds what it read. For the refinement, a step either issues one session (`IssueMaps`) or only ends some (`WaningMaps`), and a request that becomes idle settles what it presented (`IdleSettles`). |
| | `LimiterTypeCorrect`, `GuessesStayBounded`, `AdmittedStaysWithin` | The guard: failures counted in Redis, plus wrong passwords in flight, plus those lost in restarts, are all there are, and at most one per attempt is in flight past the limit. What a window lets through (`AdmitInv`): every hit that passed was given a number up to the limit by Redis or by a process in one of its lives, and no two the same number by the same. |
| `AdminAuthProofs` | `WakeupsAreNotLost`, `ReuseIsNotDetected`, `MemoryIsTheJar`, `SignOutEndsAll`, `RefusedWhenOver`, `ServerKeepsFamilies` | `ClientInv`: types, who waits for which request (`Linked`), credentials are issued before anybody holds them and one of a family is live. On it rests `ReuseInv`: at most one refresh is under way and the page hears it, none is on its way to the server with a rotated credential, and the jar holds one only while the answer with its successor is coming; and `Calm`, for requests that come one after the other: memory, jar and server agree up to the answer that is on its way. |
| `RequestsProofs` | `RequestsTypeCorrect`, `RequestsFiledUnderMatch`, `ReferencesGapless`, `ReferencesRunOut`, `RefusalsHaveRivals`, `RequestsImplementRegistry` | `Inv`: the numbers filed are an initial segment `1..k`, and a number that a handler is about to insert has no gap below it. `People`: customers that handlers have added and not committed are apart, and a handler that matched a customer matched it by a contact that only an edit takes away. `RivalInv`: each collision of a submission is charged to another number filed since it began; needs `MaxNumber < Limit`. `ReferencesRunOut`: nothing is ever filed beyond the first number wider than the padding, because as text it comes before the last one that fits. The refinement needs `People` and `Unfiled` besides: numbers are filed once and in order, and a request that is about to be committed is not there yet; an edit maps to one step although it read the customer long before, since the e-mail it keeps is still nobody else's, and it changes the fields it was sent and no other (`CorrectedRow`). |
| `CatalogProofs` | `ProductsTypeCorrect`, `VariantsNumbered`, `TrailExplains` | `NumbersInv`: numbers are `1..n`, a number being added is `n + 1`, and one request at most is adding to a product. `TrailInv`: a price that a handler has read was shown by the trail, so that writing only what differs from the reading leaves a trail whose last real change is the price. |
| | `PricesAdd` | Rounding is to the nearest unit (`RoundedNearest`), so it keeps whole floors and ceilings (`RoundedKeepsFloor`, `RoundedKeepsCeiling`): a share of at most 100 per cent stays below the total, a price of at least the cost stays above it. This discharges `SalesAssumption` for accepted quotes. |
| | `MaterialsTypeCorrect`, `PriceHistoryTraced`, `FormTypeCorrect`, `SavesKeepSeen`, `TranslationsTypeCorrect`, `TranslationsStayWhole`, `NamesTypeCorrect`, `NamesStayWhole` | Materials: what a clerk has read is what the rows of the first `n` events gave on a day, and neither later events nor later days change those (`SnapshotsStay`, `AddedTraced`). Form: a draft, a call and a reading each show a version, and an untyped field of a draft is that of its version. Translations: a row found with its identity has the contents found, or `mixed` is set at the write. Names: by the pigeonhole principle one of the first `Cardinality(taken) + 1` numbered slugs is free, so that what `unique_slug` returns derives from the name; unique indexes do the rest. |
| | `MediaTypeCorrect`, `FilesStayMatched`, `OrderStays` | Only an upload stores a file, and only the deletion of its row removes it. The order (`OrderInv`): while staff act on what is stored there is an order without two images in one place, `Plan(F)`, that the requests under way will reach in whatever order they are served and answered; their clicks are alone, and a list on its way is the last. |

What the theorems assume beyond the types of the constants:

* `ProductionImplementsLifecycle`, `QuotesFollowOrders` and `SalesImplementDeal` speak of behaviours of the code as it is in which no plan (`PlansInTime`) or view (`ViewInTime`)
  is written too late; `TerminalStaysFinal` and `OneDecisionOfSeveral` assume that the unlocked read is not there, to show that it is the one cause (section 6).
* `OrdersCanBeCancelled` speaks of states in which the reserved stock covers the rows (`Covered`): a movement of staff does not say whose reserved stock it takes.
* `CountersAgree`: `OneRowPerMovement`, since the service takes the second of two rows under one key for a replay (section 6). The instance of its
  run satisfies it.
* The theorems of `AdminAuth` but the first and the last are about one page, as is the run: two tabs share the cookies and not the refresh, so a second one may
  present a rotated credential (section 6). `ReuseIsNotDetected` assumes besides that the answer with a new credential is not lost and that
  the page is not loaded again during a refresh (`~MayLoseCredential`), since the page then holds one that is dead. The others hold whether or not it may be lost: a loss disturbs, and they are about what is
  not disturbed.
* Reservation rows, and the materials and rows of `StockLocks`, are finite sets, as tables are.

Sums and counts are over finite sets. The library's induction theorems take an operator as parameter, which the installed provers cannot instantiate;
the proofs use instead that the numbers are well-founded: a least counterexample is a set whose size has no smaller one (`WFMin`). This is how a sum splits
over two sets, or differs by one summand, for sets of any size.

What stays with TLC:

* `ReservedBacked`, the only property of a passing run without a theorem. What is proved of it is `BooksAreKept`, in which equality is lost by nothing but an order reserved
  again, a use counted again and staff; the run has none of the three.
* What a recursive definition computes for every input: `PricesAdd` says that a total is the sum of its lines and not what a fold over them computes.
* The two properties that the code violates (section 6). What is proved of them is that one unlocked read each is the whole cause: `TerminalStaysFinal` with
  `~PlanPreloads`, `OneDecisionOfSeveral` with `~ViewPreloads`.

## 6. Where the code and its texts part

Two disagreements are runs that TLC ends with a counterexample:

* **A plan on a cancelled order** (`production_stale_plan`). `endpoints/production.py:252` loads the order before
  `plan_production` locks it; the locking read does not refresh the instance, and the transition is validated on
  the old status. "Terminal states (COMPLETED, CANCELLED) map to an empty set" (`models/enums.py:264`)
  does not hold.
* **A view over a decision** (`sales_two_decisions`). `endpoints/quotes.py:145-152` does the same for a customer's view: `viewed`
  is written over `deposit_required`, and the quote can then be rejected or expire while its order lives, against
  "exactly one wins" (`services/quotes_service.py:86-88`). By the same step a quote leaves a terminal state
  (`models/enums.py:175`).

The others were met while modelling. They have no run of their own, the properties are stated so as to
say exactly what the code does keep, and most are noted at their hazards in `PROJECT.json`:

* The loser of a race for the *balance* is refused with 422, not replayed, although it may be a retry of the winner
  (`services/inventory_service.py:222-226`). `docs/ZARO_COMPLETION_AUDIT_REPORT.md:124-126` has the unique index on material and key; the
  code and migration `0006` have it on the key alone, which is what `Inventory` models.
* Reserving is to lock stock "in deterministic order (material_id ASC) to prevent deadlocks" (`services/production_service.py:328-330`). The levels that it does not find it
  inserts in the order of the rows (`:369-377`), under a unique index: two reservations that need two new materials in opposite orders
  wait for each other, and one that comes late fails with an unhandled violation. Cancelling locks stock in the order of its rows
  (`:880`), and can deadlock with a reservation. `OnlyKnownCircles` says that there is no circle without one of these, or without an order reserved again while its material is used
  (theorem `CirclesHaveCauses`).
* One key sent for two rows of one order and material is answered as a replay for the second (`services/production_service.py:158-161`).
* An order with a deactivated material cannot be cancelled (`models/enums.py:268-269` against `services/inventory_service.py:103-110`).
* Cancelling a quote does not look at its validity (`services/quotes_service.py:12-14` against `endpoints/quotes.py:441-443`).
* Two sign-ins at once exceed the session limit (`services/auth_service.py:191`); two refreshes at once issue two
  successors (`:217`); two requests for a reset leave two usable tokens (`:341`).
* Signing out with an expired access token leaves the session live (`admin-auth.ts:267`, `:275-276`). Two tabs share the cookies
  and not the refresh, so the second presents a rotated credential.
* Once a reference is wider than its padding, every later submission is refused (`services/references.py:122`, `:161-162`): theorem `ReferencesRunOut`.
* Staff can enter a phone that a customer already has (`services/customers_service.py:3-4`); with two customers of one
  phone each submission that is matched by it fails. The e-mail of a submission that is matched by phone is not stored. A phone can be removed by sending a blank one
  (`schemas/customers.py:27`, `services/customers_service.py:77-79`), which the look-up takes as not given (`:33`).
* A submission inserts its customer outside the retry and fails with 500 where a number would be tried again.
* A decision on a custom request overwrites one that was committed meanwhile (`services/custom_requests_service.py:13` against `:150`).
* An archived product is put back on sale by a publish that overlaps (`services/catalog_service.py:222`), and that line's "restore via
  update first" has no counterpart, as "Archived products stay read-only" on the admin page has none in the
  API. Price events may name an old price that was not the last one, or a change that was not written.
* The buttons of the image page are enabled again by the first half of a move (`ProductMediaManager.tsx:114`).
* A material's price may be added with a date in the past, so that the price of an earlier day changes (`endpoints/materials.py:142-149`), against
  "historical cost calculations remain reproducible forever" (`services/materials_service.py:5-7`) and "corrections are new rows with later
  effective dates" (`models/material.py:38-39`).
* A slug "stays stable afterwards" (`apps/zaro-web/src/app/admin/categories/page.tsx:130`), but follows every change of the name
  (`services/catalog_service.py:56-58`, `:176-178`). A rename that loses the race for a slug fails with 500, and two at once may leave
  the name of one with the slug of the other; two first translations at once end one with 500 (`endpoints/catalog_admin.py:472-484`).
* A translation into English is stored and never shown (`endpoints/catalog_public.py:98`, `:115`, against `models/localization.py:11-13`, which has
  a row of any locale override the base).
* Product codes beyond 999 of one prefix collide for ever, as other references beyond their padding do (`services/references.py:73-79`).
* Counts of an outage are never merged with those of Redis. A Redis that fails now and then leaves the guard on wrong passwords without
  its bound, since each look in an empty memory reads 0 (`core/rate_limit.py:148-155`); the limit by e-mail still holds. A request is refused
  by the limiter with an exception, so that a test of the returned count against the limit after it (`endpoints/custom_requests.py:94`) never fires.
* The gross margin is rounded half to even (`core/cost_engine.py:310`), all amounts half up.
* On the product page, the answer to a new price, a new variant or a change of the status discards what was typed and not saved (`page.tsx:193`, `:564`, `:573`), and a
  reading that comes after the answer to a save shows the draft from before it, which the next save writes again (`:121`, `:176`).

## 7. What is not modelled

* Components with status `not_modelled` in `PROJECT.json`: they keep no state, or only read, or call outside services, or are the schema.
* Contents: notes, addresses, costs, images' bytes, signed addresses, password hashing, wording of messages and errors. The
  status code of a refusal is only told apart where a property is about it.
* Permissions: every action is one that some role may do. Which one is a table without state.
* The new year, in which references start again at 1 with another prefix: `Requests` is about one year.
* `assign_request`, which writes a field nothing here reads; files of custom requests, which are uploaded and never deleted; the price and
  texts of a variant once it is there, which the last writer sets.
* Of the limiter: the middleware's limit on all requests and the other handlers' limits, which are one `Hit` each; clocks of processes that differ.
* In `ProductForm` one save and one reading of a page are under way at a time; several readings could cross one another.
* In `Media` a failed task has ended on the server too: a client that gives up while the server goes on is left out.
* In `AdminAuth` the server works off one request at a time; what concurrent ones do is `AuthSessions`.
* Hash collisions of tokens and credentials, and repeated keys of staff movements in `Production` (those are `Inventory`'s subject).

## 8. Plan

Order, by how much of the business depends on it. Steps 1 to 13 are done; the one marked *next* is not.

1. `StockRules`, `Inventory`, `IdempotentStock`, `InventoryProofs`: everything else moves stock through it.
2. `ProductionTables`, `Production`, `ProductionLifecycle`, `ProductionProofs`: composes the stock rules with orders and rows.
3. `StockLocks`, `StockLocksProofs`: the lock order that `Production` abstracts.
4. `Sales`, `Deal`, `SalesProofs`.
5. `AuthSessions`, `AdminAuth`, `AdminAuthProofs`.
6. `References`, `Requests`, `RequestsProofs`.
7. `Products`, `Media`, `MCCatalog`.
8. `Pricing`: the totals that `Sales` takes as given.
9. `Names`, `Translations`, `Materials`, and the proofs of steps 7 to 9 in `CatalogProofs`.
10. `RateLimiter`, and its proofs with those of `AuthSessions` in `AuthProofs`.
11. `ProductForm`: the page that writes back every field.
12. Proofs of all invariants that the runs check (section 5).
13. The refinements of `Registry` and `CredentialFamilies`, `OrdersCanBeCancelled`, and the circles of row locks with the stock levels that reservations create.
14. *Next* — the customer's path from the request over the quote to production: an abstract specification that composes `Requests`,
    `Sales` and `Production`, of which each now has one of its own.
