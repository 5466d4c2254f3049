# SaveMyControllers: specifications and proofs

TLA+ models of the parts of SaveMyControllers in which several processes,
requests, transactions or callbacks meet: the transactional outbox and its
workers, carts and orders, repair cases and the workshop's desk, sessions, the
address book, the configurator, the tab of the browser, and the seed that every
deployment runs again. Every definition names the code it was translated from;
paths below are relative to the root of the repository, `M/` is
`apps/api/src/modules/` and `W/` is `apps/web/`.

## 1. The system

A modular monolith: a NestJS API (`apps/api`), a background worker
(`apps/worker`) and a Next.js front end (`apps/web`) over one PostgreSQL
database, reached through Prisma at the default isolation level, READ COMMITTED.
Any number of API and worker processes may run. They share nothing but the
database (and Redis, for rate limits), so all interaction goes through rows:
statements of different transactions interleave freely, a row written by an open
transaction blocks its other writers until the end of that transaction, and a
blocked UPDATE compares its WHERE clause again with the committed row. Each tab of
a browser keeps state of its own, changed by answers that arrive in any order.

| component | state | operations | what is hard | what makes it correct |
|---|---|---|---|---|
| Outbox and worker (`M/outbox`, `packages/database/src/outbox-claim.ts`, `apps/worker`) | `outbox_events` (status, attempts, lease), audit log, the worker's batch | append, claim a batch, handle, mark, retry with backoff, dead-letter, release stale locks | two workers, leases that expire under a busy worker, crash between effect and mark, failed updates | exclusive handling, at-least-once delivery, attempts accounted for, every event settled |
| Carts and checkout (`M/orders`) | `carts`, `cart_items`, `orders` | find or create a cart, add an item, merge a guest cart, convert to an order | double submission, statements outside any transaction, merge racing addition or another merge | one order per cart, every submission told that order |
| Order intake (`order.service.ts`, `M/core` references, checkout page) | pool of connections, `reference_counters`, open transactions | submit, number, claim, write the order and its cases, commit, time out | a second connection inside a transaction, timeouts, lost answers, a new year | unique references, whole orders, no attempt that waits for ever |
| Repair cases (`M/repairs`) | `repair_cases`, `repair_status_history`, transition matrix | create with the order, change status | check against a stale read, optimistic lock, audit outside the transaction | history is a walk in the matrix; events and audit tell the same moves |
| Repair desk (`M/repairs`, `M/authorization`) | label (QR token), technician, notes; accounts and roles | print and revoke a label, assign, write notes, read | access tokens outlive rights, checks by separate reads | writes were allowed, dead labels stay dead |
| Identity and sessions (`M/identity`) | `users`, `sessions`, reset tokens | login, refresh, logout, reset | rotation against revocation, login against reset, counters written back | one accepted session per login, whole rotations, a reset token is used once |
| Addresses (`M/orders/repositories/address.repository.ts`, `W/app/(client)/compte/adresses`) | `addresses` with two default flags, the list on the page | create, update, delete, list | overlapping transactions, deadlock, failure half-way, changes between a commit, its answer and the next list | one default of a kind, never lost to a failure; the page lists the book |
| Configurator (`M/configurator`, `W/app/(public)/configurateur`) | rules in the database; selection, timer and requests of the page | validate and price, select, add to the cart, validate again for the order | overlapping requests and aborts, catalogue edited between any two reads, precedence of rules | price shown is that of the selection, bought as shown, ordered while on sale |
| Web session (`W/lib`, `M/core/security/csrf.ts`, `apps/api/src/main.ts`) | cookies, cached CSRF token, displayed user | login, logout, any write, profile, reload | several calls at once, other tabs, expiry | no stale token kept, the page shows who is signed in |
| Seed (`prisma/seed`) and brands (`M/catalog`) | all seeded tables | run, fail, run again; create, rename, delete a brand | no transaction, no unique index behind some lookups, deletion after a count | no doubles, complete once done, a matrix that never skips the tests |
| Organizations, settings, files, rate limits, audit, HTTP layer, packages, other pages | see section 8 | | | |

How they call each other: `OrderService.createOrder` opens the transaction in
which it claims the cart, inserts the order, appends `OrderCreated` to the outbox
and creates the repair cases with their events; `RepairCaseService.changeStatus`
appends `RepairStatusChanged` in its own; the worker consumes all of them.
`CartService.addItem` and `createOrder` call the configurator, which reads the
catalog and one setting. Pages call the routes with the cookies and the token that
`WebSession` models.

## 2. Modules

| module | models | composes |
|---|---|---|
| `Outbox`, `MCOutbox` | producers, workers, leases | |
| `EventDelivery` | abstract: at-least-once delivery | instantiated by `Outbox` |
| `RepairCase`, `MCRepairCase` | creation and changes of status | |
| `StatusWorkflow` | abstract: an atomic walk in the matrix, announced | instantiated by `RepairCase` |
| `Checkout`, `MCCheckout` | carts, additions, merges, submissions | |
| `CartPromise` | abstract: a cart becomes one order, submitters are told it | instantiated by `Checkout` |
| `OrderIntake`, `MCOrderIntake` | the checkout page, submissions statement by statement, pool, counters, addresses | page and API |
| `Identity`, `MCIdentity` | logins, sessions, password resets | |
| `TokenFamily` | abstract: families of tokens, one good at a time | instantiated by `Identity` |
| `WebSession`, `MCWebSession` | the tab, its cookies, the CSRF check | tab and API |
| `Configurator` | the engine: issues, price, tax, lead time, as operators | |
| `ConfiguratorForm`, `MCConfigurator` | the page, the validation requests, the addition to the cart, the validation for the order | extends `Configurator` |
| `Addresses`, `MCAddresses` | the transactions on the book, and the page | page and API |
| `RepairDesk`, `MCRepairDesk` | guards, labels, assignment, notes | extends `RolePermissionSeed` |
| `RepairStatusSeed`, `RolePermissionSeed` | the seeded matrix, the seeded roles | |
| `Seed`, `MCSeed` | runs of the seed, administration of brands | extends both seeds |
| `OutboxProofs`, `RepairCaseProofs`, `CheckoutProofs`, `IdentityProofs`, `ConfiguratorProofs`, `WebSessionProofs`, `OrderIntakeProofs`, `RepairDeskProofs` | theorems about the module of their name (`ConfiguratorProofs`: `ConfiguratorForm`); `CheckoutProofs` also those about `Addresses`, `RepairDeskProofs` those about `Seed` | |

### Outbox

One step per `await` of the worker. `pc[w]` is the next call of process `w`:

    off -> idle -> select -> commit -> row -> send -> record -> mark -> row | idle
           (top of loop)               \______________________ fail ___/

| action | code |
|---|---|
| `Append` | `OutboxRepository.appendInTransaction`, as the commit of the business transaction shows it |
| `ReleaseStaleLocks` | `releaseStaleOutboxLocks` |
| `SelectForUpdate`, `CommitClaim` | the two halves of `claimOutboxBatchAtomic`: the rows selected are locked until the commit, others skip them (`RowLocked`) |
| `CheckAlreadyProcessed`, `SendEmail`, `SendFails`, `RecordProcessed`, `HandleOther` | `handleOutboxEvent` |
| `MarkProcessed`, `DeadLetter`, `RetryLater` | the try and the catch of `claimAndProcessBatch` |
| `IterationFails`, `HandlerCallFails`, `MarkFails`, `CatchFails` | each place where a database call may throw, with what the code does then; a failed mark may have been applied |
| `Crash`, `Shutdown`, `Exit` | death of the process; SIGTERM and SIGINT |
| `BackoffElapses`, `AbandonedLockExpires`, `BatchLockExpires` | time: `next_attempt_at` is reached, a lease grows older than `OUTBOX_STALE_LOCK_MS`, of a dead worker or of a busy one |

Time is what it decides: `due` and `stale` are the rows whose timestamp has
passed. `seen[w][e]` is `row.attempts` as selected, which the code compares with
`MAX_ATTEMPTS`. `sent`, `released` are history. A process never restarts under
its `WORKER_ID` (a random one per process), so a restart is another worker.

### RepairCase

A request goes `idle -> checked` (case read, transition checked) `-> begun`
(transaction begins, which is the earliest `changed_at`) `-> locked` (UPDATE with
`lock_version` in its WHERE) `-> committed -> idle` (audit written or lost).
`OptimisticLockError` is `count === 0`; `Rollback` is any failure before the
commit, the death of the process included.

### Checkout

A request is one execution of a route; `pc[r]` is its next statement:

    new -> creating -> done                             GET /cart/mine
    new -> adding -> done                               addItem
    new -> submitting -> claimed -> reading -> done     createOrder (or submitting -> reading, refused)
    new -> merging -> attaching -> done                 attachGuestCartToUser, no active cart
    new -> merging -> moving -> moved -> done           attachGuestCartToUser, into the active cart

`Claim` is `updateMany ... convertedAt: null`; it waits for `rowLock`. In a merge,
`Moving` and `Fillers` are the row locks of its updates and of the foreign key.
`Refuse` is every check that refuses a request, every failed statement and the
death of the process: an open transaction rolls back. Expiry, company, prices and
addresses are abstracted into it. An order is named by the request that created
it.

### OrderIntake

The same `createOrder`, with what it competes for instead of the other routes on
its cart:

    idle -> reading -> checking -> numbering -> starting
         -> claiming -> creating -> casing ... casing -> answering -> ended

A statement outside the transaction needs a free connection for an instant
(`FreeConnection`); from `Begin` to `Commit` the attempt holds one (`open`), and
`NumberCase` needs another, because `ReferenceGeneratorService` uses the client of
the process and not `tx`. `TakeNumber` is the upsert with its limit, which stays
counted when the order is rolled back. `tx[r]` holds the rows of the open
transaction, `db` the committed ones. `Pairings` is every order in which the
database may return the lines that were inserted. `TxTimeout` is the 5 seconds of
`$transaction`: the connection is given back and the attempt finds out with its
next statement (`TransactionClosed`); `PoolTimeout` is the wait for a connection.
The page may lose the answer, be reloaded and submit again (`ConnectionLost`,
`Reload`, `Click`). `Checkout` tells what two submissions answer each other;
here a second attempt matters for what it holds.

### Identity

    new -> failing -> counting -> refused                        login, wrong password
    new -> succeeding -> opening -> done                         login
    new -> rotating -> replacing -> loading -> done              refresh
    new -> rotating -> reusing -> revoking -> refused            refresh with a token already rotated
    new -> leaving -> done                                       logout
    new -> issuing -> done                                       requestPasswordReset
    new -> writing -> sweeping -> revoking -> done               resetPassword

`RevokeOld` and `CommitRotation` are the two ends of the only transaction,
`rotateIfActive`: the conditional UPDATE takes the row, its effect is seen at the
commit. `StartRevokeFamily` and `StartRevokeAll` are the snapshot of an UPDATE of
many rows, `RevokeSeen` its end, when no row it found is held any more.
`CountFailure` writes back what `ReadAttempts` read. Sessions, families and reset
tokens are named by the request that created them. Expired and unknown tokens
refuse a request before it has written anything and are not steps; audit
entries, which nothing reads, are left out.

### WebSession

One tab (`W/lib/api/browser-client.ts`, `W/lib/auth/auth-context.tsx`, the login
page) and the cookies it shares with the others. A call goes

    idle -> token (waits for the one fetch of a token) -> send -> sent -> page -> idle

`send` is the instant the browser attaches its cookies, so `valid` is the
verdict of the CSRF check then; the cookies of the answer arrive before the page
goes on (`LoginGoesOn`, `MergeGoesOn`, `LogoutGoesOn`, `OtherGoesOn`).
`AccessExpires`, `OtherTabSession`, `OtherTabToken` and `Reload` are what the rest
of the browser does. `disturbed` records that something the tab cannot know of has
happened: such an act, a lost call, or a change of session that overlaps another
call for it or a fetch; `overtaken` that the profile it took last was asked for an earlier
session. `Blank` is the access cookie after a logout: `clearCookie` is given a
`maxAge`, so the cookie stays, empty, which the guard takes for absent but the
CSRF token does not.

### Configurator and ConfiguratorForm

`Configurator` translates `ConfiguratorService` operator by operator over a record
`db` of what it reads; `Answers` is the set of what `validate` may return,
several where two rules tie and the database decides which comes first. The
fifteen reads are separate statements in no transaction: `Views(C, from, to)` are
the records a validation may read that begins in version `from` of the catalogue and
ends in version `to`, with each edit between any two of its reads.

`ConfiguratorForm` is the customer's way. On the page, `Effects` are the two React
effects that follow a change of the selection (the clean-up aborts the request and
clears the timer), and `TimerFires`, `Serve`, `Answered`, `Refused`,
`ConnectionFails` the validation. A run of `handleAddToCart`, whose closure keeps the
selection of the rendering that was clicked, goes

    idle -> cart -> post -> valid -> stored
         Click  CartResolved  Accepts  AddItem

`Accepts` is the validation of `addItem`, `AddItem` the insertion, a statement of
its own; `AddAnswered` gives the button back, with an answer or with a lost connection
while the API goes on, and `AddFails` is every refusal and failure. `GoToCheckout` unmounts the
page, and the order goes

    shop -> checkout -> checking (Revalidate, a line at a time) -> placed
                            \__ OrderFails __> checkout

`CatalogueEdited` replaces the whole catalogue by its next version. The cart belongs
to a customer without a company, whose prices are public; what becomes of the cart
itself is in `Checkout` and `OrderIntake`. `Earlier` is what the cart holds from an
earlier visit. `asked`, `from` and `to` note versions, `seen` what a settled page
showed at the click.

### Addresses

    idle -> billing -> shipping -> writing -> done     (each of the first two only if that default is set)

`FindDefaults` is the snapshot of the `updateMany` that clears the other defaults,
`ClearDefault` its visit of one row, which waits for the row's lock, `Write` the
insert or update with the commit, `Remove` the deletion. `Cancel` is PostgreSQL ending one
transaction of a cycle of waits, `Fail` a failed statement or a dead process. `at[r]` is
the next statement of call `r`; a call the page awaits is `committed` or `failed` before it
is `done`. `raced` records the kinds that two overlapping requests have set.

The page gets the answer in a step of its own (`AnswerArrives`, or `AnswerLost` when
the fetch rejects, after which the form stays `submitting`), and asks for the list after a success
(`LoadAddresses`). `ServeList` is the instant the API reads the list, `SetAddresses` its
arrival, in any order; a list that is refused shows the buttons again, one whose
connection fails leaves the page loading (`ListFails`, `ListLost`). Lists are numbered as
they are read: `served` is the newest, `last` the one on the screen. `untold` notes a change
the page will not ask about: another client's, or one of its own whose answer or list was
lost, since its last list was read.

### RepairDesk

    idle -> received -> known -> allowed -> written -> answering -> idle
            token       account  permissions         audit

`Receive` is `JwtAuthGuard`, `CheckAccount` and `CheckPermission` the two reads of
`PermissionGuard`, `CheckAssignee` and `CheckAssigneeRole` those of
`assignTechnician`. The permissions are those of `RolePermissionSeed`.
`AccountChange` is outside the repository: accounts are deactivated or lose their
roles, tokens expire. `entitled`, `fit` (rights at the arrival of the request) and
`dead` (labels replaced or revoked) are history.

### Seed

`Program` is the list of entries in the order of `prisma/seed/index.ts`; each step
looks one up and writes it: `Upsert` where the table has a natural key, `Find` and
`Create`, two statements, where it has none (`Unindexed`, models, rules). `SeedFails`
ends a run anywhere; the next starts from the beginning. The staff creates,
renames and deletes brands meanwhile with the permission the seed has granted;
`CountFamilies` and `DeleteBrand` are two statements. `Untested` walks the matrix
as far as it is seeded.

## 3. Runs

Every passing run explores its whole state space. `CHECK_DEADLOCK FALSE` stands in
all configurations but `MCWebSession` and `MCAddresses`, because those bounded systems
really stop: when all requests have ended, all events are settled and the workers have been
shut down, or the customer has left the configurator and its catalogue is no longer edited. A
tab that can be loaded again never stops.

| run | instance | shows |
|---|---|---|
| `outbox` | 2 workers of which one survives, 2 events in one batch, 2 attempts, 1 failed call, 1 lapse | `ExclusiveHandling`, `ProcessedWasHandled`, `AttemptsAccounted`, `SentOnceRecorded`, `LockEndsByHolderOrExpiry`, `AtLeastOnceDelivery`, `EventuallySettled` |
| `repair` | 1 case, 3 requests, 3 statuses with a choice and a loop, 3 changes | `HistoryIsWalk`, `EventsAreMoves`, `HistoryInTimeOrder`, `AuditAccounted`, `ImplementsWorkflow`, `RequestsEnd` |
| `checkout` | 1 user, 2 carts, 1 item, 4 requests | `OneOrderPerCart`, `AnswerIsTheOrder`, `ImplementsPromise`, `SubmissionsEnd` |
| `intake` | 2 carts (of 2 lines and of 1), 2 attempts, 2 connections, 3 references a year, 2 years, 1 address | `ReferencesUnique`, `OrderIsWhole`, `RequestsEnd` |
| `identity` | 1 account, 4 requests, threshold 2 | `OneLivePerFamily`, `RotationIsWhole`, `RevokedAsSeen`, `LockNeedsFailures`, `ResetOncePerToken`, `ImplementsTokenFamily`, `RequestsEnd` |
| `websession` | 2 calls at a time, 2 JWTs, 4 nonces | `SettledTokenIsValid`, `SettledShowsSession` |
| `configurator` | a model with 2 variants and a revision, 2 services of which 1 is on sale at first, an option, 3 versions of the catalogue, a line in the cart from an earlier visit, 1 addition, 1 order | `SettledShowsSelection`, `BoughtAsShown`, `OrderedWasOnSale` |
| `addresses` | 3 addresses of which 1 exists, 2 requests of the page and 1 of another client | `OneDefault`, `DefaultSurvives`, `PageListsBook` |
| `seed` | the whole seed with the demonstration catalog, 2 runs, 3 edits of one brand | `NoDoubles`, `DoneIsWhole`, `TestedBeforeReturn` |
| `desk` | 2 members of the staff, technician or administrator, 2 requests, 3 labels, 2 changes of accounts | `WritesWereAllowed`, `DeadLabelsStayDead` |
| `checkout_replayed_merge`, `desk_notes` | the same systems | a counterexample each, section 7 |

Why the bounds are enough.

- `outbox`: a lease lasts for a batch, so two events in one batch let it expire
  while one row is being handled and another still waits, and let a second worker
  take both over. Two attempts give a retry, a last attempt and a dead letter. One
  failed call and one lapse put the fault at every place of the loop; more of them
  repeat it. `Reliable` is the worker that is not killed, without which nothing need
  be delivered.
- `repair`: one request that holds the row, one that waits for it and one that read
  before both; a third change follows from a status reached by either. Cases do not
  share rows, so one is enough.
- `checkout`: two requests build the cart and put the item in, the other two
  compete, whether as two submissions, a submission and a merge, or two merges. Two
  carts are a source and a target. There is one item, since an order is the set
  read and the properties ask for no more.
- `intake`: `r1` and `r2` may both submit the first cart, or one each. With two connections
  both transactions may be open and want a third, the case the timeouts must end.
  Three references a year are passed by the cases of one order of two lines submitted twice; the second
  year starts the counters again at any moment.
- `identity`: a login and three refreshes overlap on one family (the third rotates
  the session a revocation has not seen); or a login, a refresh that fails in its
  transaction, and a requested and executed reset. Two failures reach the threshold,
  from separate or from overlapping logins.
- `websession`: two calls overlap in every pair of kinds. A session or a nonce that
  nothing mentions any more stands for a new one, so the run has no end and no bound on
  the number of logins.
- `configurator`: the services and the option give the kinds of issue and of rule: a service
  that is archived and one that comes back, a requirement, an exclusion, a white list, an option that becomes
  required, two rules that tie until a day passes. What reads services in version 2 and rules in version 3
  sells a selection that neither version sells. The selections and the requests of the page are
  unbounded. The line of the earlier visit has the combination the page does not offer; it and the line
  that was added are validated one after the other and do not interact otherwise.
- `addresses`: a default that exists and two addresses to come; three requests are one
  cycle of waits and one that watches, or two changes of the page whose answers and
  lists cross and one of another client. Lists are as many as the page asks for: one when it
  is loaded and one after each of its changes. Loading it again is unbounded.
- `seed`: two runs are one that stops anywhere and one that completes it; three edits are a
  deletion, a new row and another slug, before, between and during them. `Untested` makes as many changes
  as there are statuses, which reaches every one there is to reach.
- `desk`: a request that was checked and one that changes what it read; three labels are
  one that is dead, one that replaced it and one more. `VIEW Guarded` leaves out
  technician, notes, audit and history of notes, which no guard and neither
  property of the run reads.

Symmetry is declared only in runs that check no liveness; the carts, items, users,
requests, addresses, sessions and nonces are then interchangeable (a `CHOOSE` among unused nonces or
sessions picks one of several that are).

Which property answers which hazard is in `PROJECT.json`. The recurring pattern is
a check made before a write: by an UPDATE with the condition in its WHERE clause
(claim of a batch, of a cart, of a case, rotation of a session, consumption of a
token), for which the properties hold, or by a read in an earlier statement, for
which they hold only with the exceptions they name (`raced`, `resluged`,
`disturbed`) and section 7 tells what happens then.

## 4. Fairness

Weak fairness of the steps of a process that is not killed, and of time; none of a
disturbance, of a producer or a user, or of the outcome of a handler.

- `Outbox`: `Step(w)`, since the loop of `apps/worker/src/main.ts` catches what an
  iteration throws and goes on; `BackoffElapses` and `AbandonedLockExpires`, since
  timestamps in the past stay there. A worker outside `Reliable` may stop for good.
- `RepairCase`: `Advance(r)`, `Checkout`: `Submit(r)`, `Identity`: `Advance(r)`. The
  API goes on with a request it has begun; PostgreSQL lets an UPDATE wait and serves
  it once the row is free. The step is disabled while the row is held, and the
  holder's own step is fair, so weak fairness is enough. A request may always fail
  instead (`Rollback`, `Refuse`, `Fail`), which also ends it.
- `OrderIntake`: `Step(r)`, and `TxTimeout(r)`, the timer of Prisma. The timeout of the
  pool may strike but need not. Without the timer of the transaction two attempts that
  hold both connections wait for ever: that is the mutant of `RequestsEnd`.

The page models state safety only: nothing makes a customer click.

## 5. Proofs

All theorems hold for every value of the constants under the assumptions the
modules name: null values differ from real ones (`NamesAssumption`,
`WorkerAssumption`, `RequestAssumption`, `MatrixAssumption`, `SessionAssumption`,
`IntakeAssumption`, `DeskAssumption`, `AddressesAssumption`), a book has finitely many
addresses, versions of the catalogue are naturals, 1 among them, and delete no revision, which a
line of the cart would lose (`CatalogueAssumption`), the seed is a finite list that has a family for every brand
(`ProgramAssumption`, a fact about `Program` that TLC evaluates), events are ordered (`EventAssumption`), bounds
are naturals (`ParameterAssumption`, `MaxFailuresAssumption`), appointed roles are seeded
ones (`AppointmentAssumption`), and the first status and the moves are in the matrix.

| module | theorems |
|---|---|
| `OutboxProofs` | `TypeCorrect`, `Exclusion`, `EveryAttemptCounts`, `NothingLost`, `SentOnce`, `Finality`, `LocksRespected`, `DeliversAtLeastOnce` |
| `RepairCaseProofs` | `TypeCorrect`, `NoLostUpdate`, `Announced`, `TimeOrder`, `EveryChangeAudited`, `Refinement` |
| `CheckoutProofs` | `TypeCorrect`, `SingleOrder`, `TrueAnswer`, `Refinement` |
| `IdentityProofs` | `TypeCorrect`, `OneAcceptedSession`, `RotationsAreWhole`, `RevocationReaches`, `NoEarlyLock`, `TokenUsedOnce`, `Refinement` |
| `OrderIntakeProofs` | `ReferencesAreUnique`, `OrdersAreWhole` |
| `ConfiguratorProofs` | `PageIsSettled`, `OrderedWereOnSale`, `ShownIsBought` |
| `WebSessionProofs` | `TokensSettle`, `ShownSettles` |
| `RepairDeskProofs` | `TypeInvariant`, `WritesAreAllowed`, `DeadLabelsAreDead`; of `Seed`: `SeedDoublesNothing`, `SeedStaysWhole`, `TestsComeFirst` |
| `CheckoutProofs`, of `Addresses` | `DefaultsAreSingle`, `DefaultsSurvive`, `PageShowsBook` |

With them every invariant and every action property the runs check, and all four
refinements, are proved. `Addresses` (`BookInit`, `BookNext`, `BookSpec`) and `Seed`
(`SeedInit`, `SeedNext`, `SeedSpec`) carry names of their own for what other modules call
`Init`, `Next` and `Spec`, because their theorems stand beside those of the customer's
orders and of the desk: the same customer's data, and the roles and the matrix the seed
writes.

Type correctness is proved where the argument needs it and is part of no run.

**Outbox.** `Inv` is `TypeOK` with four parts. `LockInv`: while no lease has expired
under a busy worker, a worker that handles rows holds them (`HolderHandles`); its
exception is the row whose PROCESSED update was applied but reported as failed.
`AttemptsInv`: the attempts a worker has seen are one behind the column
(`SeenIsOneBehind`), which is why the dead letter comes at `MaxAttempts + 1`, and
only the release of a stale lock makes an exhausted event PENDING again
(`WaitingHasAttemptsLeft`). `HandlingInv`: how far the handler is at each call.
`HandKnown`: what is in hand was appended. The refinement follows from the same
invariant: a step that writes `sent` or a final status is the abstract one.
`SentOnce` is inductive with `Inv`: an entry is written by the one worker that handles
the row (`Exclusion`), and whoever enters the sending step has found none
(`SendingStep`).

**RepairCase.** A request's reading may be stale, so the invariant speaks of it only
while the version still matches: then the status is the one read (`ReadStillTrue`)
and every past change is earlier than the transaction (`BegunAfterHistory`). Who
holds the row has a matching version (`HolderMatches`), so the commit extends the
walk from where it ended. `EveryChangeAudited` counts requests between commit and audit:
`AuditInv` adds that there are finitely many, and one lemma per way in or out of
that set moves one unit between the terms of the sum.

**Checkout.** `ClaimHeld`: a request that has claimed a cart holds its row, and the cart
is not converted until the commit. With it `Fresh` (an order's name is unused until
then) and the links between `orderOf` and `order`, which never change, give one order
per cart and true answers.

**Identity.** One part per table. `SessionInv`: a rotation holds the row of the accepted
session until it commits (`RotationHolds`, `HolderRotates`), a new session is
unknown until then (`FreshSession`, `Rooted`), and a revocation has found existing
sessions (`SeenExist`). `TokenInv`: a token in a request's hands is consumed
(`HeldIsConsumed`). `LockInv`: a count, also one read and not yet written back, does
not exceed the failures written (`ReadBounded`).

**OrderIntake.** `RefInv` follows a number from the counter to the row: what was handed out
is not past its counter (`AllSpent`); an attempt holds it alone (`HeldOnce`), then an open
transaction has it alone (`WrittenOnce`), then the database (`CommittedOnce`). A new number is past
the counter, so it differs from all of them, also in a new year. `WholeInv` follows the rows
instead: a transaction has written nothing, or its order and one case for each line it
no longer has to do (`Draft`); who has claimed a cart is alone on it and it has no order
(`Exclusive`); an attempt with committed rows writes no more, and what is committed is
whole (`Committed`). The commit moves a finished draft into the database, and every
failure drops it.

**Configurator.** `FormInv`: one validation at most is pending, it is about the selection
on the screen, and none while the timer runs (`PageInv`). `BuyInv` follows what is bought.
`AskInv`: a validation that was answered has a price the engine gives for
its selection from reads between its two versions. `AddInv`: what a run
saw at the click was such an answer, to the selection it adds. `OrderInv`: a line of the order was accepted from reads that began
after the submission (`Accepted`). `OrderedWereOnSale` needs two more facts:
each condition of sale is decided by one read, or by the choice alone
(`NoIssueIsSellable`), and each read is of a version between the ends of its
validation (`ReadInSpan`). For `ShownIsBought`, a validation that begins and ends in one
version has one reading (`OneReading`), and two of its answers differ only if two
subtotals are possible (`OneTotal`), which is what `Tied` says.

**WebSession.** `TokenInv`: undisturbed, a fetch under way is for the current session
(`FetchInv`), and a token kept is the current one, or a login or a logout has been answered and the page
is about to forget it (`CacheInv`, `Unaware`). `ShownInv`: undisturbed, a call whose answer has
changed the session carries the session there is now (`Told`), and whenever another session
is shown than that of the cookie something will correct it: a profile
under way for that session, a call that goes on to ask for one, or the last profile
came too late (`Coming`).

**RepairDesk.** `Promises` says for each stage what the checks still to come will
establish about the instant the request arrived; rights are only lost (`Lessened`), so a check that
succeeds later would have succeeded then. `DeadLabelsStayDead` is inductive given that labels only grow.

**Seed.** `SeedInv`: every row hangs under rows of its parents (`RowsHeld`), and what the
running seed has come past (`PastPlanted`) or a seed that ended well has left
(`AllPlanted`) is there. Brands are the exception, which the staff may delete while they have no
family; once the seed has ended well each of them has one (`ProgramAssumption`), and
the foreign key keeps it. `DoublesInv`
adds that between `Find` and `Create` nobody inserts what was not found
(`StillAbsent`): only brands are changed by others, and those are upserted. `TestsComeFirst`
is about the data: `Unready` is closed under the moves of the seeded matrix, complete
or not, except out of QUALITY_CHECK, and SHIPPED is not in it. `Untested` is a
recursive function, so its values are reached with `WFMin`: where the claim fails there is
a least round that fails, and the one before it does not (`UpTo`, `RoundsExist`).

**Addresses.** `BookInv`. A request that has come past the clearing of a kind
leaves no default of that kind but its own address: the present ones are that address, those
it has cleared, or those its UPDATE has found and not yet reached (`Covering`). Another
request can break this only by setting the same kind, and then both are noted before either
writes (`Noted`, `raced`). So the commit leaves one default (`LoneFlags`). The proof has the
two statements in the order of the code: billing, then shipping. For the page, `Told`: the newest list
read for it is the book, on its way or on the screen (`NewestIsBook`), or a list is still to be
read, or the answer to a committed change is on its way and will make the page ask, or `untold`. Each of
the first three turns into another when a request commits, is answered or a list is read
(`PageKeeps`); a commit of another client is the fourth.

None of the properties is inductive by itself: each says what holds of the rows,
while what a request may write depends on what it has read, and the parts above say
in what sense that is still true.

## 6. Model-checked only

- `EventuallySettled`, `RequestsEnd`, `SubmissionsEnd`: liveness under fairness is out
  of the prover's reach.
- That pages do not deadlock (`MCWebSession`, `MCAddresses`), since it speaks of ENABLED.
- That `Program`, which folds the lists of the seed into one, is what `ProgramAssumption` says of
  it: a fact about the one data set.

The counterexamples of section 7 are runs, not theorems.

## 7. Disagreements between code and documents

Two runs find a behaviour of the model against what the repository says.

- `checkout_replayed_merge` (`UserCartIsKept`, `M/orders/services/cart.service.ts:170`). A second
  merge that found the guest cart by its token before the first one attached it
  finds, with `findFirst`, that very cart as the user's active cart, moves its items
  to itself and deletes it (line 185). The contract at lines 134-135 says "idempotent :
  rejouer l'appel (jeton deja fusionne, ou absent) est un no-op silencieux, jamais une
  erreur".
- `desk_notes` (`ClientSeesOwnNotes`, `M/repairs/repositories/repair-case.repository.ts:12`).
  The client's `GET client/repair-cases/:id` is answered with `findById`, whose
  `include` holds every note. `prisma/schema.prisma:1196` says "INTERNAL = jamais visible
  cote client, CLIENT = visible dans l'espace client."

Others were met while modelling; the models behave as the code does, and no property
of a passing run contradicts it. TLC finds a counterexample to each of the three quoted documents about
leases, families and tokens when it is stated as a property of these models.

- `apps/worker/src/main.ts:55` compares the attempts read before the claim incremented them: an event
  that always fails is handled `MAX_ATTEMPTS + 1` times (`AttemptsAccounted` states that
  bound); `M/outbox/repositories/outbox.repository.ts:94` says "attempts >= max".
- `releaseStaleOutboxLocks` looks at no counter: an event that kills its workers is
  taken again without end (`released` in `AttemptsAccounted`), against
  `docs/adr/ADR-017-outbox-verrouillage-atomique.md:28-29`, "n'est plus jamais repris automatiquement".
- `locked_at` is written once per batch: a worker that has checked and whose lease then expires
  sends the email although the next holder has sent and recorded it (`SentOnceRecorded` asks for
  `lapses = 0`). `apps/worker/src/handlers/outbox-event-handler.ts:20-23` says "Si une execution
  precedente a deja ete journalisee comme reussie [...], le handler ne rejoue pas l'effet de bord".
- `revokeFamily` (`M/identity/repositories/session.repository.ts:84`) is one UPDATE of the sessions its
  snapshot sees: a rotation that commits after the snapshot leaves its successor accepted (`RevokedAsSeen`
  is about what was found). `docs/adr/ADR-014-rotation-atomique-refresh-tokens.md:19-22` says "toute la famille
  de sessions est revoquee (`revokeFamily`) et l'appel echoue : a la fois l'attaquant potentiel et
  l'utilisateur legitime doivent se reconnecter".
- `createPasswordReset` (`M/identity/repositories/verification-token.repository.ts:33`) invalidates the old
  tokens and creates the new one by two statements in no transaction: two overlapping requests
  leave two valid tokens. `docs/adr/ADR-020-consommation-atomique-jetons.md:17-20` says "tous les jetons actifs
  precedents du meme utilisateur sont invalides dans la meme operation (`createPasswordReset`) — un seul
  jeton de reinitialisation valide a la fois".
- `CLIENT_UNREACHABLE` is seeded as not terminal (`prisma/seed/repair-statuses.ts:19`) and no
  transition leaves it.
- `cart.service.ts:184-185` moves the items and deletes the guest cart with what was added
  in between; lines 138-140 call it empty. `cart.service.ts:46-49` looks up and creates the
  active cart by two statements, so two requests create two.
- Two overlapping requests that set a default leave two (`raced` in `OneDefault`); the
  comment at `M/orders/repositories/address.repository.ts:45-51` speaks of one that fails half-way only.
- Two lists of the address page may cross; the older one replaces the newer and stays until the next
  reload (`last = served` in `PageListsBook`). After a list whose connection fails the page shows nothing but
  "Chargement", after a creation whose connection fails its button stays disabled
  (`W/app/(client)/compte/adresses/page.tsx:34-38`, `47-57`).
- `M/orders/services/cart.service.ts:100-114` validates a line and then inserts it, with no transaction around
  the two: after an edit in between the cart holds a line that is not sold any more, until the order refuses
  it (`OrderedWasOnSale` is about orders for that reason). The order does the same
  (`order.service.ts:86-115`): an edit after the validation of a line is not seen.
- The engine's reads are of different instants: a validation during which the catalogue is edited
  twice may accept what no version sells, each condition being met by the version it was read
  from, and a price may mix two versions. `OrderedWasOnSale` therefore speaks of each condition by itself, and
  `BoughtAsShown` of prices read in one version.
- `M/orders/services/order.service.ts:215` matches the created lines with the priced ones by index, and
  nothing orders the rows read back.
- Rights are checked by reads before the write: an account deactivated between the two still writes, and a
  technician who loses the role after the two reads of `repair-case.service.ts:263-269` is assigned
  (`WritesWereAllowed` asks for the right on arrival or later).
- A brand that the staff gives another slug is seeded again (`resluged` in `NoDoubles`).
- `configurator-form.tsx:92-95` takes every rejection for an abort: after a lost connection
  the page keeps the price of the former selection (`lost`).
- `W/lib/auth/auth-context.tsx:18-22` calls the profile the only source of truth, but `logout`
  shows nobody without looking at the answer, and an answer under way may restore the user; a
  profile asked for in an earlier session that arrives last stays on the screen (`overtaken` in
  `SettledShowsSession`).
- `prisma/schema.prisma:807-809` gives a price rule a scope of family, model or variant and
  a fallback from company over professional to public prices;
  `pickMostSpecificPricingRule` takes no rule of a family, and a company without a
  professional rule gets the base price, not the public rule.

## 8. Not modelled

| part | reason |
|---|---|
| Organizations | an insert with its event in one transaction, and two reads |
| Settings | one table with its history; the value the program uses is `taxRate` in `Configurator` |
| Files | an object, then its row, with no compensation; nothing else reads either yet |
| Rate limiting | one atomic counter in Redis; its refusals are `Refused` in `WebSession` and `ConfiguratorForm` |
| Registration and email verification | an insert with its event, and a flag no code reads |
| Audit log | append-only; the uses that matter are part of `Outbox`, `RepairCase` and `RepairDesk` |
| Catalog reads, HTTP filter, environment, health, shared packages | reads, wiring, input validation and pure functions |
| Cart and order pages, registration page, `apps/ops` | display what they read, or forms |
| `OutboxRepository`'s own claim and mark methods, `revokeAllOtherSessions`, `touchLastUsed` | no caller |

## 9. Plan

1. Theorems that relate components: `OrderIntake`, `RepairCase` and `Outbox` together, where
   every order and every change of status is announced exactly as it was committed.
2. What the theorems leave open by their exceptions, stated as theorems of
   their own: what holds after `raced`, `resluged`, `disturbed` and a lapsed lease.
3. `Registration` and `Organizations`: one account per address, the verification token and the events in
   the outbox; `Settings` and `Files` with the object store.
