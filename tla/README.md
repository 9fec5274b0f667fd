# TLA+ models of the pet-foster operations platform

The repository holds two Go services over SQLite: the pet-foster application
(`cmd/pet-server`, `internal/pet`) and the ML platform it was modernised from
(`cmd/server`, `internal/domain`, `internal/service`, `internal/storage/sqlite`,
`internal/worker`, `internal/httpapi`). This directory models the parts whose
correctness depends on the order in which things happen, checks the models with
TLC and proves their main properties with TLAPS. `PROJECT.json` maps every
definition to the lines it models.

## How the system runs

Both services serve HTTP requests concurrently over up to eight SQLite connections
in WAL mode, with foreign keys on and `busy_timeout` 5000. What a request does is a
sequence of SQL statements, and what matters is where a transaction begins and ends:

- a statement issued on `s.store.db` is a transaction of its own (autocommit), and
  the statements of other requests run between two of them;
- a `BeginTx` ... `Commit` block reads one snapshot of the database; a deferred
  transaction whose snapshot has grown stale is refused when it first writes
  (SQLITE_BUSY), so a committed block took effect at one instant;
- a request can end between two statements: its context is cancelled, the database
  stays busy, the process stops.

So a handler is one action when it is one transaction, and one action per statement
otherwise, with what it carries from one statement to the next kept in a variable.

## Inventory

| component | state | operations | hard behaviour |
|---|---|---|---|
| rooms and foster orders (`pet/orders.go`, `pet/catalog.go`) | `rooms`, `foster_orders` | create, confirm, start, complete, cancel an order; add, resize, close, delete a room | room handlers COUNT and write in two statements; orders are transactions with a trigger |
| accounts and sessions (`pet/service.go`, `pet/http.go`) | `pet_users`, `pet_sessions` | register, log in and out, authenticate, edit, disable, delete, change and reset passwords | read, decide, write in separate statements; revocation is a third one |
| pets and daily records (`pet/pets.go`, `pet/records.go`) | `pets`, `daily_records` | add, edit, delete | every check is a statement apart from its write |
| service items, order services, operation logs | one table each | single-statement writes | only under their lists and under seeding |
| inference runs (`service/inference.go`) | `inference_runs`, `inference_run_inputs`, `idempotency_records` | plan, stage, start, complete, archive, cancel | a run moves a pool and several snapshots with it; retries by key; daily limits |
| snapshots (`service/catalog.go`, `bulk.go`) | `dataset_snapshots` | register, validate | a state table with expiry, used by five services |
| compute pools (`service/compute_pool.go`) | `compute_pools` | reconcile, retire | reserved and freed by the runs |
| drift incidents and review (`service/metrics.go`, `review.go`) | `quality_observations`, `drift_incidents`, `review_decisions` | observe, start a review, decide | observations arrive at any point of a run's life |
| approvals, outbox, worker (`service/approval.go`, `storage/sqlite/jobs.go`, `worker`) | `approval_tasks`, `outbox_jobs` | create, resolve, expire; enqueue, claim, retry | a periodic pass against HTTP writers, crashes, back-off |
| platform users and sessions (`service/auth.go`, `cmd/seed-user`) | `users`, `sessions`, their `audit_events` | create, log in, authenticate, log out, seed | a session is read before its account and the clock; two requests on one session |
| start-up of the platform (`storage/sqlite/migrations.go`, `cmd/server`) | `schema_migrations` and every table | look up, apply and record a migration | servers and commands of several releases open one file; COUNT and body are apart |
| start-up of the pet service (`pet/store.go`, `cmd/pet-server`) | the seed rows of `pet_users`, `rooms`, `service_items` | migrate, count, seed, serve or exit | the server and the Compose healthcheck do it next to one another |
| list queries of both services | none | COUNT, then one page | rows move between the statements and between the pages |
| readiness, summary | none | reads | a report put together from several statements |
| audit, HTTP, configuration, Vue client | none of their own | wiring, presentation | none or little, see the plan |

What makes them correct: a room never holds more orders than it takes and no open
order loses its room; no session outlives the password or the status it was opened
under; pools, snapshots, incidents and runs agree on who uses what; verdicts are
final; a retried plan plans once; whatever waits can still be finished; concurrent
worker passes and requests leave the tables as if each had run alone, and every job
and approval comes to an end; orders, pets, owners and daily records keep their
relations, with named exceptions; a database that is served has its seeds and its
whole schema; every platform account goes back to a seeded one and the audit trail tells
what the tables tell; a client that pages through a list misses or repeats a row only for
a reason that can be named and counted.

## Modules

| module | models | theorems in |
|---|---|---|
| `StoredTimes` | instants as the tables keep and compare them | |
| `Booking` | rooms and foster orders | `BookingProofs` |
| `Accounts` | accounts and sessions | `AccountsProofs` |
| `InferenceRuns` | runs, snapshots, pools, incidents, plan keys | `InferenceRunsProofs` |
| `Readiness` | the readiness report beside the writers of `InferenceRuns` | `InferenceRunsProofs` |
| `RunLease` | the abstract promise of `InferenceRuns`: who holds which pool and snapshot | |
| `Outbox` | jobs, approval tasks, the worker, the transactions they run in | `OutboxProofs` |
| `SerialOutbox` | the abstract promise of `Outbox`: everything happens in one instant | |
| `Custody` | pets, their owners, what orders and daily records keep of them | `CustodyProofs` |
| `StartUp` | opening and seeding the pet database | `StartUpProofs` |
| `PlatformAccess` | the platform's migrations, accounts and sessions, and their audit events | `PlatformAccessProofs` |
| `Lists` | the list queries of both services, read page by page | `ListsProofs` |
| `MCBooking`, `MCAccounts`, `MCInferenceRuns`, `MCReadiness`, `MCOutbox`, `MCCustody`, `MCStartUp`, `MCPlatformAccess` | symmetry sets and sequences for TLC | |

**StoredTimes** is extended by `Booking`, `InferenceRuns` and `Outbox`. Both services store
an instant as its RFC3339Nano text and let SQLite compare texts. RFC3339Nano drops the
trailing zeros of a fraction, and "Z" sorts after "." and the digits, so within a second the
order of texts is not that of the instants: `"...:01.5Z" < "...:01Z"`. `IsTextBefore` is the
order of texts: by seconds, and within a second by `FractionRank`, which the assumption
`TextsAssumption` leaves open but for the whole second, whose text sorts last. The proofs hold
for every such order and every `SecondLength`; the runs use `OneDigit`, fractions of one digit.
What Go compares (`time.Time`, as in `ApprovalTask.Resolve` or the order of a stay's two
ends) is compared by instants.

**Booking.** `rooms` and `orders` are the tables (a row not inserted or deleted is `NoRoom` or
`NoOrder`), `lastRoom` and `lastOrder` the AUTOINCREMENT counters, and `request[h]` what handler
`h` has read and still has to write. `CreateOrder` and `UpdateOrderStatus` are whole transactions;
`UpdateRoom`, `UpdateRoomStatus`, `DeleteRoom` and `CancelOrder` are a `...Check` and a
`...Write`; `Abandon` ends a request between the two. Stays are half-open intervals; that a stay
ends after it begins is decided by instants, that two stays overlap by their texts (`Overlaps`),
in `CreateOrder` and in the trigger alike. Two stays that overlap within a second only can
therefore both be admitted, with no race at all, and guests are counted to the second (`Guests`):
from the second a stay begins in up to, and without, the one it ends in. Pets, services, prices
and texts only refuse requests and are left out. Two history variables are not in the code:
`highWater` (the largest capacity a room has had) and `raced` (the orders admitted between another
request's check and its write on the same room).

**Accounts.** `accounts` and `sessions` are the tables; a session that is expired,
revoked or deleted is `NoSession`, since nothing tells the three apart. A password
hash is a number, never issued twice. `request[h]` carries the Principal, the row
`Login` read, or the row `UpdateUser` decided to write, from one statement to the
next. History: `password` of a session (the hash that opened it), `raced` (sessions
left open by a request that worked from a stale read or ended half way) and `vouched`
(accounts an administrator asked to be ADMIN).

**InferenceRuns.** Every write is one `Store.WithTx` transaction, so an action is a handler, and
its guard collects every early return. One workspace and one source zone, both active; snapshots
of equal size; `run` of a snapshot stands for `run_id` and the row of `inference_run_inputs`,
which the code writes together. Roles only refuse requests and are left out, as are notes,
metadata and audit rows. Optimistic version checks cannot fail inside one transaction. History:
`key` of a run. `DayStart` is the second a business day begins with, and `RunsOnDay` the runs the
SELECT counts, by the texts of their starts. `IsReportedComplete` is what `RunReadiness.Evaluate`
concludes from the tables of one instant, approvals aside.

**Readiness** extends `InferenceRuns`, whose handlers are its writers (`WriteTables`), by
the report that `GetRunReadiness` puts together outside a transaction: `ReadRun`, then
`ReadNext` for each of seven statements in the order of the code (`Order`), each on the
tables of its own instant (`Tables`), and `IsComplete` for `Evaluate`. `report` holds the
rows each statement found, of which the code keeps the number. `pending` is what the
report sees of the approval tasks, asked for while a run is active and answered or
expired at any time (`Outbox` models how). One report at a time is as good as many, since
a report only reads. History: `instants` (what a report read in one go would have said at
each statement) and `since` (an approval asked for too late to be seen, an input
quarantined after the end).

**RunLease** says in four actions what planning promises: acquire one pool and some
snapshots at once, begin, cancel (all comes back), archive (the pool comes back). It
translates no line of code. `TakesAndReturns` is its `Spec` under the mapping
`Holder`, `Begun`, `Ended` of `InferenceRuns`.

**Outbox.** Here the transaction itself is modelled, because a pass of the worker is
long and its clock is read before it begins. `jobs` and `tasks` are the committed
tables. `tx[p]` is the transaction of a worker or a request: the step it has done, the
instant it works with, the rows it still has to work on. BEGIN is deferred, so the
snapshot `view[p]` is taken by the first SELECT; the first write takes the only write
lock (`writer`), waiting for it; if somebody has committed over the snapshot (`stale`)
that write is refused with SQLITE_BUSY_SNAPSHOT (`Refuse`) and everything is rolled
back. `Interrupt` cuts a transaction short: context, busy timeout, failing commit, or the
process going away. `BeginPass`, `ReadOverdue`, `ExpireApprovalTasks`, `ClaimJobs`,
`ProcessJob` and `Commit` are `RunOnce` in order; each request is a read, a write and a
commit. A job of an `"unsupported"` kind is one that `processJob` does not know, left by
another release: the only way an attempt fails in this code. Two of the code's defences
turn out to be idle in the model as they are in the code, and are not variables: the
`version` columns and the unique index on pending tasks never refuse, because the
snapshot refuses first. Overdue tasks and claimable jobs are found by the order of texts
(`IsTextBefore`), `Resolve` compares instants. `Later` saturates at `MaxTime`, which stands for every later
instant.

**SerialOutbox** has no transactions: requests and passes happen in one instant each, dated by a
reading of the clock that may be old but is never ahead of time, and what is due is known exactly,
but within the second of a deadline or back-off that has a fraction (`IsDue`). `ActsSerially` is
its `Spec` over the committed tables.

**Custody.** `users`, `pets` (id to owner), `orders` and `records` with their keys:
`ON DELETE CASCADE` from account to pet, `SET NULL` from pet to order, no deletion of an
account with orders. `UpdatePet`, `DeletePet`, `AddRecord` and `UpdateRecord` are two
steps each, `KeepOwnerRead` and `TransferRead` being the two kinds of `UpdatePet`. History:
`assigned` (the owner last named for a pet), `reverted` (pets transferred while another
edit held the old owner), `raced` (orders placed between the statements of a `DeletePet`),
`transferred` (orders whose pet has since been given away), `overtaken` (orders that moved
on while one of their records was being written). Principals are left out: an
administrator may do all of this. Orders move as in `Booking`, without their rooms.

**StartUp.** `proc[p]` is where the server or a healthcheck stands in `Open`: `Counting(t)`,
`Inserting(t, k)`, `Up` or `Off`. Every COUNT and every INSERT is a step, as in the code. A
row is known by its seed's number; renaming a row is a removal and an entry. History:
`begun`, `raced` (a process counted a table empty while another was seeding it), `cut` (a
stop or a client's row cut the seeding short), `refused`, `removed`.

**PlatformAccess.** `proc[p]` is where a server or a `seed-user` command stands in the loop
of `migrate`: looking a version up (`Check`), about to run it (`Apply`), `Open` or `Off`.
`built` is what the bodies have created and `ledger` what `schema_migrations` says; a body and
its ledger row are one transaction, so `ApplyMigration` is one step, and it fails on what
another process has created since the look-up. `Knows[p]` is how many migrations `p` was built
with: a file may be opened by an older release. Then the server serves: `request[h]` is what
request `h` carries from `LoginRead` to `LoginInsert`, from `AuthenticateRead` over
`AuthenticateAccept` to the `CreateUser` or `Logout` it was for. `audit[k][u]` counts the events
of kind `k` about account `u`. No code changes or disables an account, so there is no action for
it; passwords and fields only refuse. History: `by` and `since` of an account (the session and
the beginning of the request that made it), `refused` and `raced` (starts that failed, processes
overtaken).

**Lists.** All lists are read the same way, by COUNT and by SELECT ... LIMIT ... OFFSET in two
statements (`Store.Read` opens no transaction). They differ in the columns they filter and sort
by, and in which of these the updates change: `View` draws from both whether rows are deleted,
leave and come back, or change their place. `PetLists` and `PlatformLists` are all the lists with
all their filters. One behaviour is one walk: the client asks for page 1, 2, ... until a page
reaches the total it came with, as the page controls of a client do, and asks again after a
failure; meanwhile rows are inserted, deleted, hidden, returned and moved. `AvailableRooms`,
`MyPets` and the other one-page answers stop after page 1. `Place` is a row's OFFSET, `PageRows`
what SELECT returns. `ListSnapshots` has a query but no route. History: `kept` (rows that have
stayed), `again`, and the counts `departed`, `arrived`, `late`, `gone` of edits by where they
fell.

## Runs

| run | instance | what it shows |
|---|---|---|
| `booking_concurrent` | 2 handlers, 1 room, 2 orders, capacities 1..2, half-second instants 0..4 | the bounds below hold at every interleaving of statements |
| `accounts_concurrent` | 2 handlers, 2 users, 2 sessions, 3 hashes | the bounds on surviving sessions and on roles |
| `inference_lifecycle` | 2 pools, 2 snapshots, 1 key, 2 runs, 2 incidents, half-second instants 0..2 | agreement of the tables, finality of verdicts, limits, progress, the lease |
| `readiness_reports` | 1 pool, 2 snapshots, 1 run, 2 incidents, 1 report at a time | what a report read in pieces is worth to who acts on it |
| `inference_expired` | 1 pool, 2 snapshots, 1 run | violation: an expired snapshot is approved |
| `outbox_serial` | 2 workers, 1 client, 1 job, 2 tasks, clock 0..1, 1 interrupt | committed changes are those of passes and requests made one at a time |
| `outbox_live` | 1 worker, 1 client, 2 jobs, 1 task, batch of 1, half-second instants 0..2 | every job settles, every task is answered or expires, on its side of the deadline but within the deadline's second |
| `outbox_same_second` | 1 worker, 1 client, half-second instants 0..4 | violation: a task expires before its deadline |
| `custody_concurrent` | 3 handlers, 2 users, 1 pet, 1 order, 2 records, 2 days | what orders, owners and records can lose, and only to whom |
| `startup_healthchecks` | server and 1 healthcheck, 2 seeds a table, 1 stop, 2 edits | what can be seeded twice, left out or refused; the server comes up |
| `platform_access` | server and 1 older seed-user, 2 migrations, 2 clients, 2 accounts, 2 sessions, clock 0..2 | schema and ledger agree, accounts go back to a seeded one, audit events agree with the rows |
| `lists_pages` | every list and filter, 4 rows, 2 sort values, page sizes 1 and 2, 2 edits | what a walk can miss or repeat, and how far a page is from its total |

**Why the bounds are enough.** A race needs one request between its statements and
one more that runs meanwhile: two handlers. Overselling needs as many orders as the
room takes and one more: two orders with capacities 1 and 2. Half-second instants 0..4, over
two seconds and into a third, give stays that overlap, contain one another, touch, and overlap
within a second only, seen or unseen by their texts. RESERVED and OCCUPIED refuse orders as CLEANING
does, and no property is about them: the instance has AVAILABLE and CLEANING, the proofs have all four. Rooms do not meet, so one is enough;
it is added by an administrator after the seeded ones were deleted, which makes `AddRoom`
part of the run. A session hazard needs the account's
session and one opened during the race; three hashes are two passwords and a change.
In `InferenceRuns` two runs compete for pools, snapshots, the key and the daily limit
of 1; two incidents are a judged one and a new one; the clock reaches the end of a
window, of a key and of a snapshot, and crosses the cutoff: days are of one second, so that a
run can start at the cutoff, within its second and on the next day. A report is about one run:
in `readiness_reports` two snapshots can be of two minds, and the second incident opens
while the report is being read.

In `Outbox` two workers are two server processes on one database, which is what makes a
pass go stale against another pass; with a client there are three transactions, one
writing, one refused, one reading. Two tasks compete for being the pending one of a run
while batches of one leave the other behind. Interrupts are left to `outbox_serial`:
`outbox_live` keeps two jobs, one failing ahead of the other, and the lifetime of a task
shorter than the clock. In `Custody` the properties are about an order and its pet, so
one of each; the handlers are one that has checked, one that races it, one that
transfers; two records of an order meet at its UNIQUE date. In `StartUp` one healthcheck
suffices because Docker runs them one after another; two seeds a table (2, 4 and 6 in the
code) are a first and a last; two edits empty a table, or remove a row and enter one.

In `PlatformAccess` two processes race for a migration, and the older one leaves the second to
the server; two clients share a session; two accounts are a creator and the one it creates, and
sessions of 2 expire at the end of the clock. In `Lists` the page sizes 10, 50 (defaults), 100,
200 and 500 (caps) become 1 (asked for as 0) and 2 (asked for as 3, and cut); four rows make
walks of up to four pages, and an edit can fall before, between and behind them; two edits are
needed for a row that comes back and for a departure that hides an arrival.

Handlers, processes, clients, addresses, pools, snapshots and other ids are interchangeable, hence
the symmetry sets (`Lists` has none: its rows are ordered); no liveness property is checked under
symmetry. All runs set `CHECK_DEADLOCK FALSE`: ids, sessions, hashes, edits and the clock run out
in the bounded instance, a walk ends with its last page, and a system whose clients call nothing
stops anyway.

**Fairness.** None is assumed of `Booking`, `Accounts`, `InferenceRuns`, `Custody`,
`PlatformAccess` and `Lists`: every step is a client's or an operator's, and none has to come.
What must remain possible is said by the guards of the calls (`RunCanEnd`, `ReportedRunArchives`:
a handler writes whenever its `May...` holds). `Outbox!Fairness` is weak fairness of time, of each
worker's next statement (`Worker.Run` calls `RunOnce` at every tick and goes on after errors) and
of the commit of a request that has written; no request has to be made. Each request writes once,
so finitely many can refuse a pass in the bounded instance; under an unending stream of commits a
pass could be refused for ever, and nothing in the code prevents that. `StartUp!Fairness` is weak
fairness of the server's start (`restart: unless-stopped` in `docker-compose.yml`) and of its
statements; nothing is assumed of healthchecks, and the server is stopped finitely often.

## Properties

*Booking.* `GuestsWithinHighWater` is what the trigger guarantees whatever happens, to the
second.
`OverloadIsRaced`, `CleaningIntruderIsRaced` and `RoomlessOrderIsRaced` say exactly
which orders can be in the wrong place: those admitted while another request stood
between its check and its write. `OrdersOnlyAdvance` covers the read-then-transaction of
`CancelOrder`. `CapacityRespected`, `CleaningRoomIsEmpty` and `OpenOrderHasRoom` are
the README's promise without allowance: races violate them, and `SerialRelationship` proves
all three for one request at a time. `CapacityRespected` counts to the second as well: counted
by instants, the texts violate it without any race.

*Accounts.* `OldPasswordIsRaced`, `DisabledSessionIsRaced` and `RefusedStaysRefused`
bound which sessions survive a change of password or status, and which refused
session can be accepted again. `AdminsAreVouched`: the full-row write of `UpdateUser`
can undo a demotion but never makes an administrator of someone nobody asked for.

*InferenceRuns.* `PoolServesItsRun`, `SnapshotsFollowRun` and `QuarantineHasIncident` relate the
tables; `KeyPlansOnce` and `DailyLimitHolds` bound planning, the latter with the exception the
texts make: a run that starts within the second of the cutoff but after it (`IsJustAfterCutoff`)
is counted on the day before; `VerdictsAreFinal` is about late observations. `RunCanEnd` says no
legal sequence of calls wedges a run, with the exceptions the code has: an input that expired, or
was revalidated, while the run waited leaves the run without a next step and its pool taken
(`IsStranded`). `EveryCallNears` says the next steps lead somewhere: each brings the run nearer to
its end by a measure that only a new incident increases, and strands no input.
`ReadyCanBeArchived` is proved: a completed run the report calls complete can be archived, though
the report and the archiving each list states of their own. What a client sees of it is
`ReportedRunArchives`, below.

*Readiness.* `ReportIsOfAnInstant`: a report read in pieces says what one read in one go
would have said at some instant meanwhile. That rests on the order of the statements, on
quarantine having its incident, and on runs keeping their inputs; the one exception is an
approval asked for after the statement that looks for one. `ReportedRunArchives`: who acts
on a report finds the run as reported, until an observation quarantines one of its inputs.
`CountsAddUp`: no input is counted under two headings that exclude each other.

*Outbox.* `ActsSerially` is the summary. Callers rely on `OnePendingPerRun`, and on
`JobsAtRest` and `ResolutionIsFinal`, which hold of every behaviour of `SerialOutbox` and are
proved without a run. `ResolvedToTheSecond` dates verdicts before the deadline and expiries
after it, except that an expiry may be early within the second of a deadline that has a
fraction; `ResolvedOnItsSide`, without the exception, is violated (`outbox_same_second`).
`JobsSettle` and `TasksResolve` are the liveness of the worker.

*Custody.* `PetlessOrderIsExplained`: an order loses its pet to a race with `DeletePet`, or
because the pet was given away and went with its new owner's account, and in no other
way. `OwnerIsAssigned`: a pet is whose it was last given to, unless a stale edit wrote
the old owner back. `RecordsBelongToStay` and `LateWriteIsOvertaken` say of which days
and by whom records are written.

*StartUp.* `SeedsAreWhole`: processes that refuse one another's rows still complete the list
between them; where a stop cut in, what is there is a beginning of the list, and the server does
not serve without the administrator (`ServerHasAdmin`). `ServicesSeededOnce` and `RefusalIsRaced`
bound what goes wrong to two processes that found a table empty together. `ServerComesUp` is
checked by the run, the measure behind it is proved. That measure is `ServerGetsCloser`: a start
that fails has left a table with rows that had none, every other statement of the server brings it
forward, and only a stop throws it back.

*PlatformAccess.* `SchemaIsWhole`: whatever is stopped where, no start ever fails over the
remains of another, and a process that is open finds the schema it was built for.
`AccountsTraceToSeed`: though a request works with a session read earlier, the session was open
when the request began. `AuditTellsAccess`: logins, creations and logouts are recorded as often
as they happened, and two racing logouts end a session once.

*Lists.* `MissedAreAccounted` and `RepeatsAreAccounted` are the exact price of reading by OFFSET:
a row that stays is missed only against a row that left the part already read, one that entered
after the last count, or the cut of a one-page answer, and is repeated only against one that
entered the part already read; each such edit costs at most one row. A list sorted by `updated_at`
pays it for every step of a run, a list of audit events only for late entries. `PageIsWhole`
relates a page to the total it is sent with.

## Proofs

TLAPS checks every theorem for all values of the constants that satisfy the
assumptions of each module (`BoundsAssumption`, `TextsAssumption`, `IdsAssumption`, `NullAssumption`,
`SnapshotsAssumption`, `SeedsAssumption`, `ListsAssumption`, `AccessAssumption`).

- *Types.* `TypeCorrect` in each proofs module. In `Booking`, `Accounts`, `InferenceRuns` and
  `Lists` the type invariants are inductive as they stand; in `Outbox`, `Custody`, `StartUp` and
  `PlatformAccess` they are parts of `IInv`. Since they are proved for every instance, the
  runs do not check them again.
- *BookingProofs.* `GuestsAreBounded`, `OverloadsAreRaced`, `IntrudersAreRaced` and
  `RoomlessAreRaced` follow from one `IInv`: the four bounds alone are not inductive, since a
  write acts on a check made earlier. `ChecksStillBind` says what each pending request still
  knows, and `ReferencesHold` that orders name existing rooms. The counting argument is about
  finite sets: the orders that are neither raced nor settled only shrink between check and
  write. `SerialRelationship` follows: with one handler nothing is raced. `OrdersAdvance` is an
  action property.
- *AccountsProofs.* `OldPasswordsAreRaced`, `DisabledAreRaced`, `AdminsVouched` and
  `RefusalIsFinal` by a step lemma per action; the session a step can disturb is the one of
  the account it writes. With one request at a time what a request read is still so when it
  writes (`ReadsAreFresh`), hence `SerialPasswords`; and if no request ends before its
  revocation (`RevocationsRun`) nothing is raced, hence `SerialLogout`: a disabled account has
  no open session, as the tests expect.
- *InferenceRunsProofs.* `PoolsServe`, `SnapshotsFollow`, `QuarantineIsWatched` and
  `KeysPlanOnce` from an `IInv` in which `RecordsCoverRuns` strengthens `KeyPlansOnce`;
  `DailyLimitKept` by counting the runs of a day before and after a plan (`CountedByText`: but
for the exception, the texts count every run of the day); `ImplementsLease`
  shows that initial states map to initial states and every step to a step of `RunLease` or a
  stutter. `RunsCanEnd` and `ReadyIsArchivable` by the states of a run's inputs
  (`SnapshotsFollowRun`), with an incident to decide where they are in quarantine;
  `CallsLeadToTheEnd` by a measure: two for each call a run still has before it, one for an
  active incident.
- *InferenceRunsProofs, of Readiness.* `ReportsAreOfAnInstant`, `ReportedRunsArchive` and
  `ReportsAddUp` from `ReportInv`, which says what a report still knows of tables that have
  moved on. Of its parts, `KnowsInputs` rests on the step to `RunLease` (`InputsStay`: whoever
  begins a run spends its inputs), `KnowsVerdicts` on verdicts being final, `KnowsRun` on the
  table of transitions (`RunKeepsToTable`), and `KnowsTheRest` on no quarantine being without
  an incident. At the last statement a complete report is one of that instant; an incomplete
  one has its blocker, and `KnowsBlockers` the instant that had it.
- *OutboxProofs.* `ImplementsSerial` rests on four facts about transactions under way.
  `SnapshotsCurrent`: a snapshot nobody has committed over equals the tables.
  `WriterOwnsLock`: who has written holds the lock on a current snapshot. `TodoIsFit`: what
  a transaction means to change it found fit for the change. `PassInProgress` and
  `RequestInProgress`: how far the writer's view differs from the tables. At `Commit` the
  difference is one step of `SerialOutbox`; every other step is a stutter. `TextsKeepSeconds`
  carries the order of texts over to instants, to the second, and with it `DatedToTheSecond`
  proves `ResolvedToTheSecond` for every resolution of the clock.
- *CustodyProofs.* `Invariance` of an `IInv` whose `ChecksStillBind` says, per kind of
  request, what its read still implies when it writes. With one request at a time the history
  stays empty (`Undisturbed`), which leaves the promises without their exceptions:
  `SerialCustody` and `SerialRecords`.
- *StartUpProofs.* `SoleSeeder`: a table not raced has one seeder, ahead of all its rows.
  `AdminFirst`: nothing happens before the administrator is there. `SeedersLead`: behind
  every seed that was reached, each missing one has a process that heads for it, which is
  why a refusal leaves nothing out: the row that refused it was reached by another.
  `SeedsInOrder`: nobody passes over a seed, so a stop leaves a beginning of the list.
  `AdminThere` is that the server never serves a database without its administrator, and
  `ServerNears` the measure that `ServerComesUp` rests on.
- *ListsProofs.* A page is an interval of places, and `PlaceIsOwn`, `PlaceIsBelow` and
  `AsManyAsPlaces` say that places are distinct and fill an interval, so rows can be counted by
  them. `PassedAreAccounted`: the kept rows in the part already read that were not received are
  no more than the rows that departed from it. `TwiceAreAccounted`: the kept rows received twice,
  or received and still to come, are no more than those that arrived. `CountIsKept` relates the
  count to the list of now. An edit moves at most one row over the boundary (`Entering`,
  `Leaving`, `OneCrosses`), and a page passes exactly the rows it returns.
- *PlatformAccessProofs.* `StartsAreWhole` by `LedgerIsBuilt` (tables and ledger are the same
  set) and `StartsKnow` (a version a process is past is in it, one it is about to apply is not,
  unless it was overtaken). `AccountsTraced` and `AuditAgreesWithRows` by `RowsRefer` and
  `RequestsRefer` (rows and requests name rows older than themselves, and the session of a request
  was open when it began) and by counting events and rows together (`AuditAgrees`).

The invariants `IInv` are proved; that each part of them holds on the small instances was
model-checked before it was proved, and the runs keep the properties they imply.

Only model-checked: `JobsSettle`, `TasksResolve` and `ServerComesUp`, because liveness under
fairness is beyond the prover. Of the last the measure is proved: each step of the server brings
it closer, and weak fairness does the rest.

## Findings

Two violation runs, each against a sentence of the repository (see `findings` in
`PROJECT.json`): an expired snapshot is approved by `Decide`, and an approval task expires up to
a second early.

Noted without a run:

- a disabled account's sessions stay open when the second statement of `UpdateUser`
  (`internal/pet/service.go:204`) never runs, and a repeated call skips it, against
  `service_test.go:89`, "TestDisabledUserAndPasswordChangesRevokeExistingSessions"; a `Login`
  past its SELECT opens one too. `DisabledSessionIsRaced` counts both as raced;
- an order created between the COUNT and the UPDATE of `UpdateRoom` (`catalog.go:51`) leaves the
  room above its capacity, against README.md:27, "Mutating order operations run inside
  transactions and preserve the room/order relationship"; `OverloadIsRaced` is that exception;
- `ValidateSnapshot` (`service/catalog.go:151`) takes a reserved input of a waiting run back to
  validated, after which the run can neither start nor be cancelled; `RunCanEnd` excepts it
  (`IsStranded`);
- `AvailableRooms` looks at the 100 newest rooms only, and filters them after the cut;
- an order placed between the statements of `DeleteRoom` or `DeletePet` loses its room or
  pet (`RoomlessOrderIsRaced`, `PetlessOrderIsExplained`);
- a pet with orders, which `DeletePet` refuses to remove, goes with the account of a new
  owner who has none;
- `DeleteRecord` asks nothing of the order, so records of finished stays can be deleted;
- `ArchiveInferenceRun` ignores open incidents and pending approvals, which
  `RunReadiness.Evaluate` lists as blockers;
- two stays that overlap within a second only are admitted to a room for one: after
  [10:00:00, 10:00:01.5] comes [10:00:01, 10:00:03], since `"...:01.5Z" > "...:01Z"` is false of
  the texts that `orders.go:57` and the trigger (`store.go:82`) compare;
- for the same reason any number of runs that start within the second of the cutoff but after
  it pass the daily limit (`storage/sqlite/read_operations.go:115`): they are counted on the day
  before.

## Not modelled, and the plan

1. **Workspaces and data zones**: creation, activation and their versions, which
   `InferenceRuns` takes as given.
2. **Text order** of the date filters of lists, as `StoredTimes` has it for deadlines, stays
   and business days.
3. **The Vue client**: answers to list requests that arrive out of order.

`InferenceRuns` and `Outbox` meet where an approval is asked for while its run is active, and
stays open when the run is archived; `Readiness` models that place and leaves the rest of the
approval to `Outbox`.

The remaining parts are reads, wiring, presentation or data (`components` in
`PROJECT.json` gives the reason for each).
