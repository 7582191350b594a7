# Renuzi operations platform: TLA+ models and proofs

The repository is the backend of an offline-first fleet and warehouse
application: phones and tablets work without a network, push what they did into
a queue, and pull what others did from a change log. The server is a Node and
Express application on SQL Server, and several instances may run on one
database. Paths below are relative to `src/backend/src/` unless they start with
`src/`.

The modules model the code, not its documentation. Where a comment, a test or
the API description promises something that the code does not do, a run shows
it (section 5); where the code is right, or right under a condition, a run
checks the property with that condition in it. Every safety property of a passing
run, and both refinements, are also proved, for all sizes; liveness is checked on
the bounded instances only (section 6).

## 1. Inventory

### Push queue: `services/syncQueueService.js`, `routes/sync.js`
- **State**: table `sync_queue`, a row per pushed item (`sync_status`,
  `retry_count`, `next_retry_at`, `claimed_at`), unique in device, user, entity
  type and client reference; table `sync_conflict_log`; and in each
  `processQueue()` invocation its claimed batch and its current row.
- **Operations**: `enqueueItem`, `claimBatch`, `processQueue` (which calls an
  entity processor in a transaction of its own, then `markSynced`,
  `markConflict` or `markFailed`), `requeueQueueRow`.
- **Hard**: `POST /batch`, `POST /process` and the cron of every instance run
  `processQueue()` at the same time; a worker may be slow, crash or lose the
  answer to a COMMIT; claims expire by age; the marking statements are not tied
  to the claim.
- **Correct when**: an item is written once, is called synced only if it was
  written, has a bounded number of attempts, is settled in the end, and a
  conflict is parked and listed.

### Conflict resolution: `services/conflictService.js`
- **State**: `sync_conflict_log.resolution`, and the queue's rows.
- **Operations**: list, `resolveConflict` (re-runs the processor with
  `conflictOverride`), `finalizeResolution`.
- **Hard**: several round trips while workers and requeues move the same row.
- **Correct when**: an override falls only on a parked payload, once, and the
  row is closed.

### Change log, sweeper, retention: `services/changeLogService.js`, `jobs/scheduler.js`, `src/backend/database/05_pull_change_log.sql`
- **State**: `sync_change_log` (identity `change_key`, a JSON snapshot per row),
  `version_no` in each dataset's table.
- **Operations**: `recordChange` (bump, read back, append, in the caller's
  transaction), `emitSnapshot`, `sweepChanges`, the retention procedure.
- **Hard**: sweeps of several instances overlap each other and the services;
  rows change or vanish between the sweep's list and its emits; the purge
  overtakes cursors; keys are handed out at the INSERT and become visible at the
  COMMIT.
- **Correct when**: for each entity the order of the log is the order of its
  versions, nothing follows a tombstone, and no reader passes a key that is
  committed later.

### Pull: `services/syncPullService.js`, `routes/pull.js`
- **State**: none on the server; a cursor and a copy on each device.
- **Operations**: paged snapshot for cursor 0, delta pages, `resetRequired`.
- **Hard**: a request is many statements and transactions, a bootstrap is many
  requests, and the table, the log and the purge move in between.
- **Correct when**: a device that keeps pulling ends up with the table, and what
  it lacks is ahead of its cursor or leads to a reset.

### Custody chain: `services/warehouseService.js`, `routes/warehouse.js`, `sync/warehouseProcessors.js`
- **State**: `fact_dispatch` (status, four stamps), its lines, the stock
  movements of the dispatch.
- **Operations**: `createDispatch`, `stampDispatchCustody` for four stages, by
  route or by queue.
- **Hard**: the header is read before the transaction, so stamps overlap; a
  manager's override skips the prerequisites.
- **Correct when**: stamps are made in order, status and stamps agree, and a
  delivery moves stock once, by the quantities of its lines.

### Fleet: `services/fleetService.js`, `services/guards.js`, `routes/fleet.js`, `sync/fleetProcessors.js`
- **State**: `dim_vehicle` (odometer, status), `fact_trip`, `fact_fuel_log`,
  `fact_fuel_request`, `fact_maintenance`.
- **Operations**: trip start and end, refuel, odometer update; fuel request and
  decision; maintenance ticket, its approvals and its work status.
- **Hard**: every guard is a query of its own before the write.
- **Correct when**: a vehicle has one open trip, its odometer does not go back,
  distances and refuels add up; decisions stand, and work and money follow
  approvals.

### Goods receipt: `services/warehouseService.js`, `services/docNumbers.js`, `services/guards.js`
- **State**: `fact_grn` and lines, the stock ledger, the numbers of the day.
- **Operations**: `createGRN`, `signoffGRNFinance`, `recordStockMovement`.
- **Hard**: numbers are counted, not drawn from a sequence; header, status and
  ledger are computed from different operands; sign-off is check-then-write.
- **Correct when**: numbers are gapless and unique, no header claims stock the
  ledger does not have, a sign-off stands.

### Scheduler: `jobs/scheduler.js`
- **State**: the overlap guard of the process, the businesses a tick has still to
  come to.
- **Operations**: `processAllQueues` (up to 20 batches per business), the sweep,
  the purge, the GRN escalation, starting and stopping.
- **Hard**: one error ends the tick for all businesses after it, every instance
  has a scheduler, and items that were pushed together depend on each other.
- **Correct when**: every business is drained, and draining in batches, passes and
  ticks does not put the stamps of a dispatch out of order.

### Pagination: `utils/pagination.js`, `src/backend/database/06_pagination_indexes.sql`
- **State**: none on the server; a signed cursor in the hands of the client.
- **Operations**: limits and their aliases, encoding and decoding of cursors, the
  page envelope with its extra row.
- **Hard**: the list changes between two pages; the signing secret may change; the
  sort columns are DATETIME2 and a cursor keeps milliseconds.
- **Correct when**: a walk shows no row twice, leaves out none but those its cursor
  cannot tell from the anchor, and comes to an end.

### Process and pool: `src/backend/server.js`, `config/db.js`
- **State**: `pool` and `poolPromise`, the HTTP server, the cron jobs.
- **Operations**: `getPool`, `executeQuery`, `withTransaction`, the pool's
  `'error'` handler, `shutdown`, `closePool`.
- **Hard**: many callers find no pool at a time; connects and statements fail; a
  signal arrives while requests, jobs and connects are under way.
- **Correct when**: there is one pool, an outage leaves no harm behind, and a
  graceful stop answers what was accepted.

### The rest
GRN escalation, processor registry and parts of the database layer are modelled
by their effect on the parts above (section 8); stock counts, returns, vehicle
checks, authentication, uploads and the dashboard are not modelled (section 9).

### How the parts interact
    device --push--> sync_queue --processQueue--> processor --> fleet / warehouse service
                         |  conflict                                | same transaction
                         v                                          v
                  sync_conflict_log <--resolve-- manager     sync_change_log <-- sweeper, purge
                                                                     |
    device <---------------------------pull--------------------------+

The services of the routes are those of the queue: a processor calls the same
function as the online route. A property of a service therefore has to hold for
requests that arrive late, twice and overlapping, which is how the component
modules are set up: any number of requests in any order, each made once, a
retry being another request with the same content. Every service write appends
to the change log in its own transaction.

## 2. Modules

| module | models |
|---|---|
| `SyncQueue` | the push queue of one business: rows, workers, faults, requeues |
| `Inbox` | abstract: what the queue promises a device |
| `SyncQueueInbox` | the refinement mapping from `SyncQueue` to `Inbox` |
| `ConflictResolution` | composes `SyncQueue` with concurrent resolution requests |
| `PullSync` | one dataset: table, change log, sweeps, purge, and devices with cursors |
| `DispatchCustody` | one dispatch under concurrent stamping requests |
| `FleetTrips` | one vehicle, its trips, refuels and odometer |
| `Approvals` | one fuel request and one maintenance ticket |
| `GoodsReceipt` | the GRNs of one business and day, with numbers, sign-offs and ledger |
| `ChangeFeed` | the change log with its transactions in flight, and delta pages read row by row |
| `Feed` | abstract: what the change log promises its readers |
| `Scheduler` | the ticks of several instances over the queues of several businesses |
| `Pagination` | a client that walks a changing list with the pagination toolkit |
| `ServerProcess` | one API process: pool, requests, jobs, shutdown |
| `SyncQueueProofs` | proofs of `SyncQueue`, its refinement, and `ConflictResolution` |
| `PullSyncProofs`, `DispatchCustodyProofs`, `FleetTripsProofs`, `ApprovalsProofs`, `GoodsReceiptProofs` | proofs of the module they are named after |
| `PagingProofs` | proofs of `ChangeFeed`, its refinement, and `Pagination` |
| `ProcessProofs` | proofs of `Scheduler` and `ServerProcess` |
| `MC*` | symmetry sets and constants for TLC |

**Grain.** One SQL statement outside a transaction is one step, and so is one
`withTransaction()` block: under READ COMMITTED with blocking reads its row locks
are held to the end, and a rollback leaves nothing. Between the steps of a
request, anything may run. Where a transaction is known to be interleaved by
something that matters, it is split: `GoodsReceipt` has the taking of the number
and the commit as two steps, joined by the lock that `HOLDLOCK` keeps, and
`ChangeFeed` has every statement of the transactions that `PullSync` takes as one.
`ServerProcess` is finer still: a step is what Node runs between two awaits.

**Data.** A payload is the few fields some property tells apart: readings from
`0..Max`, quantities from `-Max..Max` (neither the routes nor the services nor the
tables check the sign of what is delivered, returned, received or sent as a total), a
decision, a stage. Keys, names, users and texts are
model values or left out.

**History variables** (`overrun`, `torn`, `contended`, `races`, `lost`, ...) are
never read by an action of the code. They record that a specific overlap has
happened, so that a property can say exactly what has to go wrong before it may
fail. Each is set at the step where the overlap begins, never by its result.

**Mutants.** An operator with the comment *Mutant* is not part of the model: it
is the definition after it with a plausible bug, and is there to show that the
properties notice.

### SyncQueue
`Enqueue` and `PushAgain` are `enqueueItem()`; `Claim` is the one UPDATE of
`claimBatch()`, with the due rows (PENDING or FAILED, attempts left, delay
over) and the stuck ones. `ProcessorCommits`, `ProcessorConflicts` and
`ProcessorFails` are the three outcomes of a processor's transaction;
`MarkSynced`, `MarkConflict` with `LogConflict`, and `MarkFailed` are the
statements that follow. `age` and `wait` stand for `claimed_at` and
`next_retry_at` against the database clock, which `Tick` moves on. The backoff
with jitter is any delay up to its cap.

A round trip may fail before or after the server executed it:
`CommitReplyLost`, `MarkSyncedFails` (an error of `markSynced()` lands in the
catch block of the same row) and `MarkAborts` (an error in the catch block
leaves the loop); `Crash` drops a worker and leaves its claims.

`overrun` holds the items that were reclaimed while a worker still held them,
`torn` those where a fault fell between an effect and the record of it.

### Inbox and its refinement
An item is absent, open, synced, parked or dead. Its effect is written once and
only while it is open; synced needs the effect, parked and dead exclude it. A
disturbed item (`overrun \cup torn`) has a weaker promise: it is not forgotten,
what was written stays written, and synced still needs the effect. The mapping
shows PENDING, PROCESSING and FAILED as open. Claims, retries, ticks and the
processor's refusals are stuttering steps.

### ConflictResolution
Every action of `SyncQueue` goes on while requests resolve. `Resolve` is the
check of the log row, `Reapply` the processor with the override, `Finalize` the
transaction that fails, because it names a variable that is not in scope.

### PullSync
`Create` and `Write` are the service transactions with their change log row;
`Insert`, `Fix` and `HardDelete` are writes past the service layer, which is
what the sweeper is for. A sweep is `SweepList`, a `SweepEmit` per row,
`SweepListVanished`, then `SweepReadVersion` and `SweepTombstone` per row. A
snapshot request is `SnapshotRead`, a `SnapshotEmit` per row and
`SnapshotReply`; a delta is `DeltaCheck` and `DeltaReply`; `Reset` is the answer
to a stale cursor. The device is external: it applies the rows in key order, takes
a row if its version is newer than its own, and resumes with the cursor it
was given. `Age` and `Retention` purge, and no request lasts as long as the
retention window.

### DispatchCustody, FleetTrips, Approvals, GoodsReceipt
In each, a request has a first query that decides (`Read...`, `Check...`) and a
transaction that writes (`Stamp...`, `StartTrip`, `DecideFuel`, `SignOff`, ...)
whatever has happened since; `Fail` is a rollback or the end of the process.
The requests are never more than the constant lists, and each is made once.
`Moving` is the `> 0` in front of every stock movement: a line of the customer stamp
or of a receipt takes any quantity, the ledger the positive ones only.

### ChangeFeed, Feed and the refinement
`Bump` is the UPDATE of `recordChange()`, which keeps the row locked; `LogChange`
is its INSERT, which takes the next identity key and locks the new row (the two
are one step); `Commit` and `Rollback` end `withTransaction()`. A transaction may
log several entities, as `runGRNAutoClose()` does. A delta page is `Ask`, a `Scan`
per row, `Reply` or `LoseReply`. A scan goes along the index in key order, and
with `Blocking` it waits at a row whose transaction has not ended, which is what
SQL Server does under READ COMMITTED unless READ_COMMITTED_SNAPSHOT is on. No
script of the repository turns that on, but Azure SQL, which `src/README.md:135`
mentions for `DB_ENCRYPT`, has it on from the start: `Blocking` is an assumption
on the deployment, and `MCChangeFeedSnapshot` has what happens without it. That the
key is allocated and its row locked in one step is a coarsening; between the two, the
INSERT is a key that no scan can see or wait for.

`Feed` has neither transactions nor pages: changes are published in key order and
a device moves from one published change to another, getting all between. The
mapping publishes the committed changes behind the oldest key in flight
(`Stable`). The end of a transaction is `Publish`, an answer with rows is
`Advance`, the rest stutters.

### Scheduler
`Begin`, `Visit`, `Claim`, `Leave` and `EndTick` are the loops of
`processAllQueues()`; `Apply`, `Park` and `Fail` are what becomes of a row, and
`Abort` is the catch around the tick, or a crash. The rows of a business are the
stamps of one dispatch after another, which is the payload whose outcome depends on
the order of processing: all of them (`WholeChain`), or the last one, when the
earlier stages were stamped online. A claim takes the first rows by `queue_id`; the
rows of the batch are then processed in any order, since `OUTPUT` promises none and
the code does not sort them. `overtook` records the items that were processed while
an earlier one was still in their batch.

### Pagination
A client asks with the limit it likes, keeps the cursor of the answer, and starts
over when the cursor no longer verifies. `Params`, `PickParam` and `EffectiveLimit`
are the parsing, `EncodeCursor` and `Verifies` the codec, `PageOf`, `HasMore` and
`Anchor` the response. The sort columns are DATETIME2 and a cursor is made of a
JavaScript Date: `InMs`, external, is what the driver does between the two, and the
runs have two ticks of the column in a millisecond. `Ordered` is the query's ORDER
BY: it puts every row at its `Place`, one more than the number of rows before it.
The query is external, as the header of `utils/pagination.js` and migration 06
prescribe it, because no route uses the toolkit yet. A caller of the toolkit that
passes `hasMore`, `nextCursor` or `total` itself is left out.

### ServerProcess
`UsePool`, `JoinConnect` and `StartConnect` are the three ways out of `getPool()`;
`Open`, `ConnectFails` and `PoolError` are the callbacks of `mssql`; `Signal`,
`ClosePool`, `Exit` and `ForceExit` are `shutdown()`. The driver and the HTTP server
of Node are external. `disowned` holds the pools whose last reference was dropped
while they were alive. A `Query` is one statement; the next one asks `getPool()`
anew, or stays on the pool of its transaction, and `QueryFails` is one that an open
pool refuses, which rolls the transaction back and ends the call. The driver is not
part of the repository; `pool.connected` is taken to turn false by `close()` only,
so without an `'error'` event it is false during the shutdown and never else (were
it otherwise, `db.js:143` would hand out the old promise again and again).

## 3. Runs and bounds

Passing runs:

| run | states | instance |
|---|---|---|
| `queue` | 2.8 M | 2 items, 2 workers, batches of 2, 2 attempts, 1 fault or requeue; with the refinement |
| `conflicts` | 0.5 M | 1 item, 2 workers, 2 managers, 2 faults, 1 requeue; with liveness |
| `pull` | 1.2 M | 2 entities, 1 device, pages of 1, 1 write, 1 purge, 1 fault; with liveness |
| `custody` | 103 k | 5 stamping requests, 1 overriding, 2 lines, quantities -1..1 |
| `trips` | 0.5 M | 5 requests with refuels, 1 overriding, readings 0..1 |
| `approvals` | 0.1 M | 5 requests, moving threshold |
| `receipts` | 1.1 M | 2 creators, 2 signers, a manual movement, 2 lines, quantities -1..1 |
| `feed` | 95 k | 3 transactions at a time, 2 entities, 5 keys, 1 device, pages of 2; with the refinement and liveness |
| `scheduler` | 159 k | 2 instances, 2 businesses, 3 stamps, batches of 2 in any order, 2 passes, endless pushes, 1 error; with liveness |
| `pages` | 86 k | 4 rows, 4 times in 2 milliseconds, limits 1 to 3, 1 new secret; with liveness |
| `process` | 263 k | 2 requests of 2 statements, 1 job, 3 pools, 2 faults; with liveness |

Further instances of the same properties are kept for changes of the code and are
run by hand, since each takes a question of the list above to other bounds:
`MCSyncQueueRow.cfg` (1 item, 3 workers, 3 attempts, 2 faults, 2 requeues, 1.0 M
states), `MCConflictResolutionWide.cfg` (3 workers, 1.4 M), `MCPullSyncWide.cfg`
(2 writes, 5.8 M), `MCPullSyncTwo.cfg` (2 devices, 2 sweeps, 0.4 M) and
`MCReceiptStock.cfg` (all payloads of 2 lines with quantities -1..1, 46 k; the run has
a few kinds of lines, since it has signers beside them). The type
invariant of the queue is part of its run; those of the other modules hold too and
are checked by adding `TypeOK` (`CronTypeOK`, `WalkTypeOK`) to `INVARIANTS`. The
properties marked *proved* below are theorems and in no run; TLC agrees with them
on the instances of the runs and, for the queue and the pull, in the configurations
by hand (`MCSyncQueueRow`, `MCPullSyncTwo`, `MCPullSyncWide`).

Why these are enough to meet the cases. *Queue*: two workers are needed for an
overrun claim, three for a stale worker whose row has been taken over and settled by
a second and is then touched by a third (`MCConflictResolutionWide`,
`MCSyncQueueRow`); two attempts are a first and a last failure, three add one in the
middle; two items in one batch let a worker abort with a row left over; one fault is
each single point of failure. `MaxIncidents` = 1 lets a behaviour of `queue` have a
fault or a manual requeue; both together are in `conflicts` and `MCSyncQueueRow`,
and the refinement with any number of either is proved. *Pull*: pages of one row
with two entities make every snapshot span pages, and two writes are a change before
and one after a page (`MCPullSyncWide`); two sweeps are needed for a double
tombstone (`MCPullSyncTwo`). *Requests*: a stage, trip or ticket takes up to four
requests to go through, so five leave room for an overlapping retry; readings 0..1
have a smaller, an equal and a larger one, and quantities -1..1 one that moves
stock, one that does not, and one with the wrong sign. *Feed*: three transactions
are one that commits behind a key in flight and one that commits before it, two
entities let one transaction hold a lock another waits for, and five keys outlast a
page, a rollback and a page again. *Scheduler*: of three stamps in batches of two,
two share a batch and one comes in another pass or, with a cap of two passes,
another tick; two businesses are one that fails or never stops and one that waits;
devices push without end, so the capped pass is met again and again. *Pages*: four
rows with two times in each of two milliseconds are ties of both kinds within and
across pages of up to three. *Process*: three pools are a first one and a reconnect
after each of two faults.

Deadlock is checked in `feed` and `scheduler`, where something always goes on. It
is off in the others, since their bounded instances come to an end when requests,
writes and faults are used up, and a process exits. Symmetry is used in
safety runs only, and never among sets of which some member is distinguished (the
overriding requests).

### What the properties say
- `BudgetRespected`, `ExclusiveClaim`, `AppliedAtMostOnce`, `NoPhantomSync`,
  `ConflictOnRecord`, `SettledStays`, `Drains` (SyncQueue): attempts agree with
  the status; a row is held by one worker, which alone moves it; effects are
  written once; nothing is called safe without an effect; parked rows and open
  conflicts agree; settled rows stay; every row is settled in the end.
- `ImplementsInbox`: the queue is an inbox.
- `OverrideOnlyParked`, `OneWayIn` (ConflictResolution): an override falls on a
  row parked at that moment, and no item is written by both ways.
- `LogOrdered`, `NothingMissed`, `Converges`, `Bootstraps` (PullSync): the log has
  the versions of an entity in order up to its tombstone, which only tombstones
  follow; what a device lacks is ahead of it, or it will be reset; it gets through
  its snapshot and ends up with the table.
- `NothingSkipped`, `ImplementsFeed`, `Delivered` (ChangeFeed): a device has every
  committed change up to its cursor; the log is an ordered feed; every committed
  change arrives.
- `ChainUnbroken`, `StatusTellsStage`, `StockMatchesLines` (DispatchCustody): no
  stage without the one before it; the status is that of the last stamp; the ledger
  has every positive quantity of the lines, and more only after overlapping customer
  stamps.
- `OneOpenTrip`, `BusyWhileOpen`, `TripsInSequence`, `RefuelsAddUp`,
  `OdometerMonotone` (FleetTrips): also of what devices are told of the vehicle.
- `DecisionsStand`, `TwoSignatures`, `WorkIsApproved` (Approvals): a decision on a
  request or ticket is never undone nor parted from its payout, and not replaced by a
  later one; an expensive ticket has both signatures; work follows an approval.
- `NumbersSequential`, `StockCoversHeader`, `SignOffStands` (GoodsReceipt):
  numbers are gapless and unique; a header claims no more stock than the ledger has,
  though the ledger takes positive quantities only, the header sums or is given its
  totals, and the status has operands of its own; a sign-off stands, and the devices
  know the note that stands in the row.
- `NoFalseConflict`, `TickServesAll`, `EveryBusinessDrains` (Scheduler): a stamp is
  parked only behind one that overtook a row of its own batch, never because of the
  batches, passes and ticks it was drained in; a tick that ends has served whoever had
  work; nobody starves.
- `WalkOrdered`, `WalkEnds` (Pagination): pages never overlap, leave out no row that
  was there all along but those in the millisecond of the last row of a page,
  and a walk ends.
- `OnePool`, `NobodyCutOff`, `Reconnects` (ServerProcess): one pool for all; a
  graceful stop answers the requests it has accepted; an outage passes.

*Proved* (section 6), mostly what the liveness properties rest on:
- `WorkersRunDown`, `RowsRunDown` (SyncQueue): an invocation comes closer to its
  return with each step, a row closer to being settled each time it is served.
- `CaughtUpIsCurrent`, `PullsAdvance`, `CopiesAdvance` (PullSync): a device with
  nothing before it in the log has the table, up to the next sweep; pulls do not go
  in a circle; no answer replaces a copy by an older one, and no delta page brings
  back what a tombstone took away.
- `ScansAdvance` (ChangeFeed): an answer takes the cursor on, or finds nothing
  behind it, committed or in flight; no change arrives twice.
- `TicksRunDown` (Scheduler): a tick comes closer to its end with each step, however
  many rows keep coming in.
- `WalkAdvances` (Pagination): every page takes the cursor down or is the last.
- `FailuresForgotten`, `CallsRunDown` (ServerProcess): no later call gets the promise
  of a connect that failed, and callers are refused over nothing but a connect
  that failed while they waited, a statement of their own that failed, or the
  shutdown; a statement takes three steps, however often the pool is lost.

The exceptions in them are the result: `AppliedAtMostOnce` shows that double writes
come from overrun claims and torn effects *only*, `OneOpenTrip` that a second open
trip needs two overlapping starts, an override or a payload naming the open trip,
and so on. An exception is no claim that its race does not happen: it does, in the
code as in the model, wherever two requests read before either writes (hazards at
`fleetService.js:168`, `:366`, `:486`, `warehouseService.js:191`, `:353`) and
wherever a pool is forgotten (`db.js:151`). Where a sentence of the repository excludes
it, a claim of section 5 shows it. The property bounds the damage: nothing else causes it, and where the race did, a weaker
promise still holds (the ledger has not less than the lines, the sign-off stays and
the devices know its note, decision and payout are one manager's). `Drains` leaves
one case aside: faults are bounded, so a payload that kills its worker each time,
and is reclaimed for ever, is out of its reach.

## 4. Fairness

`SyncQueue!Fairness` is weak fairness of a worker's own steps (a Node process
that has neither crashed nor returned goes on), of `Claim` (the cron starts
`processQueue()` every tick, `jobs/scheduler.js:45`) and of the clock. Nothing is
assumed of devices, managers or faults. `ConflictResolution!CRQueueFairSpec` is the
same with the managers' variables beside it, and owes nothing of the managers;
`CRFairSpec`, used by `MCLoopCloses` only, has a manager who keeps resolving what
is listed. `PullSync!FairSpec` is weak fairness of sweeps (cron,
`jobs/scheduler.js:143`) and of a device that keeps pulling; table writes, purges
and lost answers owe nothing and are bounded, and `Converges` speaks of the time
after them.

`ChangeFeed!FairSpec` has a device that keeps pulling, and that every transaction
ends, by commit or rollback: `withTransaction()` does one of the two, and the
driver's request timeout turns a lost statement into an error. `CronFairSpec`
has each instance going on with its tick and ticking again, and the clock passing
retry times; errors are bounded, pushes are not. `WalkFairSpec` has a
client that goes on asking. `ServerProcess!FairSpec` has the event loop running
what is ready and a connect that succeeds unless it fails (the driver's connection
timeout); the forced exit needs no fairness, because it is a way out and not one
that anything depends on. No liveness run uses symmetry.

## 5. Where the code and its documents disagree

The properties of the passing runs carry exceptions (`overrun`, `torn`, `contended`,
`lost`, ...). Where a sentence of the repository excludes such a case, a property without the
exception states it, in the last part of its module; TLC finds it violated.
One is a run of the list, in `PROJECT.json` under findings with the sentences it
quotes: in `reapplied_once`, `finalizeResolution` always fails
(`conflictService.js:162`), so no resolution is ever recorded, and the same conflict
is resolved, and written, again.

The others are reproduced by hand with `tlc -config <cfg> <module>`. A
configuration with several claims has one of them active and the others in comments:
check one at a time.

| configuration | claim | sentence | what happens |
|---|---|---|---|
| `MCPullSyncClaims` | `ConsistentContinuation` | `syncPullService.js:103` "see a consistent continuation" | a change between snapshot pages is behind the final cursor, which is the largest key of the last page (`:206`), and is never delivered |
| | `ContinuityProven` | `syncPullService.js:23` "MUST re-bootstrap" | a purge that empties the log, or runs between check and page, is not noticed |
| | `SoftDeletesTombstoned` | `constants.js:144` | deactivated rows reach devices as upserts |
| `MCBootstraps` | `Bootstraps` | `syncPullService.js:20` | the snapshot of GRNs and dispatches filters by `is_active`, which they lack |
| `MCDispatchCustodyClaims` | `StockMovedOnce` | `openapi.yaml:1242` "Every stage is idempotent" | overlapping customer stamps move the stock twice (`warehouseService.js:353`) |
| | `StockMovedAsDelivered` | `warehouseService.js:508` "delivered qty leaves stock; returns come back" | a quantity below 0 is stored in the line and moves no stock: nothing checks its sign |
| | `DriverStampIdempotent` | `warehouseService.js:340` | a late driver stamp takes a delivered dispatch back to IN_TRANSIT |
| `MCSyncQueueClaims` | `ClaimsDisjoint` | `syncQueueService.js:111` "claimers always receive DISJOINT sets" | a slow worker's row is reclaimed: two live workers hold it |
| | `ParkedIsListed` | `syncError.js:7` | an interrupted `markConflict` parks a row that nobody is shown |
| | `ConflictNeverRetried` | `syncError.js:9` "NEVER retried automatically" | the slow worker's `markFailed` reopens a parked conflict |
| `MCLoopCloses` | `LoopCloses` | `conflictService.js:10` "closes the loop atomically" | the row of a resolved conflict never becomes SYNCED |
| `MCFleetTripsClaims` | `TwoOpenTripsNever` | `guards.js:120` "may not have two open trips" | overlapping starts open two trips |
| | `OdometerNeverBack` | `guards.js:106` | an overtaken odometer update takes the reading back |
| | `VehicleFreed` | `openapi.yaml:503` | ending at a reading already recorded leaves the vehicle ON_ROUTE |
| | `EndingAgainChangesNothing` | `fleetService.js:225` | overlapping ends replace a completed trip's reading |
| `MCApprovalsClaims` | `OnlyPendingDecided` | `openapi.yaml:672` | overlapping fuel decisions overwrite each other |
| | `OpsFromPending` | `openapi.yaml:839` | a slow OPS approval takes back the MD's |
| `MCGoodsReceiptClaims` | `SignedOffOnce` | `openapi.yaml:1079` "one-shot" | overlapping sign-offs replace the credit note |
| | `StatusFromTotals` | `openapi.yaml:968` | with some totals given, the status is not that of the stored totals |
| | `PartlyRejectedIsPartial` | `syncBatchIdempotency.test.js:119` | 90 received and 10 rejected of 100 is COMPLETE, where the test expects PARTIAL |
| | `MovementsAreRecorded` | `warehouseProcessors.js:16` | manual stock movements always fail: `@quantity` is not bound (`warehouseService.js:615`) |
| `MCSchedulerUnordered` | `StampedInOrder` | `syncBatchIdempotency.test.js:137` "DISPATCH_ACK stamps the custody chain in order" | the claimed rows have no order (`syncQueueService.js:124` has no ORDER BY on its OUTPUT): a stamp may run before the one it requires and is parked as a conflict |
| `MCPaginationTicks` | `NothingLeftOut` | `utils/pagination.js:12` "(created_at, id) keysets" | rows that share a millisecond with the anchor are left out: a cursor keeps epoch milliseconds, a DATETIME2 has finer fractions |
| `MCServerProcessClaims` | `PoolKept` | `db.js:135` "kept open for the lifetime of the app" | the `'error'` handler forgets an open pool without closing it, and the next caller opens another |

One more, `MCChangeFeedSnapshot`, takes away the blocking reads that the code leaves
to its database (READ_COMMITTED_SNAPSHOT on): a delta page passes a key in flight,
and the change is never delivered.

## 6. Proofs

Every safety invariant and action property of a passing run, and both
refinements, are theorems: they hold for every set of items, workers, requests,
lines, transactions, entities, devices, instances and pools, and for every bound.
`PROJECT.json` lists them. What they assume:

- the assumptions named in the modules (`ConstantsAssumption`, `PullAssumption`,
  `CustodyAssumption`, `FleetAssumption`, `ApprovalsAssumption`,
  `ReceiptAssumption`, `FeedAssumption`, `SchedulerAssumption`,
  `PaginationAssumption`, `ProcessAssumption`): sizes are numbers, batches, pages and
  limits are not empty, "no item" is not an item, and the sets whose members are
  counted or summed (requests and lines of a receipt) are finite;
- `Blocking` for the change feed. Section 5 has what happens without it;
- `IsFiniteSet(Businesses)` for the first part of `TickOrderIsWellFounded`.

All proofs have one shape: an inductive invariant, which is the conjunction of the
type invariant and named parts, a lemma per part with a step per action, and the
theorems as its consequences. The parts are what is worth reading, for they say
why a property holds: nearly all describe what a request, a worker or a tick that
has read something may still rely on when it writes.

**SyncQueueProofs.** The properties need each other: that effects agree with rows
(`EffectMatchesRow`) needs to know who may still mark a row (`ExclusiveClaim`), and
that needs the shape of a worker's memory in each phase (`WorkerShape`: an idle
worker holds nothing, a busy one has a current row that is no longer in its batch).
`ConflictOnRecord` is strengthened to say that a conflict being logged is not yet
open (`LogMatchesRow`), and `NoPhantomSync` by the worker that is about to say
SYNCED (`EffectBehindSync`). `SettledRowsStay` is the action property: the
statements that could reopen a settled row are issued by a holder, and a sole
holder's row is not settled.

`QueueImplementsInbox` is the refinement. `InboxStep` maps each action: `HeldRow`
tells that an undisturbed item in the hands of a worker is PROCESSING with no
effect yet, which makes its next mark a step of the inbox, and `Suffering` covers
every step on a disturbed item. One more invariant, `HeldIsPresent`, is proved on
the way.

The resolution requests run on top of the queue, so every step of
`ConflictResolution` is a step of `SyncQueue` or leaves it alone (`QueueView`), and
the invariant of the queue is inherited. What is added: a request has a conflict
behind it (`RequestsHaveConflict`, `ForcedHaveConflict`), conflicts are never closed
(`OpenGrows`), and a listed conflict of an undisturbed item is parked
(`OpenIsParked`).

**PullSyncProofs.** The argument goes from the log to the devices. `Keys` has the
log as an initial segment of keys cut off from below by the purge; `Versions` that a
version is one content of a row and no newer than the row. `Covered` relates the
two sides: up to its tombstone the log of an entity reaches at least up to the
versions that are on a device or on their way to one, and a tombstone lies above
all of them, so the version guard of a device and the order of the keys agree on
which change is last. For that, sweeps: what is about to be tombstoned is gone from
the table (`Doomed`) and the version of the tombstone is above everything that is
out (`Tombstoning`). `Requests` says how far a snapshot or a delta has come.
`Delivered` is `NothingMissed` for a device in the middle of a request: of every
entity it has passed it sees what the last log row says, or a row of the entity is
still ahead of its cursor.

Two things came out of it. `LogOrdered` used to say that versions rise through
the tombstones too; two sweeps that overlap append their tombstones in any order
of versions, and the property is now the one that holds. And `NothingMissed` does
not hold of a device that makes its snapshot on top of an old copy. It does so when
the last page of its first snapshot is empty: no row comes, so `nextCursor` is 0 and
`snapshotAfterKey` missing (`syncPullService.js:206-215`), which is what a device at
the very start sends. A row that was deactivated or deleted between the
two is not in the second snapshot, nor ahead of the cursor it ends at. `Kept`
records those rows; they count as lost until the device is reset.

What a device may expect of its pulls follows. `CaughtUpDevicesAreCurrent`: with
no log row before it, neither the watermark nor a page can be the reason why a
device lacks something, so of the cases of `NothingMissed` only the sweep is left;
two devices that have caught up therefore agree. `PullsGoForward`: a page of the log
is empty only if nothing is after the cursor (`DeltaComes`, by the oldest of what is
newer), a page of a snapshot that is not the last one ends behind its start (a part of
`Requests`), and only `Reset` takes a cursor back. `CopiesGoForward`: a row is applied
for a newer version only (`AppliedIsNewer`), and `LogOrdered` has only tombstones
after a tombstone (`DeletedStays`).

**DispatchCustodyProofs.** A request that is about to stamp still has its
prerequisite, since stamps are never taken away (`WriterMayStamp`), and unless two
such requests of one stage exist, its stage is not stamped (`FirstWriter`). So the
first customer stamp finds lines and ledger empty, which `StockMatchesLines` says
itself, and each one adds to the ledger at least what it writes into the lines.

**FleetTripsProofs.** The log has the vehicle as it is (`PublishedIsRow`); a checked
reading was at or past the odometer that was read (`CheckedReadings`), and no
completed trip is past the odometer (`BehindOdometer`). A trip that is about to be
ended is open and has one ender (`KnownTrips`), a start about to be written is
alone and finds no open trip (`LoneStart`, `Busy`), a refuel about to be written has
read the latest one (`RefuelChain`): each as long as the race that would take it
away is not on record. `OdometerNeverRegresses` needs no exception but the
overtaken odometer update: a trip's end and an overridden start write the larger
of two readings.

**ApprovalsProofs.** The one decider of a request finds it open (`StillOpen`), an
approval that let the MD or the workshop go on is not taken back (`StillGranted`),
and while the threshold stays, an expensive ticket is granted only with a signature
of OPS (`FixedThreshold`).

**GoodsReceiptProofs.** A transaction has counted exactly if it holds the lock
(`LockHeld`), so what it counted still holds when it commits (`CountStands`). A
sign-off that read an outdated row overlaps the one that overtook it
(`SharedIsContended`, `SignedIsOver`). Header and ledger are sums over the same
lines, of different quantities: the ledger has those above 0. That a sum of larger
numbers is larger (`SumMonotone`), and within bounds, is an induction over the set of
lines. The provers cannot instantiate
an induction theorem, so the proof takes a counterexample with the fewest lines
(`SmallestOf`, from well-foundedness) and removes one more (`SumUnfolds`, `SumGrows`,
`SumExists`, `SumIs`, `SumBounds`).

**PagingProofs**, change feed. The invariant says that a key names one row, committed
or in flight (`KeysUnique`), that one transaction holds an entity and logs it once
(`OneHolder`), that a version in flight is the next one and behind all logged ones
(`VersionsFollow`), and, what the rest is for, that every key in flight is ahead of
every cursor and scan and a page has all there is between the two
(`ScansComplete`). `NothingSkipped` alone is not inductive: a commit could add a
row behind a cursor. For the refinement, `ClosePublishes` shows that the end of a
transaction publishes behind all that is published, since a row that was committed
and not stable is behind a key in flight, and `ReplyAdvances` that a page ends at a
stable row. `ScansGoForward` says that an empty answer is the whole truth: nothing is
behind the cursor, not even in flight.

**PagingProofs**, pagination. `Places` shows that each row of a list has a place of
its own, and, by the pigeonhole principle, that each place has its row;
`OrderedIsSorted` and `PageFacts` follow: a page is what comes first below the
cursor, and what it leaves out comes after its last row. `LimitsPositive` shows that
no limit below 1 passes the validation, without which a page could be empty and have
no anchor. The invariant adds that the cursor names the last row the client was
given (`AtAnchor`). It needs no assumption on the precision of the sort column
(`WalksLoseOnlyTies`): rounding the anchor's time down (`MsFloor`) can only put rows
of its millisecond out of the rest of the walk, never show one twice (`CutOffTies`).

**ProcessProofs**, scheduler. A row that is not settled has an attempt left
(`AttemptsLeft`); a batch is PROCESSING rows of the business the tick is at, and no
two ticks share one (`Held`). An undisturbed business is drained in line (`Orderly`):
the synced rows are those up to the last stamp, one tick has a batch of it, and
below a row of the batch is nothing that is not in the batch too or settled. The
last is what `TOP ... ORDER BY` provides (`FirstOfIsClosed`) and what keeps the
disorder inside the batch: a row that finds its stamp missing was either
processed before an earlier row of its batch, or comes after one that was
(`RowOrderly`). For `TicksServeAll`, a hungry business has unclaimed work
and the tick is still to come to it (`Awaited`); `RunnableStays` shows that such
work only goes by a claim.

**ProcessProofs**, server. Who holds a pool holds one that was connected or is being
(`References`), pools are closed when every accepted request has its answer
(`ClosedLast`), and the promise is the one handle on a pool that was not disowned
(`OneHandle`).

**Progress.** What the prover cannot do, liveness, rests on fairness and on a measure
that falls; the measures are theorems. They say what a bounded run cannot: that the
number of steps does not depend on what the others do.
- *Queue.* `WorkersComeToAnEnd`: each step of an invocation empties its batch or
  takes its current row through `Distance`, also when the step is a fault, and no
  step of anyone else touches it (`WorkerAlone`). `RowsComeToRest`: a row has its
  budget of attempts and, within one, a `Stage`; serving it spends the one or the
  other (`ClaimedRow`, `StartedRow`, `MarkedRow`, `WorkedRow`), and no step about
  other rows gives any back (`BystanderRow`, `OutsideRow`). The exceptions are a
  fault of the row's own worker, a manual requeue and an overrun claim, and they are
  the known gap: a payload that kills its worker each time spends no attempt.
- *Scheduler.* `TicksComeToAnEnd`: each step of a tick takes it to fewer businesses to
  come, a later pass, or a smaller batch. `TickOrderIsWellFounded` makes that
  a descent in a well-founded order, so a tick has finitely many steps although the
  rows that come in have no bound; a bounded run can only show it for its own size.
- *Process.* `CallsComeToAnEnd`: three steps for each statement, and nothing that
  happens to the pools takes a caller back; that one that asks anew does not wait on
  the connect that failed is `FailuresAreForgotten`.
- *Pages, feed, pull.* `WalksAdvance`, `ScansGoForward`, `PullsGoForward`.

**Model-checked only.** Liveness (`Drains`, `Converges`, `Bootstraps`, `Delivered`,
`EveryBusinessDrains`, `WalkEnds`, `Reconnects`) is outside the prover: it has no
rule for `ENABLED` under fairness. `FairSpec` of each module implies the `Spec` the
theorems are about. No module declares a RECURSIVE operator.

## 7. Plan

1. `SyncQueue`, `Inbox`, proofs, refinement: done.
2. `ConflictResolution`, `PullSync`, `DispatchCustody`, `FleetTrips`, `Approvals`,
   `GoodsReceipt`, with proofs: done.
3. `ChangeFeed` with `Feed` and refinement, `Scheduler`, `Pagination`,
   `ServerProcess`, with proofs: done.
4. The safety half of the liveness properties, as measures that fall; what a
   cursor in milliseconds guarantees on a finer sort column; what a device may rely on
   when it has caught up: done.
5. Next: the snapshots of `PullSync` with their transactions in flight, as
   `ChangeFeed` has them for the deltas.

## 8. Modelled by their effect

- *GRN escalation*: its transaction touches old unsigned GRNs and logs each: a
  transaction of several changes in `ChangeFeed`, the action `Write` of
  `PullSync` for a row at a time. Which rows it takes is left out.
- *Database layer*: `withTransaction()` commits a block or has no effect, statement
  by statement in `ChangeFeed`; its pool is `ServerProcess`.
- *Processors*: an outcome in `SyncQueue`, the stamps of a dispatch in
  `Scheduler`, the service's requests in the component modules.
- *Starting and stopping the scheduler*: jobs arrive in `ServerProcess` until the
  signal; a job in flight is cut by the exit, which is `Crash` of `SyncQueue`.

## 9. Not modelled

- *Stock counts, returns, vehicle checks*: inserts that read no state but master
  data; applied twice by the queue they are inserted twice, which is
  `AppliedAtMostOnce`. *Dashboard*: reads. *Uploads*: a file under a fresh random
  name, seen by no other request until its URL is handed out.
- *Authentication*: one token and one user row read per request, single-row
  updates, and a registration whose race the UNIQUE constraint settles.
- *Several datasets in a pull*: independent of each other.
- *Unbounded crashes*: a payload that kills its worker each time is reclaimed for
  ever, because a stuck claim is taken whatever its `retry_count`
  (`syncQueueService.js:136`); the runs bound their faults.
- *Totals given as null*, which `??` treats as absent and the status derivation
  too in part; *dispatch numbers*, which come from the same helper as GRN numbers.
- *Views*, among them the stock position, whose intended meaning for adjustments and
  counts is written down nowhere; *migrations*; reading the *configuration*; the
  types of query parameters; the driver itself.
