# Verification of the LeaseFlow protocol backend

TLA+ models of the LeaseFlow backend (a Node.js service around SQLite, Redis
with BullMQ queues, and the Stellar network), the TLC configurations that check
them, and theorems about them with TLAPS proofs. Paths are relative to the root
of the repository; a definition carries the name of the function it models
wherever TLA+ allows it.

    tlc -workers 2 -config RentEscrow_all.cfg MCRentEscrow
    tlapm RentEscrowProofs.tla

`PROJECT.json` lists the components, the runs, the mutants (for each property
a plausible bug in the code that the property catches), the source lines of
each definition, the findings, the hazards and the theorems.

## 1. The system

One Node process (`index.js`) serves REST, GraphQL and websockets; a second one
(`worker.js`) polls the chain. Both share a SQLite file through `node:sqlite`
(every statement is synchronous and autocommitted unless wrapped in a
transaction) and a Redis server (pub/sub, caches, BullMQ queues).
Concurrency is of three kinds: callbacks and async functions of one process
interleave at every `await`; the two processes interleave at every statement;
BullMQ jobs run up to five at a time, are retried with backoff, and are handed
out again when their worker stalls. Crashes happen between any two statements.

| component | state | operations | what makes it correct | model |
|---|---|---|---|---|
| Rent escrow | `rent_escrows`, `escrow_transactions`, `repair_verifications` | create, release, return, split, cancel, photos, confirm, reject, auto-release sweep | an escrow pays out once and exactly what was withheld; the log agrees with the status; answers are not overridden; a fault strands one escrow at most | `RentEscrow` |
| Event poller | `last_ingested_ledger` in SQLite, jobs of `soroban-ingestion` | poll every interval, emergency advancement, operator's reset | no event is skipped, and a bad event does not stop ingestion | `EventPoller` |
| Rent dunning sequencer | `dunning_sequences` | pub/sub handlers, daily tick, steps on days 1, 3, 5 | nobody is locked out unwarned or after paying; a delinquency is followed up as far as the lock, a payment ends the sequence | `RentDunning` |
| IoT webhook dispatcher | queue `iot-webhook-dispatch`, `smart_locks`, audit log | enqueue, worker, retries | every dispatch is delivered, or given up with an audit entry after its attempts | `IotDispatcher` |
| RWA ownership cache | `asset_ownership_cache`, `asset_transfer_events`, `rwa_contract_registry` | stream handlers, periodic sync, read-through, invalidation | the cursor passes only events that were tried; no burn is invented; a pass of the sync job that nothing disturbs leaves the rows as the chain has them | `RwaCache` |
| Dead letter queue | three BullMQ queues, Redis ledger pointer | attempts, move to DLQ, alert, retry, removal | no event vanishes but to a fault before its dead letter is written; the pointer names an event that was settled | `DeadLetterQueue` |
| Payment tracker | `payment_history`, `leases`, cursor in memory | poll, match to lease, status, balance, credit | every payment is recorded and credited once; the cursor passes only what was tried | `RentPayments` |
| Lease status cache | a map in front of `leases` | miss, fill | never ahead of the lease | `RentPayments` |
| Graceful shutdown | flags, sockets, registered queues and jobs | nine steps on a signal | clients that wait and work that was stopped find the database open; it ends | `GracefulShutdown` |
| Smart lock gateway | `smart_locks`, `digital_keys`, vendors' tokens | pair, issue, revoke, enforce, unlock with token refresh | tokens survive overlapping refreshes; a key that enforcement reported revoked never opens again | `SmartLock` |
| Everything else | | | | not modelled, section 7 |

**How they interact.** The poller hands events to the ingestion queue
(`addEvent`); the queue's workers and the `failed` listener move their own
ledger pointer (`EventPipeline` models the two together). Redis pub/sub carries `RentDelinquencyStarted` and
`RentPaymentExecuted` to the sequencer, and `LesseeAccessRevoked` and
`LesseeAccessGranted` to the dispatcher. The sequencer enqueues the day-5
revocation in the dispatcher, which looks up the lock that
`SmartLockGatewayService` paired. Rent escrow requires an open maintenance
ticket of `VendorService`. The sync job and the cache service are about the
same cache rows, of which only the job's `UPDATE` is accepted (section 4).
`GracefulShutdownService` pauses and closes the queues registered with it.

**The hard behaviours** are the hazards of `PROJECT.json`, each at its line:
read-await-write on rows that another callback changes; two autocommitted
statements where one transaction was meant; timers that start work while the
last one still runs; streams and jobs delivered twice or out of order; messages
lost while a process is down; restarts from stale cursors.

## 2. Modules

| module | models | uses |
|---|---|---|
| `EscrowContract` | what an escrow promises: held, decided once, each party paid once | |
| `RentEscrow` | `src/services/rentEscrowService.js`, statement by statement | `EscrowContract`, as `Contract` |
| `RentEscrowProofs` | its theorems, and that it implements `EscrowContract` | `RentEscrow` |
| `EventPoller` | `src/jobs/eventPoller.js`, `worker.js:86-110`, the reset of `dlqRoutes.js` | |
| `EventPollerProofs` | its theorems | `EventPoller` |
| `DeadLetterQueue` | `src/services/dlqService.js` with the queues it configures | |
| `EventPipeline` | the poller in front of the queues, as `worker.js` runs them | `DeadLetterQueue`; `EventPoller`, as `Poller` |
| `EventPipelineProofs` | the theorems of `DeadLetterQueue` and of `EventPipeline` | `EventPipeline`; `EventPollerProofs`, as `PollerProofs` |
| `RentPayments` | `services/rentPaymentTrackerService.js`, `src/jobs/paymentTrackerJob.js`, `src/services/LeaseCacheService.js` | |
| `RentPaymentsProofs` | its theorems | `RentPayments` |
| `IotDispatcher` | `src/services/IoT_Webhook_Dispatcher.js` with the queue it configures | |
| `RentDunning` | `src/services/RentDunningSequencer.js` | `IotDispatcher`, as `IoT` |
| `RentDunningProofs` | its theorems | `RentDunning` |
| `SmartLock` | `src/services/smartLockGatewayService.js` | |
| `SmartLockProofs` | its theorems | `SmartLock` |
| `RwaCache` | `src/services/rwa/stellarEventListener.js`, `src/jobs/rwaCacheSyncJob.js`, `src/services/rwa/rwaCacheService.js` | |
| `RwaCacheProofs` | its theorems | `RwaCache` |
| `GracefulShutdown` | `src/services/gracefulShutdownService.js` and what `index.js` registers with it | |
| `GracefulShutdownProofs` | its theorems | `GracefulShutdown` |
| `MC...` | constants for TLC | |

### RentEscrow

State: the status of each escrow, its ticket, the tenant's answer, whether the
verification has expired, the amounts in the transaction log by kind (as a
percentage of the disputed rent), and the operation in progress (`pc`, `cur`).
`node:sqlite` is synchronous, so a request runs from its first statement to
its last without another one in between; but each statement commits on its
own. Every operation is therefore a chain of actions, one per
statement (`releaseEscrowToLandlord`, then `releaseEscrowToLandlord_log`), and
between two of them the process may crash (`Crash`) or the next statement may
throw (`StatementThrows`; the sweep catches it and goes on to the next row).
A request that the guards refuse changes nothing and is not an action. `Expire` is the passing of
`auto_release_days`; `UpdateTicket` is the vendor service.

`EscrowContract` is the abstract specification: a rent is held, one decision is
taken about it, and after the decision each party the decision names is paid at
most once, together never more than was held. `Contract` is the refinement
mapping: the status is the escrow's, what the landlord got is the sum of the
rows `release` and `split_landlord`, what the tenant got the sum of `return`,
`split_tenant` and `refund`. Deposits, verifications, answers, sweeps, crashes
and failing statements are stutters of the contract.

### EventPoller

State: the chain's head, the pointer in SQLite, how often each event was
queued, and per poll its phase, the ledger it read, the page and the index.
One action per await: `Start` reads the pointer, `Fetched` is the RPC answer
(or `NothingNew`), `Enqueue` hands over one event, `Finish` writes the pointer,
`EmergencyAdvance` is the catch block. Polls overlap because `setInterval` does
not wait. `skipped` and `interfered` are history variables: the ledgers that an
emergency advancement or a reset jumped over, and whether polls overlapped or
the operator reset the pointer. A response is a page (`IsPage`), which the server
may end inside a ledger; `cutOff` remembers the events of such a ledger (`Rest`)
that the pointer then passes. `LedgerOf` and `Kind` give the chain's content:
lease events, ignored ones, and malformed ones at which the loop throws.

### DeadLetterQueue

State: per event its ingestion job with attempts and stalls, the step of
`moveToDlq` the listener is at, its dead letter, and the retry queue as a
sequence. An action is what happens between two awaits: the handler of a job,
then the Redis pointer; the add to the DLQ, the alert, the pointer. `Throws`
are the event types whose handler does not exist in `dlqService.js`. A crash
puts running jobs back once (`maxStalledCount`) and loses the listener's work;
`cut` remembers the events that lost their dead letter that way.

### EventPipeline

The poller and the queues of one worker process. A step is a step of one of
them, or of both: `pollLeaseEvents_adds` is the round of the poller's loop that
queues an event and the `addEvent` that makes a job of it, and a crash
(`WorkerCrash`) takes polls and workers down together. `addEvent` gives jobs no
identity, so an event polled twice is two jobs: the queue's events are pairs of
an event of the chain and the number of the job made of it. Each poll that
finds events calls `initialize`, which starts five more workers; `Slots` counts
the workers of all. The pointer the poller reads (`lastIngested`, in
SQLite) and the one the queues write (`pointer`, in Redis) are two variables,
as they are in the code.

### RentPayments

State: the account's operations on Horizon (`ledger`, numbered in the order
their paging tokens have), the cursor in memory, the polls under way, the rows
of `payment_history` in the order they were inserted, and of each lease what a
payment changes. `StartPoll`, `FetchHorizon`, `ProcessPaymentOperation` (once
per operation) and `EndPoll` are the pieces between awaits; polls overlap,
because cron does not wait for them. A payment is one synchronous block of
separately committed statements, so a block is one action, and
`InsertPaymentFails` and `UpdateLeaseFails` are the blocks in which a statement
throws. `lost` and `cut` are history variables for those. Amounts are left out: the row of
the matched lease has `rentAmount`, the code reads `rent_amount`, so the amount
due is 0 and every matched payment sets `paid`. The one other writer of that
column, the GraphQL mutation that stores whatever status it is given, is left
out; nothing resets `paid` when a new month begins. The status cache is filled by
requests that keep what they read before the `await` of the fill.

### IotDispatcher and RentDunning

The dispatcher is a table of jobs with BullMQ's states. `Take` picks the
waiting job of the best priority and looks up the lock; a job that finds no paired
lock is completed without a request (`skipped`). `UpdatePairing` is what
`SmartLockGatewayService` does to the row it looks at. `Act` is the request as
far as the lock, `Deliver` the answer and its audit entry, `SendFails` a failed
attempt (backoff or `failed`), `Restalled` and `Recover` the worker that is gone:
a job may stall once (`maxStalledCount`) and fails the second time. `Act` and
`Deliver` are separate because a request that timed out may have acted.

The sequencer's handlers run at pub/sub messages, the tick works through a
snapshot of the active rows (`todo`) with awaits for notices and for the
enqueue of the lockout. `processStep(l)` runs from one await to the next, as Node does.
`RentDunning` instantiates the dispatcher with its own variables, so the
lockout of one component is the job of the other. Messages published while the
process is down are lost; `lost` remembers whose. `sent`, `misses` and `lock`
record what the outside world saw.

### RwaCache

The model has the schema of the migration: SQLite refuses every `INSERT` into
`asset_transfer_events` and every `INSERT OR REPLACE` into and `DELETE` from
`asset_ownership_cache` (foreign key mismatch, section 4), and the code logs the
errors and goes on. `storeTransferEvent` is therefore the statement that
throws, `tried` the events it was reached for, `Loaded` the assets the migration
has rows of; no action fills or invalidates the cache, and the handling that
follows a stored event is never reached.

The contract commits transactions of any number of events (`Commit`, external).
The stream calls the async `onmessage` without waiting, so the handlers of
transactions that arrive together take turns at every await. The awaits of a
handler are on finished promises, so the turns are microtasks: first in, first
out, and all of them before the stream's next event. `turn` is that queue and
`Quiet` says it is empty. `loaded` is the cursor in the contract row that
`start()` read, `cursor` the one in the database. `gap` is a history variable: why events
may have been passed over.

A sync job reads the rows and asks Horizon three things per asset, with awaits in
between. An answer without an owner leaves the owner of the row the job has read
(`Latest`), a failed query about freezing or burning counts as a no.
`disturbed` remembers the jobs that ran while the contract changed or a query
failed. Readers keep the row they found for the case that the chain does not
answer them.

### SmartLock

State: what enforcement reads of a lease, the keys, the lock's row, the tokens
the vendor has in force, and the unlock requests. Operations on keys are
synchronous blocks; `RevokeSome` lets one of their statements throw, so any part
of the keys may have been revoked. `updateLease` stands for the writers of the
lease's row in `AppDatabase`, `LeaseEnds` for the calendar. `enforced` is a
history variable: the keys a lease had when `enforceLeaseStatus` last answered
that they were revoked. `Finding` is the text `enforceLeaseStatus`
logs, `CheckTypes` the CHECK of the column it logs it to: a finding the column
refuses ends the call before a key is revoked. An unlock reads the row
(`sendUnlockCommand`), has its token refreshed when it is out of date
(`refreshAugustToken`, the vendor's side, then `refreshAugustToken_store`, the
row), and posts with the token it had read. Tokens are numbered by refreshes.
That August replaces the refresh token at every use is an assumption about the
vendor; the code allows for it (`refresh_token || lock.refreshToken`), and it
is the case in which overlapping refreshes matter.

### GracefulShutdown

State: the step `performGracefulShutdown` awaits, the sockets and those the drain
tracks (`active`), who is running, who was stopped, whether the database is
open, and who found it closed. The 503 middleware is appended behind the
routes, so requests are served until the process exits. A client that hangs up, or
a socket that times out, takes a busy connection out of `active` while its
handler runs on (`HangUp`). `PauseWorker` takes a worker off its queue and
`StopJob` a job off its schedule; both may fail, which the code catches.
`QueuesSettled` is the wait for the jobs the workers are at. Closing the database
may fail too and then leaves it open. `late`, `hungUp`, `timedOut`, `caught` and
`faulty` name whom the order of the steps leaves unprotected.

## 3. Runs

| run | bounds | shows |
|---|---|---|
| `escrow_all` | 2 escrows, 1 ticket, splits 0, 30, 100 %, 2 faults | `PaidAtMostOnce`, `BooksBalance`, `FaultsStrandOneEach`, `AnswerNotOverridden`, the refinement `ImplementsContract` |
| `poller_all` | 5 events in 4 ledgers, one malformed, one ignored, pages of any length, 2 polls, resets to 0 and 3, 1 fault, fair | `NothingElseIsSkipped`, `BadEventStaysLocal`, `QueuedOnce`, `ReachesTheEnd` |
| `dlq_all` | 2 events, one of which always fails and is critical, 2 retries, 4 faults, fair | `NothingVanishes`, `PointerIsAccountedFor`, `RemovedWasHandled`, `EventsSettle` |
| `pipeline_all` | 4 events in 2 ledgers: 2 lease events, one of which is queued up to twice and one of which has no handler, a malformed and an ignored one; 1 poll, a reset to 0, 1 retry, 2 faults of the poller, 1 of the queues | `PassedIsKept` |
| `payments_all` | 1 tenant who is buying, 3 operations, pages of 2, 2 polls, 1 dispute, 2 faults, fair | `BooksAgree`, `OnlyFailedInsertsAreSkipped`, `PaymentsGetRecorded` |
| `dunning_all` | 2 leases, 2 attempts, 3 jobs, 2 missed rents in all (of one lease or one of each), 1 fault | `WarnedBeforeLockout`, `CompletedIsLockedOut`, `LockedOutOnce`, `DelinquencyIsFollowedUp`, `PaymentEndsTheSequence`, `AbortedIsLeftAlone` |
| `dunning_abort_race` | 2 leases, 2 jobs, no fault | **violated**: `AbortedLocksNobodyOut` |
| `rwa_all` | 2 assets, one of which has a row, 2 owners, 2 transactions of up to 2 events, 2 streams and 2 faults of them, 2 sync jobs, a reader and 1 fault of those | `CursorPassesOnlyTried`, `BurnedIsTrue`, `UndisturbedPassAgrees` |
| `smartlock_all` | 1 August lock, 2 keys, 2 overlapping unlocks, 2 changes of the lease or pairing, 2 expiries, 1 fault, fair | `TokensAreKept`, `EnforcementHolds`, `UnlocksInTheEnd` |
| `smartlock_unpaid` | 1 change of the lease, no fault, enforcement requested again and again | **violated**: `BreachedLeaseLosesKeys` |
| `shutdown_all` | 2 connections, one of them a websocket, 2 jobs, 1 queue worker, 2 faults, fair | `DrainedRequestsAreSafe`, `StoppedWorkIsSafe`, `ShutdownEnds` |
| `shutdown_websocket` | the same | **violated**: `ShutdownAlwaysEnds` |

Every passing run but `pipeline_all` also checks `TypeOK`; the pipeline's parts have
theirs checked in their own runs.

**Why the bounds are enough.** Escrows do not refer to each other except
through the sweep, which works through several of them: two are needed and
two show every order. Two faults let the retry of what was cut short be cut
short again. Two polls are what can race for one pointer; a third one adds
only what two successive pairs show, and the proof covers any number. Five
events in four ledgers put a malformed event before, behind and beside good
ones. Two leases are what the tick needs to wait for one while the other
pays; two missed rents are one of each lease, or the second of a lease whose
row is still there; three jobs are the grant and the two revocations of a
repeated step. Two transactions with up to two events each are the smallest batch
in which a later transaction is done, and writes the cursor, before an earlier
one; two sync jobs are what can write one row over each other. The events of `poller_all` include two of one ledger between
which a page may end. In the pipeline one event is queued
twice, by a poll that was cut short and the one after it, so that one of its
jobs may fail and the other succeed. Two dead-letter events are a
failing and a succeeding one; four faults are enough for the second stall of
both. Three operations in pages of two give overlapping polls a common page,
different pages and an empty one. Two overlapping unlocks are a refresh that is
refused and one that stores late; two expiries let the second meet the tokens
the first one left. Two keys let an enforcement be cut short after the first. In the shutdown there is one participant of each kind, and
two connections for the drained and the late one.

The listener and the cache of `RwaCache` share no variable but the contract, and
no property speaks of both. `OnePart` in `MCRwaCache` therefore explores each
while the other rests; the theorems need no such constraint.

The counts that only bound the state space (`MaxJobs`, `MaxTx`, `MaxOps`,
`MaxRetries`, `MaxExpiries`, `MaxChanges`, faults), and the end of the process in
`GracefulShutdown`, let the systems stop: those configurations say
`CHECK_DEADLOCK FALSE`; `RentEscrow` and `EventPoller` are checked for deadlock. The
dispatcher's 3 or 10 attempts are cut to two, which has a first and a last one;
nothing depends on more. The dead letter queue keeps its three.

**Fairness** is assumed only of what the repository schedules. `EventPoller`: the
network closes ledgers, `setInterval` (`worker.js`) starts polls and each started
poll goes on; faults are never fair. `DeadLetterQueue`: BullMQ's worker and the
listener go on; no retry is fair, an operator need not ask for one.
`RentPayments`: cron starts polls, Horizon answers or the request times out, the
loop runs on, and tenants open the app. `SmartLock`: the vendor answers or the
call fails; that unlocking is requested again is a demand on the tenant, who
stands at the door. `GracefulShutdown`: timers run, requests are answered, jobs end,
and a connection that is not a websocket is idle long enough again and again
(strong: `Request` interrupts it) to be closed.

Nothing in the repository calls the escrow's sweep, the dunning tick, the sync job
or `enforceLeaseStatus` (their routes are not mounted, their timers are not
set, or their constructor throws; section 4). No liveness is claimed of these four:
their properties say what every call leaves behind, however seldom the calls come.
`EnforcedSpec`, in which enforcement is requested for ever, is used by
`smartlock_unpaid` alone, to show that requests would not help.

**What the properties leave out.** `BooksBalance` is about whole percentages and
operations that ran to their end: neither the rounding of a split in floating
point nor a settlement that was cut short before its rows is in it (`PaidAtMostOnce`
and the contract bound the latter). `LockedOutOnce` holds while nothing fails: a
lockout that throws after the job was added is queued a second time by the next
tick. `BooksAgree` says that the status cache is never ahead of the lease; that it
may stay behind for ever is a remark below. `NothingElseIsSkipped` names the
ledgers the poller does skip.

## 4. Findings

Each violating run is one statement of the repository that the code does not keep.

1. **A paying tenant is locked out** (`dunning_abort_race`). The tick acts on a
   snapshot; a payment during its awaits aborts the row, the tick revokes the
   access and overwrites `aborted` by `completed`.
2. **Unpaid leases keep their keys** (`smartlock_unpaid`). `enforceLeaseStatus`
   logs the failed check as `rent_not_paid` or `lease_not_active` before it
   revokes a key; the column's CHECK refuses both, so the call throws. Only a
   lease whose end date has passed loses its keys.
3. **A shutdown may never end** (`shutdown_websocket`). `server.close` waits for
   every socket, the drain forgets those it gave up on without closing them, and
   no timer covers the whole.

Remarks found on the way that no run shows. The first group was met in
counterexamples of these models to stronger properties:

- The sweep commits `timeout` before it releases (`rentEscrowService.js:653`):
  failing in between leaves the escrow active and its SELECT never returns the
  row again, against the comment at line 626. `FaultsStrandOneEach` bounds the
  damage: one escrow per fault, and none without one.
- After any exception the poller moves past a ledger it never looked at
  (`eventPoller.js:98`); those events are neither queued nor in the DLQ, which
  README.md:1818 promises can be inspected and replayed.
- `dunning_sequences.lease_id` is UNIQUE (`appDatabase.js:398`) and rows stay, so
  the insert for a second delinquency of a lease throws and nothing enforces it
  (`RentDunningSequencer.js:62`).
- A restarted RWA stream begins at the cursor `start()` read; NULL means "latest",
  so events are passed over (`stellarEventListener.js:139`, against
  `RWA_REGISTRY_CACHE_SYNC.md:61`). A query that fails counts as "not burned", so the
  sync job may take a burn back that it had cached (`rwaCacheSyncJob.js:280`,
  against line 324).
- The lease status cache is filled for ever: `index.js` gives it a map that ignores
  the expiry, and nothing calls `invalidateLeaseCache`. A tenant who has paid
  may be shown as pending until the process restarts.
- A token refresh whose answer is lost leaves the lock with a refresh token the
  vendor has replaced: it cannot be opened before it is paired again. An unlock
  that refreshes goes on with the expired access token it had read and fails once.

And, from reading:

- `asset_transfer_events` references columns of `asset_ownership_cache` that no UNIQUE
  index covers (`migrations/015:72`), and `appDatabase.js:56` turns foreign keys on. SQLite
  answers "foreign key mismatch" to every `INSERT` into the events and to every
  `INSERT OR REPLACE` into and `DELETE` from the cache; `UPDATE`s are accepted. The
  errors are logged and dropped (`stellarEventListener.js:216`), so no transfer event is
  ever stored while the cursor moves on, against `RWA_REGISTRY_CACHE_SYNC.md:61`; the
  tests replace the database. The rows there are come with the migration, which
  README.md:3077 has applied by the `sqlite3` tool, where foreign keys are off
  (modelled).
- The adapters parse Horizon's data entries as JSON; Horizon gives them in base64,
  so `JSON.parse` throws. The model takes entries as the code expects them, and
  any query of it may fail.
- Migrations 006 to 008 reference tables `tenants` and `landlords` that nothing in
  the repository creates; with foreign keys on, inserts of escrows and keys need
  them from elsewhere. The models assume that the referenced rows are there.
- A remote unlock looks at neither keys nor lease; `issueDigitalKey` claims to check
  the rent (line 172) and looks at the lease's status only (modelled); the smart
  lock routes are not mounted.
- The worker of `soroban-dlq` completes every dead letter at once, while
  `getDlqJobs` lists failed and waiting ones: failed events leave the list they
  are kept for. The admin routes use a service nobody initialises.
- Two IoT dispatches of a lease may be sent in either order (a job in backoff does
  not hold back later ones), with the time of the attempt as their timestamp.
- `dlqService.initialize` runs at every poll with events and makes new queues and
  workers each time.
- `index.js:652` uses a `redisService` that is declared inside another function
  (line 215): the listen callback throws before it comes to
  `gracefulShutdownService.initialize`, so on that path the shutdown service is never
  installed, the rest of the callback is skipped and its rejection is
  unhandled. `GracefulShutdown` models the service as it is once `initialize` was
  called, which is how its tests use it.
- Further on, `index.js:686` and `751` use variables that are not in scope either. No
  BullMQ queue is registered for the shutdown, `queue.pause()` is global and nothing
  resumes it, and the renewal interval has no `stop`.
- With the schema of `AppDatabase`, inserting renewal proposals and maintenance tickets
  fails (`lessor_id` NOT NULL is not given), and so does the late fee job
  (`getTotalPendingDebtForLease`) and every sanctions screening (`getActiveLeases`).
  The models of the escrow and the locks take tickets and leases from their
  environment.
- `rateLimitingService.js:100` reads, changes and writes a token bucket in separate
  calls; only a test constructs it. `InvitationService.js:94` accepts an
  invitation without a condition on its status; its module cannot be loaded.
  `worker.js:50` writes back the whole file of leases it read before an await.
- `tenantRejectRepairs` and `tenantConfirmRepairs` succeed whatever the escrow's
  status; the responses ("escrow remains active", "escrow will be released")
  may both be false (`RentEscrowController.js:139,172`).
- `index.js:187-189` passes a notification service without `sendNotification`
  to the sequencer, nothing calls `runDailyTick`, and `index.js:750` uses a
  `dunningSequencer` that is not in scope. The models are of the classes, as
  their tests use them.
- `rwaCacheSyncJob.js:2` takes `Worker` from `ioredis`, which has none, so the
  constructor throws; BullMQ rejects its priorities `'high'` and `'normal'`; `processJob`
  ignores the job's name.
- The adapters read `transaction.operations`, which is a function in the
  Horizon records of the SDK.
- The Soroban SDK calls the list of events `events`; the poller reads `results`.
- `'unfreeze'.includes('freeze')`: an unfreeze would be stored as a freeze, if events
  were stored.
- A page of `getEvents` that ends inside a ledger makes the poller pass over
  the rest of it (modelled, `IsPage`, `cutOff`): those events are
  neither queued nor noticed, but nothing beyond that ledger is lost.
- `dlqService` names `processLeaseStartedEvent` and others that do not exist,
  so these jobs always fail (modelled, `Throws`).

## 5. Proofs

`RentEscrowProofs` holds for any sets of escrows and tickets, any split
percentages within 0..100 and any number of faults.

- `TypeCorrect`, `NeverPaidTwice`, `LogAgrees`, `BooksAlwaysBalance`,
  `SettlementIsFinal`, `AnswersAreKept`.
- Argument: `PaidAtMostOnce` is not inductive, because a settlement is two
  statements and a split three. The invariant adds `InProgress` (an operation
  that has settled and not yet logged is the only one running, and the status is
  the one it settled to), `Bounded` (paid plus still to be logged is at most
  100; 0 while the escrow is not settled), `LogAgreesWithStatus` and `Exact`
  (with no fault, paid plus still to be logged is exactly 100 once settled).
  `Settle`'s guard on the status makes a second settlement impossible, so each
  payout row can be charged to the one status change before it. There is a lemma per
  kind of step (`SettleStep`, `PayoutStep`, `SplitLandlordStep`,
  `LastPayoutStep`, `CreateStep`, `DepositStep`, `QuietStep`).
- `AnswersAreKept` rests on `SweepInv`: no request runs while the sweep does, so
  the rows it is still to visit are pending as they were at its SELECT. If the
  sweep awaited anything between two rows, this is what would fail.
- `StrandingNeedsAFault`: every action is shown to strand nobody (`ProceedStrandsNone`,
  `RequestStrandsNone`) but a crash or a failing statement, which strand at most the escrow of
  the operation they cut short (`FaultStrandsOne`); so the set grows by at most one
  where the number of faults does.
- `SettlementIsFinal` and `LogAgrees` state `SettledIsFinal` and
  `LogAgreesWithStatus`, which are in no run: the contract that the run
  checks lets one decision be taken, none be changed, and pays by that decision only.
- `ServiceImplementsContract`: `Spec => Contract!Spec` under the refinement mapping
  of section 2. Argument: a step that writes no row and changes no status is a stutter
  (`QuietStutters`), a settlement is the contract's `Decide` (`SettleDecides`), a
  row is its `PayLandlord` or `PayTenant` (`LandlordRowPays`, `TenantRowPays`),
  provided the party was paid nothing before and the share fits. The first row
  of an operation follows nothing (`NothingPaidYet`, from `Bounded`: all 100
  percent are still outstanding). The second row of a split needs one
  fact more, `SplitPending`: while it is to come, the tenant has no row of a split yet.

`EventPollerProofs` holds for any chain, any pages, any number of overlapping polls,
resets and faults.

- `PollerTypeCorrect`, `PollerSkipsNothingElse`, `MalformedEventStaysLocal`,
  `EventsAreQueuedOnce`, `PointerOnlyAdvances`.
- Argument: the pointer may only be written to a ledger behind which everything
  is done. Done means queued, in a skipped ledger, or cut off by a page.
  `Behind` says so of the pointer itself; `Reading`, `Before` and
  `Visited` say of every poll in flight that it is inside its page, that what lies
  before its start was done when it read the pointer, and that it has queued the events
  it has visited; what its last ledger has beyond its page is `Rest`. `DoneStays`
  (jobs, skipped ledgers and cut-off events are never taken back) makes facts about an old
  pointer value survive whatever the other polls write: this is why the
  unconditional, unordered writes do no harm.
- The other three need `CalmInv`. `Alone`: unless polls overlap or the pointer is
  reset, the one poll at work starts right behind the pointer. `Ahead`: what it is
  still to visit, and where it ends, is not before its start. `Sent`: what it has
  visited is queued. `QueuedBehind`: an event no malformed one lies ahead of is
  behind the pointer or behind the poll once it is queued, so it is not visited again.
- `PointerOnlyAdvances` states `PointerAdvances`, which is in no run any more.

`RentPaymentsProofs` holds for any tenants, page size, number of overlapping polls,
operations, disputes and faults.

- `CursorSkipsNothingElse`, `PaymentsTypeCorrect`, `BooksAlwaysAgree`.
- Argument for the cursor: `Covered(n)` says that every payment up to `n` is recorded or lost.
  The invariant is that `Covered` holds of the cursor, of the place each poll
  started from, and of the last operation each poll has handled. Rows and losses
  only grow within one process, and a crash puts the cursor back to 0, so a late
  poll that moves the cursor back is as harmless as one that moves it on.
- Argument for the books: rows are counted one per operation and credits one per
  row at most (`CountInv`). As long as no statement threw, what is recorded is a
  first part of the account's payments in their order (`InOrder`), because no
  poll can be past an unrecorded payment: so the next new row is later than all
  others and sets the lease's latest payment. Neither the status cache nor a
  request about to fill it is ahead of the lease (`CacheInv`).

`EventPipelineProofs` has two parts. The first is about `DeadLetterQueue` alone, for any
events, kinds, priorities, number of workers, retries and faults.

- `DlqTypeCorrect`, `NoEventVanishes`, `OnlyHandledAreRemoved`,
  `PointerAlwaysAccountedFor`.
- Argument: the order of the awaits. `AttemptLeft` (a job that may still run has an
  attempt left, so the failure that uses up the last one is the one that calls
  the listener), `HandledBefore` (whoever is about to set the pointer or remove a
  dead letter has run its handler), `MovedBefore` (the dead letter is written before
  the alert, the alert raised before the pointer).

The second is about the pipeline, for any chain, pages and number of polls besides. The
assumption `ChainOfThePoller` is the poller's own, and `JobsAreCopies` says that the
queue's events are the jobs the poller may make, as many of each event as one likes,
in the ledger of their event.

- `PassedEventsAreKept`: an event the poller's pointer has passed was skipped or cut off
  in one of the ways `NothingElseIsSkipped` names, or was queued and every job
  made of it is on its way, handled, a dead letter, or lost its dead letter to a fault.
- `PipelineRunsThePoller` and `PipelineRunsTheQueues`: the pipeline implements the
  specifications of its two parts, so what is proved of a part holds of the whole.
- Argument: each step is a step of the poller or leaves it alone (`StepOfPoller`), and
  likewise of the queues (`StepOfQueues`). The second needs the link between the
  two: `JobsAreThere`, that each event has as many jobs as the poller queued it
  times, numbered without gaps, and none of them is ever forgotten (`JobStays`). With
  `NothingElseIsSkipped` at one end and `NothingVanishes` at the other,
  this is `PassedIsKept`. An `addEvent` that is not awaited breaks the link.

`RentDunningProofs` holds for any leases, queue length, attempts and faults; the
dispatcher's invariants are proved with it, under the instance `IoT`.

- `DunningTypeCorrect`, `LockoutIsWarned`, `CompletionMeansLockout`,
  `LockoutHappensOnce`, `AbortedStaysAlone`, `DelinquenciesAreFollowedUp`,
  `PaymentsEndSequences`, and `SequencerRunsTheDispatcher`: the
  composition implements `IoT!Spec`, the dispatcher by itself.
- Argument: the snapshot is the difficulty. `NoticedBefore` says that both the row and
  the snapshot remember the notice of day 3, `TickInv` that what the tick waits for
  fits the step of its row, and `OnceInv` that, with no failure, a lease still in
  the snapshot has no revocation yet and one that has a revocation is completed
  next. `JobUpdate`, `WorkerStep` and `RecoverStep` show that no worker's step
  changes which jobs there are; `AbortedStep` that a row the tick had not read stays
  aborted. That a row it *had* read may not is finding 1.
- The follow-up is carried from the chain to the lock in two parts. `Messages`: unless
  it was lost, the last message about a lease says whether it is late, the first
  miss is on its way or has become a row, and a lease that is not late has no active row
  once its messages are handled. `Dispatches`: until a lease pays for the first time
  its jobs are revocations, and once one was acted on the lock stays revoked. A completed row has a
  revocation by `CompletedIsLockedOut`; one that is done has told the lock.

`RwaCacheProofs` holds for any assets, owners, streams, jobs, readers, sizes of
transactions and batches, and faults, and without `OnePart`.

- `CacheTypeCorrect`, `CursorCountsWhatWasTried`, `BurnedIsNeverInvented`,
  `UndisturbedJobsAgree`.
- Argument for the cursor: handlers write it in turns, not in the order of their
  transactions. `Owes(h, n, i)` says that the running handler `h` is still to try event `i`
  of transaction `n`; `TriedInv` that up to the cursor, up to the one a restart would
  begin at, and up to the position of every open stream, each event was tried or is
  owed by a running handler. When no handler runs, nothing is owed.
- For burns, `BurnInv` says that every row, answer in flight and reader that has a burn has it
  from the contract, which never takes it back.
- For the passes, `Knows` says that what a job at work has read is what is there, and that
  the assets it is through with are cached as the contract has them. The difficulty is
  the other job, which writes the same rows: `SyncInv` says that what disturbs one job
  disturbs all that are at work (a job that begins beside a disturbed one is
  disturbed too), so that as long as none is, both write the same.

`SmartLockProofs` holds for any locks, keys, requests, expiries and faults.

- `SmartLockTypeCorrect`, `TokensAreAlwaysKept`, `EnforcementAlwaysHolds`.
- Argument for the tokens: what protects the row is August, not the code: refreshes overlap and
  store without a look at the row, but a pair of tokens is replaced once.
  `MadeForExpired` counts the pairs made by the expiries before them; `NotAhead` says
  that no row or request has tokens August has not made, and that who asks for
  a refresh with the pair in force found it expired. Without a fault, `Kept` says that a
  request in flight has read tokens no newer than the row's, and that at most one
  holds a new pair, which replaces the one in the row: the store that is still to come
  cannot be an older one.
- Argument for enforcement: a key is dead when it is revoked or lapsed. No operation
  brings a dead key back (`DeadStaysDead`). When `enforceLeaseStatus` answers, each of the
  lease's keys is dead (`AnswerIsTrue`): the ones it found usable were revoked and
  none of these statements threw, or there would have been no answer. Nothing else changes
  what was answered (`EnforcedAlone`).

`GracefulShutdownProofs` holds for any connections, jobs and workers.

- `ShutdownTypeCorrect`, `DrainProtectsRequests`, `ShutdownProtectsWork`.
- Argument: per step reached, what that step has settled. `DrainInv`: behind the drain the
  open sockets are late ones, unless it gave up, and a handler without a socket is one
  whose client hung up; `JobsInv`: what can be stopped is stopped unless stopping it
  failed, and what still runs of it was caught in the middle; `QueuesInv`: every
  worker was stopped or could not be; `DatabaseInv`: who was broken was broken after the
  database was closed, which is after all of these.

Only model-checked: the liveness properties (`ReachesTheEnd`, `EventsSettle`,
`PaymentsGetRecorded`, `UnlocksInTheEnd`, `ShutdownEnds`), which the prover does not
support. Every invariant, every action property and every refinement of the passing runs is a theorem. The
models use no RECURSIVE operator, so that any of them can be proved about.

## 6. Plan

Order: what moves money or locks doors first, then what feeds it, then the rest.

1. *Done*: `RentEscrow` with the contract it implements, `EventPoller`,
   `DeadLetterQueue`, `RentPayments`, `IotDispatcher` with `RentDunning`,
   `SmartLock`, `RwaCache`, `GracefulShutdown`; proofs of every safety property of
   the escrow, the poller, the payment tracker, the dead letter queue, the
   sequencer with its dispatcher, the locks, the ownership cache and the shutdown.
2. *Done*: the composition `EventPipeline` and its proof; pages that end inside a
   ledger; the tokens of `SmartLock`.
3. An abstract cursor ("the set of events done grows, the pointer is a lower bound
   of it up to named gaps") that `EventPoller` and `RentPayments` implement, and a
   contract of the dispatcher (each job is delivered, or audited and given up) that
   `IotDispatcher` implements.

## 7. Not modelled

`PROJECT.json` lists every component with its reason. In short:

- *Cannot run as it stands*: lease renewals, maintenance tickets, late fees and the
  sanctions screening fail against `AppDatabase` at their first statement, the
  invitation service and the badge code require modules that do not exist, the
  rate limiter and the RWA status handler are constructed by nobody, the lease
  initialisation of `worker.js` simulates its chain call. A model would
  be of a program nobody can run.
- *Formulas and reports*: proration, taxes, MRR, market trends, yields, prices,
  collateral health, utility statistics, reputation. Single-valued functions
  of floating-point data, without state of their own.
- *Input and output*: PDF, IPFS, images, listings, encryption, KYC providers,
  GraphQL, REST validation and routing, rooms and delivery of socket.io, audit
  and error logs. Requests appear as actions of the components they call.
- *Row mapping*: `AppDatabase` is 2,200 lines of SELECT and INSERT; the statements are
  modelled where components issue them. `src/src - Copy/` is an older duplicate
  of `src/src/` that nothing loads.

These are most of the repository's lines, so the lines the map covers are a
small part of it: they are the parts in which something can interleave, fail
half-way or get lost.
