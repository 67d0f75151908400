# Game Shelf: TLA+ models, model checking and proofs

Game Shelf is an offline-first game library. Every device keeps a complete copy
of the library and an outbox of edits; a server on PostgreSQL keeps the
authoritative rows and a change log from which devices catch up; background
workers on the server refresh prices, release dates and metadata through the
same log. What must not go wrong is, first, the path of an edit: from the
device, over an unreliable connection, through concurrent transactions, into the
log and on to every other device; then what the workers do on their own:
announce a release or a sale once, look at a game in time, keep to a provider's
limits, keep what an administrator decided; and the upgrade of a device's
storage. The models here follow these.

## 1. Inventory

### Components and how they interact

```
  pages ─► LocalGameRepository ─► storage engine (games, outbox, sync metadata)
                                        ▲
                             GameSyncService (one sync at a time)
                                        │  POST /v1/sync/push, /v1/sync/pull
                                        ▼
                               sync.ts ─► PostgreSQL: games, tags, views,
                                          settings, sync_events, idempotency_keys
                                        ▲
     metadata enrichment, release monitor, compatibility refresh,
     Steam and PSPrices snapshots  (update games, append sync_events)
                                        ▲
                        background worker ◄─ background_jobs (job queue)
                                        │
                     notifications, recommendations, popularity, caches
```

| component | state | operations | what is hard | what makes it correct |
| --- | --- | --- | --- | --- |
| Sync API (`server/src/sync.ts`) | tables, idempotency records, event sequence, `latestKnownSyncEventId` in memory | push, pull | transactions of several connections, retried requests, ids drawn before commit, replies after commit, restarts | an operation is applied and logged once; replies are durable; a cursor covers the log |
| Other writers of games (metadata enrichment, release monitor, prices) | rows and events | update a row and log it | racing a push of the same row, one transaction or two | the last event of a row is the row |
| Client sync (`game-sync.service.ts`) | cursor, replay time, remediation marker; the running sync | push batches, pull pages, daily replay of recent events, reset, one-time remediation | edits during a sync, lost replies, late requests, crashes, resets under a running sync | no edit lost or reordered; cursor never ahead; device converges |
| Local library (`local-game-repository.ts`) | games, tags, views, outbox | edits of whole entries, create, remove | read before the transaction that writes | row and outbox entry are written together |
| Storage engines and schema | Dexie or SQLite tables | transactions | two engines, one contract | serialisable transactions, outbox order |
| Storage migration, preference storage | two databases, two preference stores, a cache, flags | move keys, copy, flag, delete; write-through with rollback; fall back | kills between steps, writes that settle later or fail | no edit stranded, no preference lost, device settles |
| Client image cache | files and metadata | store, evict | - | - |
| Connectivity, client notifications, live update, pages | flags | start a sync, register, download | events at any time | - |
| Job queue (`background-jobs.ts`) | job table | enqueue, claim, heartbeat, complete, fail, requeue stale and failed, purge | lost leases, late completions, dedupe keys | a job runs to an end; one active job per key |
| Background worker (`background-worker.ts`) | consumer loops, timers | claim, run, heartbeat, shut down | crash with running jobs, failing `fail` | nothing claimed for ever |
| Release monitor (`release-monitor.ts`) | `release_watch_state`, notification log, advisory locks | timer, forced refresh, check of one game, plan of the next check | snapshots in jobs, two handlers of one game, a crash or throw between reserve and send, boundaries of dates | an event is sent once; a change is not dropped without a fault; dates settle; the release day is seen |
| Price refreshes, sale and compatibility alerts | price, notification log | update, append, reserve, send, finalise, release | concurrent refreshes, each statement may throw | a sale is announced, and once |
| Emulation compatibility refresh | list, status rows, bindings | refresh, bind, clear, backfill | decisions from what was read once | a binding stays; payload, row and list agree in the end |
| Recommendations | runs, advisory lock | rebuild, recover, serve | lost sessions, slow rebuilds, skips | what is served never goes back and catches up |
| Provider rate limiting | cooldown, pace, window, slots, waiters | acquire, release, cooldown | a slot between release and the waiter | no slot lost or given twice; every request ends |
| Discovery enrichment and its admin routes | payloads, locks, retry state | select, look up, rearm; save, clear, requeue | whole payloads written back after an await, order of selection | a saved match stays; every candidate settles |
| Popularity, metadata service | scores, retry state | batch ingestion, selection, retries | - | - |
| Provider caches, image cache, manuals, ROM catalogues | cached answers | read-through, stale-while-revalidate | - | - |
| Admin routes, API process, metadata worker, edge, scripts | little | wiring and proxies | - | - |

`PROJECT.json` lists every component with its sources and status, and, under
`hazards`, the places in this code that are hard to test, each with the
properties that watch over it or the reason none does yet.

### Plan

| order | module | what | state |
| --- | --- | --- | --- |
| 1 | `OpLedger` | what a push promises: settle once, log once | done |
| 2 | `SyncServer` | push, pull and the other writers, one step per SQL statement; implements `OpLedger` | checked and proved |
| 3 | `GameSync` | one device against that server; implements `OpLedger` too | checked, safety proved |
| 4 | `JobQueue` | job table and consumer loops; crashes, lost answers, stale recovery, replay, purge | checked, safety proved |
| 5 | `ReleaseMonitor`, `ReleaseSchedule` | checks of one game against its notification log; the plan of checks against the calendar | checked, safety proved |
| 6 | `SaleAlerts` | price refreshes and the sender that sale and compatibility alerts share | checked, safety proved |
| 7 | `CompatRefresh` | refreshes and binding commands of one owned game | checked, safety proved |
| 8 | `RateLimit` | slots, waiters, window and cooldown of one provider | checked, safety proved |
| 9 | `Recommendations` | rebuilds of one target under its advisory lock | checked, safety proved |
| 10 | `DiscoveryMatch` | enrichment runs, admin commands and pool refreshes on discovery games | checked, safety proved |
| 11 | `DeviceStorage` | preferences and databases of an install that upgrades | checked, safety proved |
| open | - | a clock for `createdAt`; server-generated ids of tags and views; `deleteTag`; the SQLite statement queue; popularity ingestion | see section 6 |

No module composes 5 to 10 with the synchronisation: they meet it in one
statement, the update of a game with its event, which is `EnrichBegin` and
`EnrichCommit`, or `PriceUpdate` and `PriceAppend`, in `SyncServer`. They share
no state with one another either (the notification log is keyed by the kind of
event). `DeviceStorage` takes push and pull as one step each and leaves their
interleavings to `GameSync`.

## 2. The modules

### `OpLedger`

The abstract specification. Its state is a verdict per operation
(`idempotency_keys`) and a set of events (`sync_events`); one action, `Settle`,
decides some undecided operations at once. An applied one brings one event, a
refused one none, nothing is decided twice, event ids are fresh.

### `SyncServer`

`sync.ts` on PostgreSQL at READ COMMITTED. Committed tables are `rows`,
`events`, `idem`; the sequence `seq` is never rolled back. Each connection runs
one push handler (`pc`, `todo`, `results`, ...) with its uncommitted writes in
`txRows`, `txEvents`, `txIdem`.

| action | code |
| --- | --- |
| `Push` | a request arrives, `BEGIN` |
| `SkipDuplicate`, `StartOp` | `SELECT result FROM idempotency_keys`; a hit is reported `duplicate`; otherwise the operation is normalised and dispatched, a payload that does not normalise goes straight to the record `failed` |
| `ReadExisting` | the unlocked read of the stored payload for the cover reconciliation |
| `WriteRow` | `INSERT ... ON CONFLICT DO UPDATE` or `DELETE`; waits for the row's lock; `ReconciledCover`, `Upserted` |
| `AppendEvent` | `appendSyncEvent`: the id is drawn now, the event is visible after `COMMIT` |
| `RecordOp`, `RecordConflict` | the `INSERT` of the idempotency record; a conflicting uncommitted one is waited for; a committed one fails, and the second `INSERT` in the catch block fails in the aborted transaction |
| `FailTx`, `DeadlockVictim` | any statement error; PostgreSQL breaking a cycle of waits |
| `CommitTx`, `ReadLatest`, `FailLatest`, `Release` | `COMMIT`, the later `SELECT MAX(event_id)`, its failure after the commit, the reply |
| `EnrichBegin`, `EnrichCommit` | writers that update and log in one transaction |
| `PriceUpdate`, `PriceAppend` | Steam and PSPrices snapshots: two autocommitted statements |
| `WriterFails` | a writer's statement fails or its process dies |
| `PullPage`, `PullEmpty`, `PullUnknown`, `PullMax` | the branches of the pull handler |
| `Restart` | the API process restarts |

Abstractions. An operation is a record of the edit it carries, its `updatedAt`
(`stamp`), its cover and its server-owned fields, which is what the upsert and
the reconciliation tell apart. The normalisers accept or refuse. A batch does
not repeat an operation. Games, tags and views are keys; settings, which have no
cover and no reader but the preferences, are not distinguished. A client's pull
and its use of the answer are one step here (`GameSync` takes them apart). Rows
that are discovery entries and not part of the library do not appear.

### `GameSync`

One device: the local library, the outbox and the sync metadata in storage, and
`GameSyncService` with its one running sync. The service is single-threaded, so
a step is what happens between two awaits. The content of a row is the set of
edits it carries; every save writes the row it was based on plus one edit, as
updates of whole entries do. Operations are numbered as they are made, the order
of their `createdAt`: the outbox, what is left to send and a request are sets, and
the numbers say in which order their members are sent (`SendBatch` takes all up to
one of them) and settled (`Ordered`).

| action | code |
| --- | --- |
| `BeginEdit`, `SaveEdit`, `RemoveGame` | `LocalGameRepository`: the read before the transaction, then row and outbox entry in one transaction |
| `StartSync` | `startSyncNowIfPossible`: timer, `online`, after an edit |
| `SendBatch`, `ServePush`, `ReceiveReply`, `AckOutbox` | `pushOutbox`: batches by size, one request after the other, acknowledgement after the last |
| `BeginPull`, `Pull`, `ApplyPage`, `StoreCursor`, `StoreEcho` | `pullChanges`: cursor read once, page applied in one transaction, cursor stored in another |
| `BeginReplay`, `CollectPage`, `ConfirmReplay`, `ReapplyPage`, `NoReplay`, `AbandonReplay` | `replayRecentChangesIfDue` |
| `LoseRequest`, `LoseReply`, `OrphanArrives`, `PullFails`, `ReplayFails`, `Crash` | failures of each await; a request given up on may still arrive |
| `Remediate`, `RequestReset`, `ResetCursor`, `DayPasses` | the one-time remediation in `initialize`, `resetLocalSyncState`, the passing of the replay interval |
| `ForeignUpsert`, `ForeignDelete`, `ForeignDiscovery` | events of other devices and of the server's writers |

Here the server settles a request in one step. That is the view `OpLedger` gives
of it, and `Implements` (section 5) is the proof that the server offers no less:
both modules implement `OpLedger` with the same correspondence of operations.

Abstractions. Covers are left out of a row's content (they are what survives a
pulled upsert over a pending edit). One draft is open at a time. `createdAt`
grows strictly. The check and the transaction of the remediation are one step.
A fresh library (`Upgraded = FALSE`) starts remediated. `deleteTag`, which
queues an edit for each game that had the tag, is left out. A
discovery event arises when an enrichment that was under way writes to a row
that left the library meanwhile (its `UPDATE` does not look at the list type).

### `JobQueue`

The table `background_jobs` and everyone who touches it: producers, the consumer
loops of the worker processes, the maintenance statements. A step is one SQL
statement, autocommitted, with what its caller does until the next await.

| action | code |
| --- | --- |
| `Enqueue`, `EnqueueConflict`, `LookUp`, `EnqueueFallback` | `enqueue`: the insert, or the refused insert, the look-up of the active job and the insert without key |
| `Claim`, `NothingToClaim` | `claimNext`: lowest priority number, then lowest id; `FOR UPDATE SKIP LOCKED` |
| `FinishWork`, `Complete`, `Fail` | `dispatchJob` returns or throws; `complete` and `fail` by id alone |
| `Heartbeat` | `heartbeat`, by id and owner, until the loop is done |
| `ClaimLost`, `CompleteThrows`, `FailThrows`, `Crash` | a statement whose answer is lost or that fails: after `complete` the catch block calls `fail`; after `fail` nothing handles the rejection, which ends the process; the container restarts it (`restart: unless-stopped`) |
| `Expire`, `BecomeReady` | time passes: `locked_at` gets older than the limit, `available_at` comes |
| `SelectStale`/`RequeueStale`, `SelectFailed`/`RequeueFailed`, `SelectFinished`/`DeleteFinished` | the three maintenance statements, each as its snapshot and its write: candidates are not locked, so rows change in between |
| `SweepFails` | such a statement fails, or the unique index refuses it |

Abstractions. `locked_at` and `available_at` are the Booleans `stale` and
`ready`. A lock of a live run (`Alive`) ages only by one of the bounded lapses:
heartbeats come every 30 s, the limit is many minutes, so this takes a process
suspended, blocked or cut off from the database. Payload, result and error text
are left out. A graceful stop waits for the jobs under way and is a `Crash` of a
process that holds none. What some of the jobs do
is in `ReleaseMonitor`, `Recommendations` and `DiscoveryMatch`; most schedulers are not
modelled.

### `ReleaseMonitor`

`release-monitor.ts`: the timer, the forced refresh and the job that checks one
game, a step per awaited statement. A job carries a snapshot of the payload and
of the watch row, taken when it was enqueued; the handler compares against the
snapshot, not against the rows. An event key (`Key`) is the kind of event, the
game and the dates it is built from, and is the primary key of the log.

| action | code |
| --- | --- |
| `EnqueueDue`, `EnqueueForced` | `processDueGames`, `enqueueForcedReleaseMonitorRefreshJobs`: a dedupe key for the timer's job and one per kind of forced refresh (`Forces`), so all of them may be queued at once |
| `ClaimReaching`, `ClaimUnheard` | the job loop, and what settings and tokens say: somebody listens, or nobody |
| `TakeLock`, `LockHeld`, `Unlock`, `UnlockThrows` | `withGameLock`: `pg_try_advisory_lock`; a lock that is held ends the job as done |
| `Fetch`, `FetchEmpty` | `fetchGameById`; a game without a watch row is only recorded |
| `Patch` | `applyGamePayloadPatch`, then `buildReleaseEvents` |
| `SkipEvent`, `Reserve`, `SendDelivers`, `SendReachesNobody`, `SendThrows`, `Finalise`, `ReleaseReservation` | the loop over the events: skip, `reserveNotificationLog`, `sendFcmMulticast`, `finalizeNotificationLog`, `releaseNotificationLogReservation` |
| `RecordWatch`, `RecordFailure`, `RecordFailureLost` | `upsertWatchState` at the end; the `INSERT` of the catch block, and that statement failing too, which is swallowed and leaves the row, or its absence, as it was |
| `Throw`, `Crash`, `LockLost`, `RequeueOrphan`, `RequeueSlow` | a statement throws; the process dies; the lock's connection drops under a running handler; the job's lock times out, its owner dead or only slow |
| `MoveDate`, `Midnight`, `ClientRefresh` | IGDB moves a date, a day passes, a push brings IGDB's date into the payload first |

Abstractions. A release date with its precision is one marker. The date before is the
watch row's marker, or what the payload's `releaseDate` and `releaseYear` say
(`DateShown`): the metadata worker fills these from `first_release_date`, so that a
quarter shows there as its last day or not at all. When a check is
due is "at any time" here and the subject of `ReleaseSchedule`. The queue is
reduced to what the handler meets of `JobQueue`: an active job per dedupe key,
an owner, recovery by timeout. Left out: the HLTB and review refreshes in the
same handler, single event kinds switched off (`ClaimUnheard` switches off all),
the deactivation of dead FCM tokens.

### `ReleaseSchedule`

`computeNextCheckAt`, `deriveReleaseState` and the catch block's plan for one
game whose date IGDB refines from unknown over year, quarter and month to the
day. `DueCheck` runs up to `MaxLate` hours after the planned time, `EarlyCheck` is a
forced refresh, `FailedCheck` plans a day ahead. `Cadence` has the branches of the
function, `Cap` is `MAX_UNRELEASED_NEXT_CHECK_MS`, `Scheduled` the condition under
which it applies: a month, quarter or year that has begun counts as released. The
first check builds no events, so a game added on its release day is not seen by it.

### `SaleAlerts`

Price refreshes of one wishlist game (`steam-prices.ts`, `psprices-prices.ts`) and
`price-sale-notifications.ts`, whose sender `compat-status-notifications.ts`
repeats.

| action | code |
| --- | --- |
| `FetchPrice`, `PersistPrice`, `AppendEvent` | the snapshot fetch; the `UPDATE` that returns the payload before and after; the sync event in a statement of its own; only then the sale is looked at |
| `Muted`, `ReserveAlert`, `LoadTokens`, `NoTokens`, `SendAlert`, `SendFails`, `FinaliseAlert`, `ReleaseAlert` | the sender, one statement each |
| `SellerThrows`, `SellerDies` | any of them throws: from the tokens on the catch block releases, after a `DELETE` that threw for the second time; the process dies |
| `Quote`, `PushPrice` | the shop changes its price; a client pushes its copy |

One game and one day: a key is then the sale's price.

### `CompatRefresh`

`emulation-compat/refresh.ts`, its scheduler and the admin's command, for one owned
game. `FetchList`, `LoadGame`, `WriteStatus` (the loop over bound games or the
upsert of unbound ones), `Backfill`, `PatchShown` are a refresh, `Bind`,
`BindPatches` and `Clear` the `compat:match` command, `Report` and `PushShown` the
world, `RefreshFails` a throw or a crash anywhere. The entry the title matches is
a constant; the source-state row, which decides when a refresh is due, is left
out, so a refresh may start at any time.

### `RateLimit`

`shared/provider-rate-limit.mjs` and the calls of `applyCooldown`. A step is what
runs between two awaits. `Refuse`, `Delay`, `Proceed` and `WakeUp` are `acquire`;
`TakesSlot` is one turn of the loop in `reserveConcurrencySlot`, which `Resume`
takes again after being woken; `Answer` and `Answer429` release the lease in the
`finally` block and wake one waiter; `Throttle` applies the cooldown, counted from
when the request came in; `Tick` lets time pass. Times are relative to now. One
window scope; an expired entry is replaced, never swept.

### `Recommendations`

Rebuilds of one target. `TakeRecLock`, `RecLocked`, `LookAtLatest`, `ListGames`,
`Compare`, `CreateRun`, `FinalizeRun`, `BuildFails`, `MarkFailed`, `UnlockTarget` follow
`rebuild` under `withTargetLock`, on the connection that holds the lock; `NoSession` is
what any of them becomes when that connection is gone; `FailStaleRuns` is the recovery
timer, `RequeueDead` and `RequeueLive` the queue's, `ClaimScheduled` and
`ClaimRequested` the scheduler and the route. The library is a version number,
`Served` what a page is built from.

### `DiscoveryMatch`

The HLTB hours of discovery games. A row is its list, its hours, the
administrator's lock and the retry state (attempts, and whether the next one is
due); `byAge` is the order of `updated_at`, which the selection goes by.

| action | code |
| --- | --- |
| `EnqueueRun`, `EnqueueKeys`, `StartRun`, `RunOrphaned`, `RunTimesOut`, `EndRun` | the job of key `discovery-enrichment:run`, as far as `JobQueue` matters here |
| `ListRows`, `Enrich`, `EnrichErrs`, `EnrichOthers` | `runOnce` under its advisory lock, `enrichNow` without; the provider has the game, has not, or fails; another provider's part changes; `updateGamePayload` replaces what is there |
| `RefreshPool` | `refreshDiscoveryPool`: for each source that is stale and has changed, upsert and prune, then a run of its own; the rows of a source that is fresh or unchanged stay (`leftOut`). The statements touch different rows and are one step |
| `ReadForCommand`, `Command` | patch (with hours: `type`, with an id alone: `pin`), delete and clear-permanent-miss: a read without lock, then a guarded write |
| `AddToLibrary`, `Elapse` | the user takes the game over; time passes |

### `DeviceStorage`

Several launches of one native install: `PreferenceStorageService`,
`StorageEngineFactory` and `StorageMigrationService`.

| action | code |
| --- | --- |
| `Launch`, `CopyKey`, `Hydrate`, `Mark`, `ClearLocal`, `PreferencesFail` | `initialize`, `migrateFromLocalStorageIfNeeded`, `hydrateCacheFromPreferences`, `finalizeMigration`; any call throws: the session uses localStorage |
| `ChooseTheme`, `WriteLands`, `WriteRejected` | `setItem`, `removeItem`: the cache at once, the native write later, rolled back when it is rejected |
| `OpenMigrated`, `OpenFresh`, `Migrate`, `SetFlag`, `DeleteDexie`, `DeleteFails`, `FallBackToDexie` | the choice of the engine, `migrateIfNeeded`: the copy in one transaction, the flag (a preference, not awaited), the deletion whose failure is swallowed, the fallback for the session |
| `Edit`, `Push`, `Pull` | the app in use; `GameSync` has the details |
| `Killed` | between any two awaits; unsettled writes are gone |

Calls to Preferences are carried out in order. The tables are one game, its
outbox and the sync cursor. A cursor row exists only once a pull, or the remediation
of an older library, has stored one: a database without it has `NoCursor`, and the copy
then leaves SQLite's cursor alone. That remediation, which writes cursor 0 into the
engine in use, is not an action here (`GameSync` has it); in the initial state Dexie has
cursor 0 or none. `reclaimExcludedKeysFromPreferences`, which concerns
keys that no other part of the model reads, is left out.

### Model-checking modules

`MCSyncServer`, `MCGameSync`, `MCJobQueue`, `MCServerTasks` and `MCDeviceStorage`
give the constants their values: sets of operations whose members compete for
rows, sets of keys, a calendar. The operators named "Mutation" are not part of
the specifications; each is the plausible mistake that one property is there to
exclude.

## 3. Runs

| run | instance | distinct states | shows |
| --- | --- | --- | --- |
| `sync_push` | 2 connections, 3 operations on 2 rows, batches of 2, 2 event ids | 75 000 | types, `OneEventPerOp`, `RepliesAreDurable`, `LedgerSpec`, and that every push is answered (`PushCompletes`) |
| `sync_writers` | 2 connections, a transactional writer, upsert, delete and older upsert of one row | 144 000 | `LastUpsertIsTheRow` |
| `sync_cursors` | 1 connection, a price writer, a reader with pages of 1, restarts | 109 000 | `CursorsOnlyAdvance`, `NewerCoverSurvives` |
| `sync_price_race` | 1 connection, a price writer | violation | `LastUpsertCarriesTheEdit` fails |
| `sync_cursor_race` | 2 connections, a reader | violation | `CursorCoversLog` fails |
| `sync_cover_race` | 2 connections, a newer and a stale cover | violation | `NewerCoverSurvives` fails with two connections |
| `game_sync` | 2 games, one refused; 2 edits, 1 foreign event, 1 failure, 1 reset; pages and window of 1 | 334 000 | seven properties below |
| `game_sync_remediation` | library of an older version | violation | `CursorIsCovered` fails |
| `job_queue` | 2 workers with a loop each, 2 job ids, 1 key, 2 troubles | 292 000 | five properties below |
| `server_tasks` | the seven components of `MCServerTasks`, one part per behaviour | 264 000 | types and fourteen properties below |
| `device_storage` | one install, 3 launches, 2 edits, 2 choices, 2 failures | 841 000 | five properties below |
| `device_storage_rerun` | the same | violation | `NoRerunAfterCleanup` fails |

The passing runs of `SyncServer`, `GameSync` and `JobQueue` also find no deadlock.
`server_tasks` and `device_storage` do not look for one: in a bounded instance a part stops once
changes, faults and calls are spent.

`server_tasks` is a sum, not a product. `part` is chosen in the initial state and
never changes; that component runs, from every initial state of its module, and
the others rest in one. Each of its properties is therefore checked on the
behaviours of its own part, and holds trivially on the others. Fairness is that
of each module, restated for the part that runs. Alone the parts have 32 500
(monitor), 12 700 (sale), 79 000 (compat), 31 000 (schedule), 19 000 (rate),
28 700 (recommendations) and 65 300 states (discovery).

**Bounds.** `MaxSeq` stops new requests, not running ones, so every request that
starts is followed to its end in all interleavings. Two connections are enough
for every race between a pair of transactions, and two rows for the deadlocks
two batches can run into; a third connection adds no new kind of conflict (all
locks are exclusive) and the proofs cover any number. In `GameSync`, pages of
one event, two pages a run and a replay of up to two pages make a pull of
several pages, a pull cut off by its limit and a replay that meets events newer
than the cursor happen with a log of three; one failure placed anywhere covers
every await, and since a failed run leaves only storage and late requests
behind, a second failure starts from a state of the same kind. Two other
instances satisfied the same properties: one game with a window of two, two
edits and two foreign events (673 000 states), where the replay re-applies
events older than the row; and one game with three edits (1 036 000 states).

In `JobQueue`, `MaxTroubles` bounds faults, lapses and replays together; two
give every pair, such as a lost answer of `complete` followed by a crash, or a
replay during the recovery of a lapsed lock. Two ids of one key are enough for
the unique index to refuse a recovery, a retry or a replay, and for the fallback
insert. Idle loops poll, so the absence of deadlock says little there, and
`EveryJobEnds` takes its place.

In `server_tasks` one mishap (a crash, a throw, a lost lock, a forced job, a
slow worker) can strike at every step of the monitor, with two workers, so a
second handler of the same game at every point of the first; a larger instance
with two moves of the date and one mishap (181 000 states) satisfies the same
properties. A forced job is a mishap, so one member of `Forces` (the
code's suffix of four flags has sixteen) is all that a game can meet in the run; the
theorems cover any finite set of them. `ChangesAreAnnounced` counts per game, and its allowance for a mishap is
three changes: with three markers and four moves of the date TLC finds a run that
uses all of it, and none that needs more. With its one move of the date the run
tests mostly the other half, that a game without a mishap loses nothing; the theorem
covers any number of both. Two slips are what it takes to
release another refresh's reservation, and the run has two. The schedule's
constants put the release day 66 days ahead, the month 46, the quarter 12 and
the begin of the year behind: every branch of `Cadence` that lies before the
release and both sides of `Cap` occur, and the theorem covers all calendars.
`RateLimit` has three requests for one slot, which is what a barging request
needs; its theorem covers any number. `DiscoveryMatch` starts either with one candidate and two calls (a command and a
refresh of the pool, a targeted run, or a second command, beside two overlapping
runs) or with two candidates, of which one is rearmed for ever, one place per run
and no calls; with both games and both calls at once it has more than two million
states, on which the invariants hold as well. `DeviceStorage` has three launches: one
that migrates, one that repeats or falls back, one that settles; two failures
are what separates the cache from the store (see below).

**Fairness.** Push handlers: strong fairness of each handler's steps. Every await
in them is a query PostgreSQL answers; lock waits are queued and cycles broken
after `deadlock_timeout`, so a handler is not overtaken for ever. Writers that
hold a transaction or a pending event: weak fairness. In `GameSync`: weak
fairness of the running sync's steps (a request ends in an answer or an error),
of `StartSync` (a timer fires every 30 s), of saving a draft, of `initialize`
and of a reset that waits for nothing any more. Edits, foreign events, failures
and crashes are never forced; because they are bounded, `ComesToRest` says what
happens once they stop. It holds for refused operations too, because the server
answers their retry `duplicate`.

In `JobQueue`: weak fairness of each loop (it polls twice a second, queries and
the jobs' work end), of the passing of time for each job, and of recovery, which
a timer of the general worker starts every few minutes.

In `ReleaseMonitor`: weak fairness of the timer for each game, of recovery or
claim of each queued job by some worker, of each handler. In `CompatRefresh`: of
each refresh, which the scheduler starts over and over, and of the end of a bind
command. In `RateLimit`: time passes, microtasks run, every fetch has a timeout;
calls of `acquire` are bounded by `MaxAsks`, and `EveryRequestEnds` is what
remains when they stop: with requests arriving for ever a woken waiter could be
overtaken for ever, because it queues again at the end. In `Recommendations`: of
the scheduler and each job loop, and failures grow old. In `DeviceStorage`: of
the launch and of synchronisation as a whole; kills end with the bound on
launches.

**Properties of `game_sync`.** `NoEditForgotten`: an edit leaves the outbox only
after the server decided on it. `EditsInOrder`: the server applies a device's
edits in the order they were made, whatever was lost, late or sent twice.
`CursorIsCovered`: the stored cursor never promises events that were not applied
since the last reset. `LibraryMatchesServer`: a device at rest shows the
server's rows, except games whose edits the server refuses and after a replay
that broke off half-way. `LedgerSpec`: the client's traffic implements
`OpLedger`. `ComesToRest`: liveness.

**Properties of `job_queue`.** `RunIsExclusive`: unless a lock aged out under a
live run, no two loops run one job, whatever crashes, answers get lost or
maintenance runs. `FailedIsExhausted`: a job is given up only after as many
claims as it asked for, counted anew after a replay. `SucceededIsTerminal`:
unless something failed or a lock aged out, a success is final. The condition is
needed: when the answer of `complete` is lost, the catch block calls `fail`,
which makes the finished job pending again, and it runs once more. Likewise
`RunIsExclusive` fails after a lapse, since nothing fences the old run. Both are
how an at-least-once queue behaves; jobs must bear being repeated.
`EveryJobEnds`: liveness, through all of these.

**Properties of `server_tasks`.** `TasksTypeOK` is the type invariant of the part
that runs.

- `SingleShot` (monitor): no event of one key is delivered twice, whatever
  crashes, times out, drops its lock or runs beside another handler.
- `ChangesAreAnnounced`: a change of date that a watch row went through was
  delivered or had no listener; a mishap costs at most three changes of its game.
  The bound is sharp: a forced job queued beside the timer's announces its change
  from the date before the row's; the timer's job, queued meanwhile, finds its own
  old date again, announces nothing and does not patch the payload; the row then
  has no date, the payload has one, and the next job announces from what it shows.
- `DatesConverge`: once IGDB keeps its date, watch row and payload settle on it.
- `ReleaseDayIsSeen` (schedule): if IGDB knew the day 15 days before (30 once a
  coarser date had begun) and no check failed, a check falls on the release day.
- `SalesAreAnnounced`, `SalesAreAnnouncedOnce` (sale): a sale nobody was told of
  costs a slip, a second send of one sale costs two.
- `BindingIsKept`, `CompatSettles` (compat): a game stays bound to the entry the
  administrator chose unless a refresh that had read it was under way; payload,
  row and list agree in the end.
- `NoSlotIsLost`, `EveryRequestEnds` (rate): slots in use are requests being
  sent, never more than allowed, and never idle while someone waits and nobody
  was woken.
- `ServedNeverRegresses`, `RecommendationsConverge` (recommendations): no rebuild,
  however late or disconnected, puts an older library back; in the end the
  current one is served.
- `TypedHoursStay`, `EnrichmentSettles` (discovery): hours an administrator saved
  while nobody else had read the game stay through runs, retries and refreshes of
  the pool; every candidate gets hours or reaches its last attempt, again and
  again, and none is starved by those selected before it.

**Properties of `device_storage`.** `CacheMatchesStore`: once writes have settled the
session shows what is stored. `PreferenceIsKept`: what is shown is the last value
stored or a later one, through kills and calls that throw at any step of the move
and through rejected writes. `NoEditIsStranded`: an edit is with the server or in an
outbox that will be read. `DeviceSettles`: migrated once, again or not at all, on
either engine, the outbox empties and the device shows what the server accepted last,
unless an old database without a cursor was copied over rows that had been pulled. The
conditions are needed and name what the code does not cover (section 4).

## 4. Findings

Each is a run that ends in the counterexample described; `PROJECT.json` quotes
the lines.

1. **A price refresh can undo an edit on every device** (`sync_price_race`). The
   `UPDATE` and the `INSERT` of the event are two transactions in
   `steam-prices.ts` and `psprices-prices.ts`; a push between them is followed
   in the log by the row from before it. The release monitor does the same
   write in one transaction, and says why.
2. **A cursor can pass an event** (`sync_cursor_race`). Event ids are drawn at
   `INSERT` and visible at `COMMIT`; when two pushes commit in the other order, a
   pull between the commits moves past the lower id. The client's daily replay
   exists, but only reaches back a window and not at all with edits pending.
3. **A stale push can clear a newer cover** (`sync_cover_race`). The payload it
   is reconciled against is read without the row's lock.
4. **A sync can undo the remediation's reset** (`game_sync_remediation`). The
   callbacks are registered before the remediation is awaited.
5. **The storage migration can run again** (`device_storage_rerun`). A comment says
   that a failed deletion of the old database "will not rerun the migration because
   the flag is set", but nothing waits for the write of the flag. When it is lost
   with the process, or rejected, the next launch copies the old database again.
   That repairs itself where the old database has a cursor: SQLite's goes back with
   it and everything since is pulled again. An install that had never pulled has no
   cursor row to copy: the old version then lies over the newer one, SQLite's cursor
   stays where it is, and nothing is pulled again until the server changes that game
   (or the daily replay reaches back to it). `DeviceSettles` leaves these devices out
   (`unwound`) and shows that all others settle.

Smaller things met while modelling, each stated by a condition or an allowance
of a property above rather than by a run of its own:

- **Release monitor.** A send that throws, or a worker that dies, after the
  reservation was committed leaves the reservation: the event is never sent. A
  throw between the payload patch and the watch row of a game first seen without
  a date means its date is never announced as "set". `last_notified_release_day`
  is a `DATE` read at local midnight and written to JSON in UTC, so in the
  server's time zone the check against it never matches; only the log keeps the
  release day single-shot. A date that moves from A to B, back and to B again is
  announced once: the key is the same. A forced refresh beside the timer's job can
  cost three announcements (section 3). Each is within `ChangesAreAnnounced`.
- **Sale and compatibility alerts.** This sender releases its reservation when the
  send throws, so devices that were reached get the alert again from a later
  refresh; the release is by key, so a second `DELETE` can remove the reservation
  of another refresh. A crash between the `UPDATE` and the alert is never made up for.
- **Compatibility.** A binding given while a refresh of an already bound game is
  under way is reverted (`BindingIsKept` excludes it). An unbound game at the best
  status is never looked at again.
- **Schedule.** A month, quarter or year that has begun counts as released, so the
  cap of 15 days does not apply and 30 days may pass unseen. A failed check on
  the release day plans the next one a day later and misses it.
- **Rate limiter.** The cooldown is not looked at again after the wait for a slot.
  A cooldown counts from when the request came in, so a slow request shortens it.
- **Recommendations.** A run of a slow worker that recovery has failed can still
  become a success. When the unlock throws, the client is not released to its
  pool. The class `RecommendationScheduler` is never started; jobs are enqueued by
  the worker's own timer.
- **Discovery matches.** A run writes the payload it read before it asked the
  provider, to whatever row is there: a match saved meanwhile is undone, and a
  game the user has added to the library meanwhile is a discovery row again
  (`updateGamePayload` has no condition). A refresh of the pool keeps hours and
  prices but not the locks (`hltbMatchLocked`, `psPricesMatchLocked`) nor the pinned
  ids, although `docs/discovery-match-admin.md` says of pricing that the lock lasts
  "until the manual match is cleared or replaced". When the pinned id is not among
  the candidates, `finalizeHltbPayload` answers with the best guess, which is then
  stored under the lock. A requeue for given keys is dropped while any run is active.
- **Device storage.** Edits made in a session that fell back to Dexie after the
  migration stay in Dexie (`strays`). Two rejected writes, or one beside a repeated
  value, leave cache and store different (`rejected`, `repeats`). A preference set in a
  session without native Preferences is not taken over by the next one once the move
  is marked.
- **Client sync.** The echo of an edit, or any pulled event, replaces the row of a
  game with a pending edit, except its cover; a further edit made before the pending
  one is pushed and pulled back is based on that row and does not carry it. A test
  asserts as much (`game-sync.service.spec.ts:1386`), so no property forbids it.
- **Queue.** A replay is refused as a whole by the unique index when one of its
  jobs has an active twin (`SweepFails`); an unknown type name in the request
  stands for all types; the fallback insert has no key and can duplicate a job.

## 5. Proofs

`SyncServer_proofs` proves, for every finite or infinite set of connections,
operations, keys, writers and readers that satisfies the three assumptions of
`SyncServer` (operations are records with one operation per id; the markers for
"no row" and the like are distinct from data; bounds are naturals):

| theorem | statement |
| --- | --- |
| `TypeCorrect` | `Spec => []TypeOK` |
| `AtMostOnce` | `Spec => []OneEventPerOp` |
| `DurableReplies` | `Spec => []RepliesAreDurable` |
| `Exclusion` | `Spec => []WritesAreExclusive` |
| `Implements` | `Spec => LedgerSpec`, the refinement of `OpLedger` |
| `CursorsAdvance` | `Spec => CursorsOnlyAdvance` |
| `LogEndsInTheRow` | `Pricers = {}` implies `Spec => []LastUpsertIsTheRow` |
| `EditsAreCarried` | `Pricers = {}` implies `Spec => []LastUpsertCarriesTheEdit` |
| `PullsPassOverNothing` | a pull gives its reader every logged event between the old cursor and the new one |
| `CursorsCover` | with at most one connection and no writers, `Spec => []CursorCoversLog` |
| `CoversSurvive` | with at most one connection, `Spec => NewerCoverSurvives` |

`TypeOK` is not inductive: a handler that works on an operation must have one,
and event ids must have been handed out by the sequence. `Typed` adds these
(`Shape`, `Allocated`, `Assigned`). `OneEventPerOp` is about committed state and
says nothing of transactions about to commit; the inductive invariant is

- `LedgerInv`: what a transaction has not committed yet is consistent with what
  it read: events and idempotency records of a transaction belong together, for
  operations nobody has settled, and no two transactions hold a record of one
  operation (the unique index);
- `IdsDistinct`: ids in the log, in transactions and with writers never clash,
  which the refinement needs for fresh ids;
- `RowsExclusive`: no two transactions hold a row;
- `Reported`: results on their way into a reply match the transaction's records
  before the commit, and the table's after it.

The others are about what a device downloads. `LogInv` says of rows held by a
transaction that its last event of the row carries what it wrote (`TxCloses`), that
upserts are logged under the row's lock (`TxLocks`) and that an open writer is
alone with its row (`WriterLocks`): then the last upsert in the log is the row. The
price writers log outside the lock, and the theorem excludes them as the run
`sync_writers` does. As an upsert in the log always carries a row (`UpsertsCarryRows`),
the edit in the table is then the log's last as well: only the price writers separate
the two. `Caught` keeps cursors at or below the log's end. A page is the first events
behind the cursor, however ids are spaced (`PageIsWhole`, which counts in the finite
log), so a pull passes over nothing that is in the log. What a reader misses was
committed behind its cursor, which one connection alone cannot do (`InOrder`): the
finding is about the order of commits, not about paging, the query for the largest
id, or restarts. `CoverInv` says that the payload a
handler decides on still has the row's cover when it writes, which holds only
while no second connection can come between. The conditions are exactly what the
code lacks: section 4 shows the violations without them.

Each has a lemma per action under the preservation step. The refinement maps
`CommitTx`, `EnrichCommit` and `PriceAppend` to `Settle` and every other step to
a stutter.

`JobQueue_proofs` does the same for the job queue, for any loops, processes,
job types, producers and requests, from the assumptions of `JobQueue` (each loop
has a process and a type, the markers for NULL are no data, bounds are naturals):

| theorem | statement |
| --- | --- |
| `TypeCorrect` | `Spec => []TypeOK` |
| `Exclusive` | `Spec => []RunIsExclusive` |
| `Exhausted` | `Spec => []FailedIsExhausted` |
| `FinalSuccess` | `Spec => SucceededIsTerminal` |

`Typed` adds to `TypeOK` that a loop holds a job exactly while it is busy and that
no row, holder or candidate is ahead of the id sequence. `Counted` ties the
claims a job has seen to its `attempts` column. `RunIsExclusive` alone is not
inductive: that nobody runs a job one is about to claim follows only from what
the rows say. `Sole` is the strengthening: every held job is running under its
holder's name with a fresh lock, or purged, or already ended by a `complete`
whose answer was lost (`Covered`); holders are alone; and the candidates of
recovery and replay are unheld and still in the state they were selected in
(`Current`), which is why the unlocked snapshots do no harm. Most steps do
nothing to a row that its holder or a maintenance statement relies on
(`Harmless`, `SoleFrom`); claims, a `complete` that throws and the snapshots have
lemmas of their own. `FinalSuccess` is an action property and follows from `Sole`
at each step.

`GameSync_proofs` is about the other end of the line, for any games, page sizes,
windows, batches, edits, failures and resets:

| theorem | statement |
| --- | --- |
| `TypeCorrect` | `Spec => []TypeOK` |
| `EditsAreKept` | `Spec => []NoEditForgotten` |
| `EditsStayInOrder` | `Spec => []EditsInOrder` |
| `ClientImplementsLedger` | `~Upgraded` implies `Spec => LedgerSpec` |
| `CursorStaysCovered` | `~Upgraded` implies `Spec => []CursorIsCovered` |
| `LibraryFollowsServer` | `~Upgraded` implies `Spec => []LibraryMatchesServer` |

- **Types.** `Shape` says what each stage of a sync may hold (no request outside the
  stages that send, pages that are slices of the log only where pages are used)
  and that the operations known anywhere were made.
- **Edits.** `EditsInOrder` is not inductive: as far as it says, a late request may settle an edit
  before an older one. `OrderInv` has the reason why none does: what is left of a
  listed outbox together with the request in flight is `Closed` (whatever precedes
  an operation is in the set or settled), so is each request, and each late
  request stays so because nothing is ever unsettled. That holds only because a
  sync sends the outbox from its start, awaits each answer and gives up at the
  first failure; the mutation `SkipLostBatch` is a client that goes on.
- **Ledger.** The log only grows, by an ordered listing of operations that were not
  settled (`Ordered`, `Taken`). A request that arrives is one `Settle` of
  `OpLedger`, an event of another device one with no operation, and every other step
  a stutter. A library of the older version starts with an event in its log, where
  `OpLedger` starts with none: hence `~Upgraded`.
- **Cursor.** `CursorInv` ties the `from` of a running pull to the stored cursor and
  says, between `ApplyPage` and `StoreCursor`, that the page is covered. Its
  conjunct `remediated` is where `~Upgraded` enters: with a remediation to do, the
  cursor is reset under a running sync, and the run `game_sync_remediation` shows
  the violation. The other reset waits for the sync, and the proof uses that.
- **Library.** `LibraryInv` is stated for every moment, not for a device at rest: a
  game shows what the server holds, or an operation on it is undecided, or an
  event of it lies after the `Mark`, the position up to which the library is
  current. While a replay is half-way (`within`) the mark is pulled back to the
  start of the pages still to come, so a replay may put old rows in as long as it
  completes. It rests on `OutboxInv` (once the outbox is pushed, what is still in
  it was made since, or was refused: the discovery row that removes a game thus
  never meets a settled edit) and on `ReplayInv` (collected pages follow each
  other without a gap and end at or after the cursor). The last needs
  `ReplayAssumption`, that a replay has room for its window, which the constants in
  the code satisfy (5 pages of 1000 for 5000 events): with a longer window a
  replay would end before the cursor with rows of the past.

`DeviceStorage_proofs`, for any themes, edits, launches and glitches:

| theorem | statement |
| --- | --- |
| `DeviceTypeCorrect` | `DeviceSpec => []DeviceTypeOK` |
| `EditsAreNotStranded` | `DeviceSpec => []NoEditIsStranded` |
| `CacheAgrees` | `DeviceSpec => []CacheMatchesStore` |
| `PreferenceSurvives` | `DeviceSpec => []PreferenceIsKept` |

- **Edits.** `StrandInv` follows the flag: once it is stored or on its way
  (`FlagComes`), each edit is with the server or in SQLite, and no session uses Dexie.
  `MoveInv` says how far the move of the preferences has come, since the flag is
  itself a preference and moves with them. The first attempt at this proof showed
  a mistake in the property: it had excused only sessions that fell back after the
  flag was in Preferences, and failed with three glitches, one more than the run
  has, when the flag was still in localStorage and about to be moved. `strays` now
  counts what the next launch will find (`NextFlag`).
- **Cache.** With no write rejected and no value repeated, the writes in flight are
  `Chained`: each remembers what its predecessor stores, and no two store the same
  value (`Distinct`). From that a single rejection, wherever it falls, leaves the
  cache at what will be stored (`Shows`): the rolled-back value is the store's, or
  the write is not the last of its key and its value no longer in the cache. One
  rejection uses up the chain, which is why the property stops there.
- **Preference.** What is stored (`ThemeStored`) and what is in flight
  (`PendingWanted`) are among the values kept, before and after the move is marked,
  whatever call throws or kill comes in between. With rejected writes that is not
  enough, since the cache rolls back to values it showed before: `Based` says that
  some preferences, the theme among the values kept, are what the cache shows of keys
  with no write in flight and what the oldest such write falls back to. A rejection
  passes them on as long as no write repeats a value in flight; with a repetition the
  rollback takes the repeated value for its own, and TLC refutes the property.

The modules of the server's tasks are proved about in the same way, each for
all values of its constants:

| theorem | statement |
| --- | --- |
| `ReleaseMonitor_proofs!MonitorTypeCorrect`, `DeliveryIsSingleShot` | `MonitorSpec => []MonitorTypeOK`, `[]SingleShot` |
| `ReleaseMonitor_proofs!ChangesAreCounted` | `MonitorSpec => []ChangesAreAnnounced` |
| `ReleaseMonitor_proofs!CalmGamesLoseNothing` | `MonitorSpec => [](\A g \in Titles : mishaps[g] = 0 => LostOf(g) = {})` |
| `ReleaseMonitor_proofs!ScheduleTypeCorrect`, `NoReleaseDayMissed` | `ScheduleSpec => []ScheduleTypeOK`, `[]ReleaseDayIsSeen` |
| `Provider_proofs!CompatTypeCorrect`, `BindingsAreKept` | `CompatSpec => []CompatTypeOK`, `[]BindingIsKept` |
| `ServerTasks_proofs!SaleTypeCorrect`, `AlertsAreSingle`, `NoSaleUntold` | `SaleSpec => []SaleTypeOK`, `[]SalesAreAnnouncedOnce`, `[]SalesAreAnnounced` |
| `Provider_proofs!RateTypeCorrect`, `SlotsAreKept` | `RateSpec => []RateTypeOK`, `[]NoSlotIsLost` |
| `Provider_proofs!DiscoveryTypeCorrect`, `TypedHoursAreKept` | `DiscoverySpec => []DiscoveryTypeOK`, `[]TypedHoursStay` |
| `Recommendations_proofs!RecTypeCorrect`, `NothingOlderIsServed` | `RecSpec => []RecTypeOK`, `ServedNeverRegresses` |
| `ServerTasks_proofs!PartsBehave` | `TasksSpec` implies the specification of each of the seven components (of discovery, without its fairness) |
| `ServerTasks_proofs!TasksTypeCorrect` | `TasksSpec => []TasksTypeOK` |

- **Single-shot delivery** says nothing of handlers about to send. `Exclusive` adds
  that nothing was delivered again, that what was delivered is in the log, that an
  event a handler holds is reserved and not delivered, and that no two handlers
  hold one event: only the holder releases a reservation, and the one that
  delivered finalises it. Locks, job owners and the snapshot play no part: the
  primary key of the log alone carries the property, as the code's comment says.
- **Announced changes.** The property counts what is lost; the invariant, `AllCounted`,
  counts beside it what each game may still lose, and every action moves no more
  than it pays for, three units per mishap (`Debt`). A key is `Bad` when it is lost,
  or is in the log, undelivered and with nobody left to send it: handlers skip it
  from then on. A handler that does not own the timer's job of its game, a stray,
  owes up to three (`RunDebt`): it may overwrite the payload, record a change the
  row's date does not call for, and leave a row behind that the next job is misled
  by. A forced job, of whichever kind, owes three until it has been claimed, or, claimed by a process
  that holds the game's lock, ends as it should (`Secure`). The timer's job owes one
  if its payload is not the game's and one if its snapshot is not the row's
  (`RestDebt`); while it runs, the second is also owed when the change to come is
  neither announced nor on its list (`Errand`); and two more when it runs without
  the lock (`Adrift`), for it will throw and be queued again with the same snapshot.
  With no job, a payload with a date under a row without one counts (`Missing`).
  `Kept` says that a handler's events are of its game and its snapshot is its job's.
  The debts of handlers are piles of units, one set per game, whose cardinality no
  step can raise beyond its own handler's (`PileChanges`); `DebtSettles` adds up, and
  `LeftAlone` shows that a step of one game changes nothing of another's. TLC checked
  `AllCounted` as an invariant of the monitor alone, with three markers and four
  moves of the date and with two mishaps, before it was proved (for one kind of forced
  job; each other kind adds a debt of its own to the sum). An
  allowance of two changes per mishap is refuted by TLC with four moves of the date;
  with one move, as in the run, it would stand.
- **The release day** needs the plan: a check is always ahead (`hour < planned`), at
  `NextCheck` of the date as it was last known while no check has failed; a date
  known in time is known to the day, and until the release day has been seen it has
  not begun to pass (`OnPlan`). Arithmetic lemmas bound `NextCheck` on each branch of
  `Cadence`. `MaxLate <= 17` is used: a check planned six hours ahead within the
  last day must still fall on it.
- **Bindings**: `Bound` adds to the types what refreshes have read. While no command
  overlapped one, a refresh that is about to write a status has read the binding
  (`ReadersKnow`).
- **Typed hours**: `HoursInv` says that whoever has read a game since its hours were
  typed has read those hours: a run that has it still in its batch, which lists a
  game once (`Single`), and a request whose command is yet to come. So whatever is
  written back contains them, and only a refresh of the pool drops the lock.
- **Sales**: each sale's alerts, senders and reservations are weighed against the
  slips. `Accounted` says that twice the alerts, senders and failed sends of a
  sale beyond the one that holds its reservation, and the releases under way, do not
  exceed the slips spent; every action moves at most the weight it pays for.
  `Paid` counts the sales nobody was told of and nobody still works on
  (`Forgotten`) against the slips. Both count with cardinalities, so `Sellers` is
  assumed finite.
- **Slots**: `Slots` counts senders and woken waiters as cardinalities and says that
  the queue holds the waiting requests, each once; a step adds or removes one
  element of these sets.
- **Served library**: `Fenced` says that runs are created in the order of the libraries
  they were built from (`Ordered`) and that the holder of the lock (`Holder`) has
  read a library no run is newer than, and its own run is the last and not yet a
  success. The choice of the last success is a maximum over a finite set of indices.

Assumptions beside those of typing: `Keys`, `Titles` and `Games` not empty; `Games`,
`Forces`, callers and sellers finite; the markers for "no row" and "no task" distinct from
rows and tasks (`AbsenceAssumption`); the order of the calendar's begins;
`MaxLate <= 17`; `Window <= ReplayPages * PageSize` (`ReplayAssumption`). TLC evaluates
all of them in the runs of the modules that declare them.

Only model-checked:

- `PushCompletes`, `ComesToRest`, `EveryJobEnds`, `DatesConverge`, `CompatSettles`,
  `EveryRequestEnds`, `RecommendationsConverge`, `EnrichmentSettles` and `DeviceSettles`: liveness under
  fairness, and ENABLED, are out of the prover's reach;
- of the server, what is false beyond the conditions of its theorems (section 4):
  `LastUpsertIsTheRow` and `LastUpsertCarriesTheEdit` beside the price writers,
  `CursorCoversLog` and `NewerCoverSurvives` with two connections. With one connection
  and a writer `CursorCoversLog` is false as well;
- `CursorIsCovered` for a library that is to be remediated, where it is false, and
  the library of such a device, which starts with a row the server does not have.

No module that is proved about uses a recursive operator, one of the libraries'
included: what `SelectSeq` or `SetToSortSeq` return, even its type, needs an
induction that the installed provers cannot instantiate. That is why the outbox,
a request and a selection are sets here, and their order is a function with the
elements in that order (`Ordered`, `Increasing`, `Orders`), of which the proofs use
that it lists each element once and, for `EditsInOrder`, the order.

## 6. Not modelled

Rendering, request validation, provider protocols, scoring, file catalogues and
build tooling are left out: they are data transformation or I/O with no state
that outlives a call. They are most of the repository's lines: the pages
(`game-list`, `settings`, `explore`), `igdb-proxy.service.ts`,
`game-shelf.service.ts`, the matching of shop entries in `psprices-prices.ts`, the
worker's proxies and scrapers. What they write goes through
`LocalGameRepository` or the statements modelled here.

With state, but left out:

- popularity ingestion: batches under an advisory lock that replace rows of their
  own; in the discovery pool, the review and Steam lookups, whose retry entries
  follow the one modelled, and the locks of review and pricing;
- metadata enrichment: the selection of rows and the provider calls; its write is
  `EnrichBegin` and `EnrichCommit`;
- provider, image and manual caches: independent read-through entries, no
  invariant across two of them;
- live updates: the state is the vendor plugin's;
- in the release monitor, the HLTB and review refreshes and the clean-up of
  tokens; in `LocalGameRepository`, `deleteTag`, an edit of several games;
- ties and jumps of the clock in the outbox order, operations the database
  itself always refuses, and explicit ids beside the identity sequence of tags
  and views, which are listed as hazards without a property.
