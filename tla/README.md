# TLA+ models of rudder-server: event schemas, warehouse uploads, etcd mode watch, Google Sheets producer

This directory models the repository's sources (`src/`) in TLA+ and checks
them with TLC. The core is the event-schema engine in
`src/event-schema/event_schema.go`. It infers the field→type shape of incoming
events, groups them into *event models* and *schema versions*, evicts and
offloads them to bound memory, and flushes them periodically to two Postgres
tables. Two more modules model the warehouse upload job's state loop
(`src/warehouse/upload.go`), with an abstract specification it is shown to
implement, and the etcd connection, pod-mode and workspace watches
(`src/etcdconfig/etcd.go`). A fourth models the Google Sheets stream manager
(`src/services/streammanager/googlesheets/googlesheetsmanager.go`). The jobsdb
pre-backup and the legacy union query are listed in the inventory and the
plan.

## 1. Inventory

### Components of the event-schema engine (`src/event-schema/event_schema.go`)

| Component | State it keeps | Operations (lines) |
|---|---|---|
| Type & hash extractor | none | `getSchema` 736-750 (reflect type name; `nil` becomes "unknown" or is dropped), `getSchemaHash` 752-768 (MD5 of sorted `path:type,`) |
| Schema registry | `eventModelMap` (writeKey→eventType→identifier→*EventModelT), `schemaVersionMap` (modelUUID→hash→*SchemaVersionT), two RWMutexes | `handleEvent` 267-360, `oldestSeenModel` 362-383, `oldestSeenVersion` 385-399, `mergeSchema` 401-429, cache helpers 191-244 |
| Dirty sets and tombstones | globals `updatedEventModels`, `updatedSchemaVersions`, `toDeleteEventModelIDs`, `toDeleteSchemaVersionIDs` | written by `handleEvent`, read and cleared by the flush |
| Cold storage (offload / reload) | global `offloadedEventModels` (writeKey→"type::id"→stub) | `offloadSchemas` 593-615 (sleep, sweep), `reloadModel` 617-622 via `populateEventModels`/`populateSchemaVersions` filtered on one uuid |
| Persistence flush | the two tables `event_models`, `schema_versions` | `flushEventSchemas` 485-587: ticker; one transaction under both locks; delete-then-COPY-insert; panic on any error |
| Ingestion pipeline | `eventSchemaChannel` (10000 deep), `noOfWorkers` goroutines | `RecordEventSchema` 182-189 (non-blocking send, drop when full), `recordEvents` 448-458 |
| Startup | all of the above | `Setup` 779-813: reset the maps, `populateEventSchemas` unless `disableInMemoryCache`, start the workers, the flush loop and the offload loop |
| Reservoir sampler, frequency counters | per-object sample and total; global counter map keyed by (hash or model uuid, field) | source not under `src/`; spec §4.2-4.3 |

**How they interact.** A worker calls `handleEvent` under both locks. The call
looks the model up in the hot map; on a miss it looks at the cold stubs and
reloads synchronously from the tables, or it creates a new model, evicting
the oldest model of the write key at the limit. Then it finds or creates the
schema version, evicting the oldest version at the limit, and marks both
dirty. The flush loop and the offload loop take the same two locks, so every
operation is atomic with respect to the others. The only real concurrency is
the order of these atomic steps, together with the timers that schedule the
two loops. Setup after a crash runs concurrently with nothing. A failed flush
transaction panics (`assertTxnError`), and the process restarts.

**What is hard.**
- Pointer aliasing between the hot map, the dirty maps and the "oldest"
  candidate. `oldestSeenModel` writes into the object it holds.
- The order of the deletes and inserts inside one flush, against objects that
  are evicted but still dirty.
- Two independent timers, flush and offload, relative to each model's
  `lastSeen`.
- A crash, or the panic of a failed flush, between handling an event and
  flushing it. Scan order then decides which duplicate row wins on reload.
- Counts at the limits: the model count includes offloaded stubs, and the
  version limit uses `>=`.

**Properties that make it correct** (spec §3, §4, §8):
- Unsaved state is always in a dirty set.
- Stored counts never go backwards.
- The capacity limits hold in memory and in the store.
- Cold stubs are reloadable.
- A live model keeps its identity.
- Liveness: every dirty object is eventually stored. This is planned.

### Other components of `src/`

| Component | Source | Plan |
|---|---|---|
| Warehouse upload job | `src/warehouse/upload.go` (`run` 172-384, `setUploadStatus` 607-623, `setUploadError` 667-710, `setStagingFilesStatus` 712-727) | `UploadJob.tla` (section 2) |
| etcd connection, pod mode, workspaces | `src/etcdconfig/etcd.go` (`WatchForWorkspaces` 63-87, `GetWorkspaces` 92-117, `GetEtcdClient` 119-140, heartbeat 142-178, `WatchForMigration` 182-202, `MigrationWatch` 205-226) | `EtcdWatch.tla` (section 2) |
| jobsdb pre-backup | `src/jobsdb/prebackup/prebackup.go`, `src/config/backend-config/extractors.go` | unsynchronised `sourceIds`, read twice per `Do` |
| jobsdb legacy query | `src/jobsdb/unionQueryLegacy.go` | budget arithmetic of `GetAllJobs` |
| Google Sheets stream manager | `googlesheetsmanager.go` (`NewProducer` 61-145, `Produce` 147-177, `insertDataToSheet` 207-227, `parseTransformedData` 241-256, `handleServiceError` 270-287) | `GoogleSheets.tla` (section 2) |
| Kafka error table | `kafkaerror.go` | not modelled: constant strings only |
| Tests, mocks | `*_test.go`, `src/mocks` | not modelled |

## 2. Modules

### `EventSchema.tla`: the registry, offload/reload, the flush and restart

**State.** Go objects live in heaps: `mheap` holds the `EventModelT`s and
`vheap` the `SchemaVersionT`s. An object is named `<<uuid, load generation>>`.
The maps hold pointers into these heaps:
- `hot` is `eventModelMap`, keyed by `<<writeKey, kind>>`.
- `vcache` is `schemaVersionMap`.
- `dirtyM` is `updatedEventModels` and `dirtyV` is `updatedSchemaVersions`.

An object reachable from both a cache and a dirty set is therefore one object,
as in the code. `stubs` is `offloadedEventModels`. `toDelM` and `toDelV` are
the two tombstone lists, kept as sets because they are only used in
`IN (...)`. `dbM` and `dbV` are the tables, keyed by uuid.

**Data abstraction.**
- A payload is a function from a small set of fields to a type name, `NilValue`
  or `Absent`.
- `GetSchema` is `getSchema`.
- `SchemaHash` is the sorted `path:type` pair sequence that `getSchemaHash`
  digests. MD5 is taken to be injective.
- A model's schema maps each field to the type names joined so far.
  `TypeRecorded` is the `strings.Contains` test, through the substring
  relation `SubTypeName`.
- A reservoir sample is kept only as its total counter.
- The frequency counters are left out. They are a separate global map that no
  registry decision reads.

**Actions.**
- `HandleEvent(w, k, p)` is the whole `handleEvent`, built from operators named
  after the code:
  - `LookupModel`, with `Reload` and `CreateModel`;
  - `OldestSeenModel` and `EvictModel`;
  - `RecordVersion`, with `OldestSeenVersion`, `EvictVersion` and
    `TouchVersion`;
  - `MarkModelDirty`.

  These operators return the set of possible outcomes, because Go's random
  map order makes the choice among tied candidates, and among duplicate rows
  in a scan, nondeterministic.
- `DropEvent` covers the early returns of `handleEvent` and a drop by
  `RecordEventSchema`.
- `FlushEventSchemas` fires when `now = nextFlush`. `OffloadSchemas` fires when
  `now = nextOffload`.
- `Tick` advances the clock but never past a due tick, so each loop fires on
  time.
- `Restart` is a crash, including the panic of a failed flush, followed by
  `Setup`.

### `MCEventSchema.tla`

Defines the fields `a` and `b`, their sort order, and the payload sets: `{a:
string}`, `{a: string, b: float64}` and `{a: float64}`. With no type name a
substring of another, `SubTypeName` is empty.

### `UploadJob.tla`: the warehouse upload loop (`upload.go`)

**State.**
- `pc` is where `run` is: before it, in the `for` loop, or returned.
- `curr` is `currState`.
- `memStatus` and `memErr` are `job.upload`'s status and per-state attempt
  counts.
- `dbStatus` and `dbErr` are the `wh_uploads` row.
- `firstAt` abstracts `timings[0]` to none, recent or older than
  `retryTimeWindow`.
- `hasStaging` is whether there are staging files.
- `result` is what `run` returned.
- `failures` and `ran` are history variables: the `setUploadError` calls per
  state, and the stages that succeeded since the upload schema was generated.
- `iter` flips on every loop iteration. It stands for the timings list, which
  grows each time round, so a loop that makes no progress is still a sequence
  of distinct steps and not a stutter.

**Data abstraction.** Every stage body (schema generation, table uploads,
load files, counts, schema migration and the three exports) is reduced to
success or failure. `Stage` records, for each case of `run`'s switch, the
states that enter it, the state it moves to on success, and whether its
`err` is declared with `:=` inside the case. Attempt counts saturate at
`minRetryAttempts + 1`, the only comparison the code makes.

**Actions.**
- `Start` is `run`'s preamble: no staging files, `syncRemoteSchema`, and
  `Connect`. Each failure goes through `setUploadError` and returns.
- `LoopStep` is one iteration of the `for` loop: the switch case, then
  `setUploadError` or `setUploadStatus` for the next state, or the return.
- `WindowPasses` is time passing `retryTimeWindow`.
- `Crash` is a panic or crash followed by a re-run from the stored row. It
  reloads `job.upload` from the database, as the next pickup does.
- Every DB statement may fail, drawn from `MaxDbFaults`. A stage fails only
  if it is in `FailingSteps`, drawn from `MaxStageFaults` or without bound
  (`Unbounded`).
- The pickup of an upload is outside `src/`. The model assumes that an
  upload whose row says `exported_data` or `aborted` is not picked up
  again. Without that assumption, a crash after the final write would re-run
  the preamble, and its failure path would overwrite the final status.

### `AbstractUpload.tla` and the refinement

`AbstractUpload` states what `run` promises of one upload, in three
variables:
- `done` is the set of stages completed since the upload schema was last
  generated.
- `exported` says whether the upload is recorded as exported.
- `aborted` says whether it is recorded as aborted.

It has two actions:
- `Perform(i)`: stage `i` completes. It requires that stage `i - 1` is in
  `done`; stage 1 starts `done` afresh. Only stage 8 may set `exported`.
- `Abort`.

Both are disabled once the upload is exported or aborted.

`UploadJob` instantiates it as `Abstract`, with this mapping:
- `done` is the numbers of the stages in `ran`, in the order of
  `StageOrder`, which is the chain of the switch's cases.
- `exported` is `dbStatus = exported_data`.
- `aborted` is `dbStatus = aborted`.

`ImplementsAbstractUpload == Abstract!Spec` is checked in the `upload` run,
under failures, lost writes and a crash. It replaces the earlier invariant
"exported only after every stage", which it implies. It also says more:
- each stage follows its predecessor at every step;
- the two final statuses are never overwritten.

### `EtcdWatch.tla`: connection, pod-mode and workspace watches (`etcd.go`)

**State.**
- `revs` and `wsRevs` count the writes of `/mode` and `/workspaces`. A value
  is named by its revision, so a DELETE event is a revision like a PUT.
- `cpc` is where `GetEtcdClient` is: dialling, holding the client with the
  heartbeat running, or done.
- `gpc` is whether `GetWorkspaces` is waiting in its `select` or has
  returned.
- `wsSeen` is the workspaces the process serves.
- `wspc` and `wsPos` are the `WatchForWorkspaces` goroutine and its watch
  position.
- `initialized` is `podStatuswatchInitialized`, `podStatus` the shared
  status and `wg` the counter of `podStatusWaitGroup`.
- For each subscriber, `spc` is its progress in `WatchForMigration`, `inbox`
  its event-bus queue and `mode` the mode it acts in.
- For each watcher goroutine, `wpc` is its place in `MigrationWatch` and `pos`
  the last revision its etcd watch delivered.
- `released` holds the waiters a `Done` reaching zero woke.
- `completed` is the sequence of `/status` acknowledgements.
- `faults` counts panics.

**Actions.**
- `ModeWrite` and `WorkspacesWrite` are the environment's writes.
- `Dial` is `clientv3.New` and `cli.Status` succeeding, which starts the
  heartbeat.
- `ClientReturned` is the hand-over on the unbuffered `clientReturnChan`
  together with the rest of `GetWorkspaces`. It starts a `MigrationWatch`,
  reads `/workspaces` and starts `WatchForWorkspaces`.
- `ConnectFails`, `ConnectTimeout` and `HeartbeatTimeout` are the three
  panics. Each is followed at once by `Restart`: etcd's keys and `/status`
  stay, every package variable and goroutine starts afresh, and main calls
  `GetWorkspaces` again.
- `WatchWorkspaces` and `WorkspacesChanged` are the workspace watch. Each
  event is taken by the caller as it is sent, because the channel is
  unbuffered.
- `Subscribe` and `CheckAndReturn` are the two halves of `WatchForMigration`.
  They are split at the point where another goroutine can run.
- `StartWatch`, `Receive`, `Add`, `Publish` and `Complete` are the steps of
  one `MigrationWatch` iteration.
- `Handle` is a subscriber acting on a status and calling `Done`.
- `Quiescent` is the stutter once nothing is left to do.

`cli.Watch` without a revision starts at the current one, so the watches
start at `revs` and `wsRevs`.

**Assumptions about the callers and the environment.**
- `cli` is set only by `GetEtcdClient`, so components must call
  `WatchForMigration` only after `GetWorkspaces` has returned. The model
  assumes they do; that order is decided outside `src/`.
- `WritesAfterStartup`: a key changes only after the process is up, with
  every component subscribed and every watch open.

### `GoogleSheets.tla`: the Google Sheets producer (`googlesheetsmanager.go`)

The only state is remote: the spreadsheet tab. The caller, the router, is
not in the repository and is the environment.

**State.**
- `sheet` is the tab's rows, top to bottom. A row is a header (one per
  destination config, `Headers`) or a message's values.
- `client` is the producer the caller holds: the header it was created with,
  or `NoClient`.
- `status[m]` is the status code of the last `Produce` of `m`, and
  `attempts[m]` how often it was called.
- `panicked` is the message whose `Produce` panicked, which ends the server.

**Actions.**
- `NewProducerFails`: the config, OAuth client or sheets service fails
  (lines 61-126); no client.
- `NewProducer(h)`: the header row is written over `A1` with `Values.Update`
  (128-145). The client is returned together with the Update's error
  (`clientErr`), as line 144 does.
- `Produce(m)`: `parseTransformedData`, then 400 on a parse error, or
  `Values.Append` and 200 or `handleServiceError`'s code (147-177).

A request ends in one of `RequestOutcomes`: success, a context deadline
before or after the server applied the write (both 504), a
`*googleapi.Error` (its code), an expired token (721) or another error (500).

`parseTransformedData` is the RECURSIVE operator `Fill`. It visits the keys
in every order `SetToSeqs` gives, because Go's map iteration order is
random. A non-numeric key returns an error; a key outside the slice of
`len(message)` strings panics.

**Assumptions.** The caller uses a producer only when `NewProducer` returned
no error (`Produce`'s guard `~clientErr`); a caller that appended through a
producer whose header write failed could have its first row overwritten by
the next producer's header. It calls `Produce` again after any answer but 200 and 400, up to
`MaxAttempts` times. A payload's `spreadSheetId`/`spreadSheet` name the
producer's sheet; the sheet starts empty.

## 3. Runs

| Run | Config | Expect | What it shows |
|---|---|---|---|
| `eviction` | `MCEventSchema_eviction.cfg` | pass | One write key, two kinds, two shapes, both limits 1, flush every 2, offload threshold beyond the horizon, no restart. Every new kind or shape evicts. `EveryUnsavedChangeIsDirty` and `VersionLimitRespected` hold (325k states). The model limit is not checked: finding 1 breaks it once stubs exist. |
| `offload` | `MCEventSchema_offload.cfg` | pass | Limits admit every model. Flush every 2, sweep every 1, threshold 2 (the default relation: flush interval ≤ threshold). Clock to 7, one restart, two reloads. `EveryUnsavedChangeIsDirty`, `StubsAreReloadable` and `StoreTotalsNeverDecrease` hold (1.66M states). |
| `stub_evict_identity` | `..._stub_evict_identity.cfg` | violation | `HotModelsKeepIdentity`: eviction that picks a stub rewrites a live model's uuid and key (finding 1). |
| `evict_resurrect` | `..._evict_resurrect.cfg` | violation | `StoreModelLimitRespected`: an evicted dirty model is re-inserted by the flush (finding 3). |
| `upload` | `MCUploadJob_run.cfg` | pass | Every step may fail (2 stage faults), one DB fault, one crash, `minRetryAttempts = 1`. `ImplementsAbstractUpload` and `AbortedOnlyAfterRetries` hold (17.5k states). Termination is not claimed here: with a finite fault budget `run` returns because the faults run out, and with faults that keep coming it does not return (`upload_never_returns`). |
| `upload_never_returns` | `MCUploadJob_never_returns.cfg` | violation | `EventuallyReturns`: a step that keeps failing is retried forever (findings 6 and 7). |
| `upload_lost_success` | `MCUploadJob_lost_success.cfg` | violation | `ReturnedSuccessIsDurable`: one failed status write and `run` still returns success (finding 8). |
| `etcd_watch` | `MCEtcdWatch_watch.cfg` | pass | Two subscribers, two mode writes and one workspace write after startup, one panic with its restart. `EndsOnLatest` and `ComponentsReachLatestMode` hold (360k states). The wait-group and workspace properties are not claimed: the writes-after-startup assumption removes exactly the windows they are about (findings 10 and 13). |
| `etcd_lost_mode` | `MCEtcdWatch_lost_mode.cfg` | violation | `EndsOnLatest`: a write between the initial read and the watch is lost (finding 9). |
| `etcd_double_watcher` | `MCEtcdWatch_double_watcher.cfg` | violation | `ModesNeverRegress`, under the `etcd_watch` configuration: two watchers deliver modes out of order (finding 11). |
| `etcd_restart_ack` | `MCEtcdWatch_restart_ack.cfg` | violation | `EveryModeAcknowledged`: a panic between a mode change and its `/status` write (finding 12). |
| `sheets_produce` | `MCGoogleSheets_produce.cfg` | pass | Two producer creations, three attempts per message, every request outcome and every map order. `AcknowledgedRowsPersist` holds: a 200 row stays, with its values in key order (1.1k states). |

The passing runs split eviction from offload because their combination breaks
the invariants through findings 1 and 2. Each passing run is still exposed to
every other hazard of its feature.

**Bounds.**
- A limit of 1 makes every second kind or shape evict.
- Two kinds and two shapes are the fewest that give both a "new model" and a
  "new version" on one model.
- `MaxCount = 2` lets a total be stored and then exceeded.
- The clock horizons cover at least two flushes and two sweeps after the first
  event. The offload run's horizon of 7 lets a model go idle, be offloaded,
  be reloaded and be flushed again.
- `MaxModels`, `MaxVersions` and `MaxLoads` bound the fresh uuids and the
  reload generations.

Upload bounds:
- `minRetryAttempts = 1` makes the second failure of a state abortable.
- Two stage faults allow that second failure.
- One DB fault and one crash are enough to separate the memory copy from the
  row.

Google Sheets bounds:
- Three messages: `m1` in the transformer's format (keys `"0"`, `"1"`, as
  the package test sends), `m2` numbered from 1 as the function's comment
  shows, and `m3` with a key past the end and a non-numeric key.
  `m2` always panics; `m3` panics or gets 400 depending on the map order.
- Two producer creations let a second header Update follow appended rows.
- Three attempts let a row applied under a deadline be retried twice.
- The run stops once attempts and producers are used up, as the router
  stops when no message is left, so it does not check deadlock.

Etcd bounds:
- Two subscribers and two writes are the fewest for a wait group shared by
  several components and for a mode handled while the next one is published.
- One workspace write exercises the workspace watch.
- One panic may hit any of the three panic points, before or after the
  writes.

**Fairness.**
- `EventSchema`: none. Its properties are safety properties, and the clock
  model already makes the timer-driven loops fire when they are due.
- `UploadJob`: weak fairness of `Start`, `LoopStep` and `WindowPasses`. `run`
  is a single goroutine that keeps running while it is enabled, and wall
  time always passes. `Crash` is not fair.
- `EtcdWatch`: weak fairness of every goroutine step. Each watcher, each
  subscriber, `GetEtcdClient` and the workspace watch is its own goroutine,
  and the event bus delivers. The writes and the panics are not fair: the
  environment may stop writing, and a process need not panic.
- `GoogleSheets`: none. Its properties are safety properties; whether the
  Sheets API ever answers is not the code's to decide.

### Findings

1. **Stub eviction corrupts a hot model** (`event_schema.go:375`).
   `oldestSeenModel` copies the stub's identity into the hot model pointer it
   is holding.
   The stub is also not removed from `offloadedEventModels` (`:319`), so it
   is still counted and the hot models exceed `eventModelLimit`. This is
   recorded as a hazard. `ModelLimitRespected` is checked by no run: the
   `offload` configuration with `EventModelLimit = 1` violates it.
2. (merged into 1)
3. **Evicted dirty models are resurrected** (`:532`). The flush deletes the
   tombstoned rows and then re-inserts every dirty model, evicted ones
   included.
4. **`toDeleteSchemaVersionIDs` is never cleared** (`:582`). This contradicts
   spec §4.7. It is visible in the model (`toDelV` only grows) and is listed
   as a hazard. No run checks it, because the set only grows and re-sends
   deletes of rows that are already gone.
5. **Offload ignores dirtiness** (`:601`). It is only safe while
   `offloadThresholdInS ≥ syncIntervalInS`. Nothing enforces that, and both
   settings are hot-reloadable. TLC showed it with threshold 1 and flush
   interval 3. It is now kept as a hazard rather than a run; the `offload`
   run checks the safe relation.
6. **Shadowed `err` in two cases** (`upload.go:237`, `:245`). A failure of
   schema generation or table-upload creation never reaches `setUploadError`,
   so it is retried forever.
7. **Stale attempt counts** (`upload.go:704`). `setUploadError` updates
   `job.upload` only when its UPDATE fails. Within one run the attempt count
   is read from a stale copy, stays at 1 and never passes
   `minRetryAttempts`, so the abort never happens.
8. **Success returned over a failed status write** (`upload.go:376`). `run`
   ignores `setUploadStatus`'s error and decides its result from
   `currState`.
9. **Mode lost at startup** (`etcd.go:193`, `:212`). The watch opens at the
   revision current when the goroutine runs, not at the one the initial read
   saw.
10. **Late subscriber** (`etcd.go:222`). The wait group is sized before
    publishing to whoever is subscribed then. This is kept as a hazard
    rather than a run: the `etcd_lost_mode` configuration, checking
    `WaitGroupNeverNegative` instead, drives the counter negative. The same
    interleaving lets `/status` be written before every copy was handled.
11. **Two watchers** (`etcd.go:139`, `:187`). `GetEtcdClient` and
    `WatchForMigration` each start a `MigrationWatch`.
12. **Acknowledgement lost across a restart** (`etcd.go:225`). Only a watch
    event leads to `/status = <mode>_completed`. Suppose the process panics
    after `/mode` changed and before that `Put` (the heartbeat timeout at
    `:158` is one way). The restarted process reads the new mode with
    `cli.Get` and its watch starts after that revision, so the mode is never
    acknowledged.
13. **Workspaces lost at startup** (`etcd.go:99`). The window of finding 9
    exists for `/workspaces` too: `GetWorkspaces` reads it and the watch
    opens later at the then-current revision. No run reports it.

## 4. Plan for the next sittings

In order of importance:

1. **EventSchema, more runs.**
   - A run with `DisableInMemoryCache = TRUE` and a store property "at most one
     row per key", covering the restart that creates duplicates.
   - Liveness: every dirty object is eventually stored. This needs the clock
     made cyclic, or `Tick` made weakly fair with an unbounded horizon under a
     view.
   - A run with two write keys, to show that limits are per key.
2. **`AbstractRegistry.tla`**, an abstract specification of what the registry
   promises: one model per key, and the stored state as a delayed copy of the
   live state. `EventSchema` is to be shown to refine it through `INSTANCE ...
   WITH`, in the configurations free of findings 1-3.
3. **`Pipeline.tla`**: the bounded `eventSchemaChannel`, `RecordEventSchema`'s
   non-blocking send, and workers each taking a batch and calling
   `handleEvent` per event. A batch's order is preserved; drops are counted.
4. **`ReservoirSampler.tla`** (spec-modelled: the sampler code is not under
   `src/`). It covers the bound and the resume semantics, and it composes with
   the reload loop's range over indices at `:685`.
5. **`FrequencyCounter.tla`** (spec-modelled): the Space-Saving algorithm as
   RECURSIVE operators, checked against a reference count. The counters are
   keyed by hash and are never freed on eviction.
6. **`SchemaHash.tla`**: field paths as character sequences, the
   `path:type,` serialisation, and the collision when a path contains `:` or
   `,`. It also covers `eventTypeIdentifier`'s `::` collision.
7. **`PreBackup.tla`**: `Do` reads the unsynchronised `sourceIds` twice. It
   checks emptiness with one value and deletes with another, so the two can
   disagree. A new run is needed; the run count is already at its limit.
8. **`GoogleSheets` findings.** The comment of `parseTransformedData` shows
   keys numbered from 1, which panics (`m2` reaches it in `sheets_produce`),
   while the package test numbers them from 0. Which numbering the
   transformer uses is decided outside the repository, so no property
   states either. A violation run needs a run slot.
9. **`UnionQuery.tla`**: `GetAllJobs`' budget arithmetic across the retry,
   waiting and unprocessed lists.

## 5. Not modelled

- `flatten`, JSON encoding, logging, metrics and SQL text are left out. They
  are abstracted to what they do to the registry's state.
- The first loads from the tables at startup are modelled only through
  `Restart`. Init is a fresh install with empty tables.
- `kafkaerror.go` is a table of constant strings; the producer that uses it
  is not in the repository. The tests and the mocks are not modelled.
- In `googlesheetsmanager.go`, the OAuth and service construction is one
  failure outcome, `getSheetsData` is a copy, and in the model a header Update
  replaces row 1 whole; the cells a longer old header leaves behind are not
  modelled.
  A retry after a deadline that the server applied appends the row twice;
  the API has no idempotent append, so this is listed as a hazard, not a
  property.
- In `upload.go`, the stage bodies, the parallel table loads, the identity
  merge and metrics are not modelled. Only their outcome is.
- In `etcd.go`, several things are left out:
  - `loadConfig`'s parsing;
  - the successful heartbeat, which changes nothing the properties read;
  - `cli.Close` at shutdown.
