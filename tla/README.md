# SIGINT-MAP: verification of the stateful parts

TLA+ models, TLC instances and TLAPS proofs for the programs in this repository.
The repository is a collection: a Rust/WASM progressive web app (DMB Almanac), a
Python aggregator with a React dashboard (GDL Flower Tracker), a Next.js tracker
(IranTracker) and a static dashboard (`src/app.js`). The models follow the code;
where a document or a test says otherwise, `PROJECT.json` lists it under `findings`.

Each of `DataImport.tla`, `StoreMigration.tla`, `PwaUpdate.tla`, `GpuWorker.tla`,
`JobLocks.tla`, `Catalogue.tla` and `Dashboard.tla` is a complete specification of one
component, with its properties at the end, and can be read alone; begin with
`JobLocks.tla` or `DataImport.tla`. `SerialJobs.tla` is what `JobLocks` promises,
`Cutover.tla` what `StoreMigration` does. `MC*.tla` and `*.cfg` instantiate them for
TLC; `*Proofs.tla` and `DataImportHonesty.tla` hold the theorems.

## Inventory

Paths under `src/projects/`. "Hard" names what an ordinary test does not reach.

| Component | State | Operations | Hard | Correct when |
|---|---|---|---|---|
| Offline importer, `dmb-almanac/rust/crates/dmb_app/src/data.rs` | IndexedDB seed stores; `sync_meta` records `data_import_v1` (marker) and `data_import_checkpoint_v1` | `ensure_seed_data`: migration, manifest, marker check, count check, repair, resume, chunked upsert (fixed or adaptive), completion, final verification | pages closed between any two requests, failed requests ignored, several pages, files answered from caches of different releases | "ready" means the stores are the release; a resume skips only what is stored; a broken store is repaired by later loads |
| IndexedDB layer, `dmb_idb/src/lib.rs` | object stores, schema version, previous database, migration marker | `bulk_put`, `clear_store`, counts, `migrate_previous_db`, the user's attended shows | cursors across awaits, two tabs that migrate, batches that clash with a unique index | no show of the user is lost by the migration; it ends where nothing blocks it |
| Import governor, `data.rs` 689-884 | chunk and transaction sizes, a score of recent writes | adapt after a chunk | rounding at the bounds | sizes stay in range |
| Service worker, `static/sw.js` | caches per version | install, activate, fetch, messages | a worker activated while the next one is being installed, assets that fail | what an install has stored stays with its worker |
| PWA status UI, `pwa_status.rs`, `browser/pwa.rs` | update notice, snooze | attach, check, later, apply, reload | events and messages in any order, several pages | an offer has a worker behind it; a release reaches the visitor |
| WebGPU bridge, `dmb_wasm/src/webgpu.rs`, `static/webgpu-worker.js` | worker handle, pending requests, the worker's matrix | score, init, warm, clear, time out | late answers, replaced workers | scores belong to the caller's matrix; every call ends |
| AI runtime, `dmb_app/src/ai.rs` | backend flags, cooldown, matrix signature | search, warm-up, benchmark, fall back | overlapping searches | a failed backend never blocks a search |
| Job locks, `GDL_Flower_Tracker/api_server.py` 889-1260 | tables `job_locks`, `job_runs`; coroutines | `cleanup_stale_jobs`, `try_begin_job`, heartbeat, `finish_job`, startup | several workers, dead workers, restarted containers whose pids return, expired locks, failing statements | jobs exclude each other; nothing stays locked or "running" |
| Refresh and scrape pipeline, `api_server.py`, `menu_scrapers.py` | tables `dispensaries`, `products`, `price_history` | refresh (replaces all listings), scrape, known prices, history | fuzzy matches between branches and twins, renamed stores, incomplete pages, failed sources | prices survive refreshes; a store's own menu wins; the history tells what is shown |
| Hot caches and read API, `api_server.py` | `TTLCache` per worker process | get, set, invalidate | invalidation racing a slow read, several workers | no answer older than TTL and two requests |
| Dashboard (GDL), `frontend/` | last answer, request in flight, visibility | ask, poll, hide, return | answers of different workers, lost requests | the page settles on the latest listings |
| Upstream proxy, `IranTracker/src/lib/upstream-proxy.js` | none between requests | try upstreams in turn | timeouts | one answer per request |
| Site server, data pipeline, xtask, core types, backup scripts, SIGINT-MAP dashboard | none, or files | pure computation and I/O | - | - |

Interaction: a page load of the Almanac migrates the previous database, then
imports, then verifies; the search and AI code read the stores; the AI runtime
talks to the GPU worker by messages; pages and service worker talk through the
registration's events and messages. In the GDL tracker cron, HTTP requests, the
scheduler and the bootstrap all call `try_begin_job`; a job changes the listings
in one transaction and invalidates its worker's caches; dashboards read through
the caches of whichever worker answers. The two programs share nothing.

The models follow these seams: `StoreMigration` has the import of `DataImport` as one
step, `Catalogue` and `Dashboard` have the mutual exclusion that `JobLocks` is about
as a premise (a job is one action, there is one `job`), and `Dashboard` abstracts
the listings of `Catalogue` to a version number.

## Modules

`DataImport.tla` models one profile's IndexedDB and any number of pages. A page is
a program counter plus the locals of `ensure_seed_data` (`man` manifest, `item`,
`chunk`, `pos`, `lim` the end of the chunk, `got` the release the file came from,
`clr` the store the repair is at). Each awaited request and the synchronous code
up to the next one is one action; `ok = FALSE` is the request failing. The fixed
and the adaptive import are one set of actions that differ by `tuned`. The row of
a store is the release that wrote it, which is all that the properties tell apart.
The manifest and each file are fetched through the service worker, which answers from
any cache that has the path: each may be of any release served so far (`Asked`). Which
rows a put may not have together is what the unique indexes of `schema.rs` say
(`Index`, `Clash`). `mixed` is a history variable no step reads: the releases of which
a file came from another release, or over which rows of another were written while a
record spoke for them (`Vouched`); an import that begins anew clears it of its release.

| Code | Model |
|---|---|
| `load_seed_manifest` | `ManifestArrives`, `ManifestFails` |
| `check_existing_manifest_integrity` | `ReadMarker`, `VerifyExisting` |
| `clear_seed_stores_for_repair` | `ClearStore` per store, `DropMarker`, `DropCheckpoint` |
| `load_resume_position`, `resolve_resume_record_offset` | `ReadCheckpoint`, `ResumeRow` |
| `import_single_work_item`, `..._adaptive` | `FileArrives`, `FileGone`, `FetchFails`, `EmptyFile`, `PutBatch`, `PutClashes`, `PutFails`, `EndChunk` |
| `persist_import_completion` | `PutMarker`, `PutCompleted` |
| `verify_import_integrity` | `CountsMatch`, `VerifyImport` |
| `sw.js`, fetch of `/data/` | `Asked` over the releases served so far |
| `action_reset_data`; a page closed; a release | `ResetData`; `Crash`; `Deploy` |

`StoreMigration.tla` models what precedes the import: one page's `migrate_previous_db`
(`tab`: program counter, the store it is at, the rows of the current batch, whether
a count was off) over the previous database (`prev`), the current one (`db`) and the
record `previous_migration_v1` (`marker`). `owed` is a history variable: the shows of
the previous database the user has neither removed nor reset away.

| Code | Model |
|---|---|
| `previous_db_exists`, `migration_marker_exists` | `FindPrevious`, `ReadMarker` |
| opening the previous database; a store of it | `OpenPrevious`; `Advance` |
| `copy_store`, `write_batch` | `ReadRows`, `WriteRows`, `WriteClashes` |
| `count_store_in_db` | `CountRows`, `CountFails` |
| `write_migration_marker`, the deletion | `WriteMarker`, `DeletePrevious` |
| the rest of `ensure_seed_data` | `Import`, `ImportClashes` |
| attended shows; `action_reset_data` | `AddShow`, `RemoveShow`; `Reset` |
| a failed request; a page closed | `Fail`; `Crash` |

`Cutover.tla` is the abstract specification of that move, for the attended shows
alone: shows are copied in portions, the previous application's are dropped in one
step when everything the user still wants of them is copied, and only the user's hand
takes a copied show away. `StoreMigration` implements it under the mapping `old <-`
the shows in `prev`, `copied <- CopiedShows` (the current store's shows under migrated
keys), `saved <- SavedShows` (the one under the app's own key) and its history
variable `owed`.

`PwaUpdate.tla` models the browser's registration (`reg`: installing, waiting and active
worker), what is left of each release's precache (none, a part, all of it), the snooze
record and, for each page, the signals of the notice and the events under way to it
(`inbox`). An install may store a part only, because `precache` puts up with assets that
fail (`Filled`).

| Code | Model |
|---|---|
| `sw.js` install, activate, `SKIP_WAITING` | `UpdateFound`, `Installed`, `InstallFails`, `Activate` |
| `process_sw_registration` | `Attach` |
| `action_update_check`, `..._later`, `..._click` | `AskUpdate`, `UpdateAnswered`; `Later`; `Apply`, `ApplyFails`, `Reload` |
| `attach_updatefound_listener` | `HearFound` |
| `attach_installing_state_listener` | `HearInstalled`, `HearRedundant` |
| `attach_sw_message_listener` | `HearActivated` |
| `action_reset_data`, `delete_all_caches` | `Reset` |
| a release; a page loaded or closed | `Release`; `Load`, `Close` |

`GpuWorker.tla` models the scoring calls of the page (`call`: one future each), the
worker runtime with the queues to and from its worker (`rt`), the matrix signature
of `ai.rs` (`sig`) and the failure cooldown (`cool`). One action is one task of the
page or of the worker with the continuations it resumes. Clearing the runtime
rejects several promises at once; their continuations are `Resume` steps that run
in any order before the next task.

| Code | Model |
|---|---|
| `webgpu_scores_with_policy`, `..._subset_...` | `BeginSearch`, `BeginUnsent` |
| `warm_webgpu_worker`, `benchmark_worker_threshold` | `BeginBackground` |
| `run_worker_request` | `Post`, `Timeout`, `Resume`, `QueryUnsent` |
| `webgpu_scores_worker_loaded_with_init` | `Request`, `InitAnswered` |
| `webgpu_scores_worker_with_rust_init_state` | `ScoresAnswered`, `NothingAnswered`, `Lost` |
| `mark_worker_runtime_failure`; `set_webgpu_disabled` | `GiveUp`; `Disable` |
| `webgpu-worker.js` | `WorkerTakes`, `WorkerScores` |

`JobLocks.tla` models the tables `job_locks` and `job_runs`, the coroutine of each
run (`task`) and each worker's position in `cleanup_stale_jobs` and `try_begin_job`
(`proc`). One action is one SQLite statement or transaction. Those two functions
never await, so the jobs of a process that is inside them do not move; other
processes do. `StartWorker` and the startup cleanup are `lifespan`; `ScanLocks`,
`ScanRuns`, `ScanActive`, `Repair` are the cleanup's three SELECTs and its
transaction; `Refuse` and `Acquire` are `BEGIN IMMEDIATE` in `try_begin_job`;
`Heartbeat` is `touch_job_locks` after its sleep; `Finish` is `finish_job`. `Faults`
says which faults an instance has: a process dies, or a database error hits the
beginning, the heartbeat or the end of a job. The tables name an owner by host and
pid, so they cannot tell a process from an earlier one of the same container that had
its pid (`SameOwner`): a dead owner is taken for alive while another has its pid
(`Alive`).

`SerialJobs.tla` is the abstract specification of the two tables: at most one run is
open, it is opened with its job, closed with it or after it is lost. `JobLocks`
implements it under the mapping `open <- OpenRuns`, `work <- AtWorkRuns`, the runs
whose row says running and those whose coroutine works.

`Catalogue.tla` models what the jobs do to the tables: `Refresh` is `refresh_data`
from the page it has parsed to the end of its transaction, `Scrape` is `scrape_menus`
with the menus it has fetched. `Snapshot`, `Merged`, `Suspicious`, `Menu`, `Reaches`
and `Recorded` are the functions those two are built from. Names and addresses are
compared fuzzily: `NameScore` and `AddressScore` are constants of which only what the
code's scores ensure is assumed (`CatalogueAssumption`): nothing is more like a name
or a store than itself. As like to it may be others, as the (REC) and the (MED)
listing of one address, whose suffixes the comparison drops: then the first one wins
(`Best`). A store that is renamed is another one at the same address.

`Dashboard.tla` models the hot cache of each worker, its request threads, the job that has
the locks and one page.

| Code | Model |
|---|---|
| `TTLCache.get`, the SELECTs, `TTLCache.set` | `Ask`; `ReadData`, `ReadStatus`; `Store` |
| `run_locked_job` | `Begin`, `Commit`, `JobFails`, `Finish`, with `Invalidate` after each |
| a worker dies; its locks are cleaned up | `Kill`; `Reap` |
| `dashboardQuery`: interval, answer, retry | `Poll`, `Answer`, `RequestFails` |
| `handleVisibility`, `handleOnline`, `onSuccess` | `Return`, `ReturnAgain`, `Hide` |
| other visitors; the clock | `Visit`; `Tick` |

Definitions whose comment begins with "Fault:" are no part of a specification.
They are the plausible bugs `PROJECT.json` names under `mutants`: put in place of
the definition they follow, each makes TLC report the property violated.

## Runs

| Run | Instance | Question |
|---|---|---|
| `import` | 1 page, 2 releases answered by any cache, a clash of slugs, all faults, with fairness; 629,304 states | is "ready" honest of a release that was not mixed with another; do checkpoint and marker promise only what is stored; once faults stop, does a later load repair whatever they left (`HonestReady`, `CheckpointCovers`, `MarkerCovers`, `Heals`) |
| `import_tabs_repair` (violation) | 2 pages, no fault | can a page be ready over missing rows: yes, while another repairs (`ReadyHasRows`) |
| `migration` | 2 pages, failures, clashes and closed pages, with fairness; 80,613 states | is a show of the user ever in neither database; does a marker mean that the shows are copied; what can keep the migration from ending; is all of it one cutover (`OldShowsKept`, `MarkerMeansCopied`, `LargeStoresStay`, `OnlyBlocksRemain`, `ImplementsCutover`) |
| `pwa` | 2 pages, 3 releases, installs and assets that fail, resets, with fairness; 769,833 states | is there a worker behind every offer and an end of every check; who takes a worker's precache away; does a release reach the visitor (`OfferBacked`, `CheckBacked`, `PrecacheKept`, `UpdateReaches`) |
| `gpu_calls` | 2 calls over 2 searched matrices and a benchmark, all failures, with fairness | does a query ever meet a worker without matrix, is a call left behind by a cleared runtime, is one ever set back, does every call end (`NeverCold`, `WaitsForThisWorker`, `CallsAdvance`, `EveryCallEnds`) |
| `gpu_after_benchmark` (violation) | 1 call, no failure needed | a search after a benchmark gets the benchmark's scores (`ScoresMatch`) |
| `jobs_single` | 4 workers one after the other on 2 hosts, two of them with one pid; deaths, errors at begin and end; 59,016 states | exclusion, locks, restart, and the refinement (`MutualExclusion`, `LocksHeld`, `RestartFrees`, `ImplementsSerialJobs`) |
| `jobs_workers` | 3 workers side by side on one host that do not die, errors at the beginning of a job; about 573,000 states | do cleanups and acquisitions of different workers, interleaved statement by statement, leave jobs exclusive and the tables serial (`MutualExclusion`, `LocksHeld`, `ImplementsSerialJobs`) |
| `jobs_recovery` | one job asked for again and again by workers that die, failing `finish_job` and failing heartbeats, one with its predecessor's pid, with fairness; 16,169 states | is every abandoned row closed (`AbandonedClosed`) |
| `jobs_workers_race` (violation) | 3 workers side by side, one may die | two cleanups see the same dead locks: two jobs run at once |
| `catalogue` | 3 stores, two under one name, two at one address, every page and every pair of offers; 8,564 states | do prices survive a refresh and a new name, does a store's own menu win over its siblings', does the history tell what is shown (`RefreshKeepsPrices`, `OwnMenuWins`, `HistoryIsCurrent`) |
| `dashboard` | 2 workers with a thread each, a job that may fail or lose its worker, lost requests, with fairness; 307,128 states | how old is an answer, what outlives an invalidation, does polling end, does the page settle (`AnswersFresh`, `StaleOnlyByRace`, `PollingEnds`, `SettlesFresh`) |

Every run but the violations also checks, or shares its model with one that checks,
the module's `TypeOK`.

Bounds. The import instance has two releases of two and three files in two stores with
four keys. Release 2 drops a row and adds one, so an upsert over release 1 leaves rows
too many, and gives the new row the slug of the dropped one, so that upsert is refused
unless that row was never stored; release 2 has an empty file and lacks a file of
release 1; one file has more chunks than fit between two checkpoints and one has
chunks of several transactions; chunk sizes 1 and 2 are those of a small and a large
file. The order of the work items, the partial repair (one store cleared, one not) and
each resume offset occur. The migration instance has batches of three rows and
previous databases with one or two shows and with songs of two rows (one of which the
release lacks, or has under another number) or of a full batch, so the copy that
succeeds, the count that differs, the clashes with a show saved meanwhile and with a
seeded song, the import that clashes with a migrated song and the cursor that dies
after a full batch all occur. Two pages are enough for one to delete what the other
has open. The pwa instance has three releases, the least for a worker to be installed
while another waits and a third is active, and two pages, one of which applies what
the other still offers. The single worker instance has a process, one of the restarted
container with its pid, one there with the next pid and one on another host, in any
order. The job instances have two jobs, two rows at a time and TTL 4 with a heartbeat
interval of 1 and a delay of at most 1, so a heartbeat can be late and a lock can
expire. `Run` bounds the rows that matter at a time: the ids of the table grow for
ever, the model uses an id again when no running row, coroutine or cleanup refers to
it. The recovery run has one job: with two of them and all three faults, both rows can
be left open at once under locks nobody asks for again, no id is free for the next
job, and the bound, not the code, would keep them open. Three workers are enough for a
dead owner and two cleanups that both see it. Two GPU calls are enough for one to
clear the runtime of the other; a third would only repeat that. The catalogue instance
has three stores (two branches of one name; a twin of the first at its address whose
name no score tells from theirs), a sibling's name that only menus have, two strains
of one kind, prices 1 and 2, known prices for some listings, and up to two offers at a
time, so that siblings, a fallback match and two offers for one listing occur; the
shrink thresholds are scaled so that pages are refused for stores and for products.
The dashboard instance has one commit, TTL 1 and requests of at most one tick: entries
from before the job in both caches, a request that overtakes the invalidation and a
worker that dies with the locks all occur.

Fairness. `LiveSpec` of `DataImport` has weak fairness of a page's own requests (the
event loop runs the continuation of an answered request) and of loading the page again
(users come back); nothing is assumed of failures, which `Heals` supposes to stop.
`Heals` also supposes that the caches catch up with the server, which they do behind
every answer (`CalmNext`). `LiveSpec` of `StoreMigration` has the same for `Load`,
`Migrate` and the import; `OnlyBlocksRemain` supposes that failures and edits stop.
`LiveSpec` of `PwaUpdate` has strong fairness of `UpdateFound` (the browser looks for
`sw.js` whenever pages are loaded) and weak fairness of the end of an install, of
activation and of the snooze; that visitors come back, stay until the page is
hydrated, leave, and some time apply an offer, and that installs do not fail for ever,
is assumed in `UpdateReaches` itself. `LiveSpec` of `GpuWorker` has weak fairness of
timers and of rejected continuations and strong fairness of the direct kernel's
answer, a task that waits for the microtask queue to drain; nothing is assumed of the
worker, which may hang for ever. `LiveSpec` of `JobLocks` has weak fairness of worker
replacement (gunicorn), of the steps of a call and of new jobs (cron and the
scheduler), and strong fairness of heartbeats, of a job's end (each of its requests
has a timeout) and of `Tick`: none of them is enabled while the process is inside a
call, and the event loop, which serves callbacks in the order they became ready, gets
to them between two calls. `LiveSpec` of `Dashboard` has weak fairness of threads and
of the job, strong fairness of the clock and of the poll (a thread is free again and
again); `SettlesFresh` supposes that jobs and failures stop and that the user comes
back, because an answer may show listings from before a job and no running job, and
then polling stops.

## Proofs

For every value of the constants that the named assumptions allow. Each `*Proofs`
module proves `TypeCorrect` for its component, and:

- `DataImportHonesty`: `ReadyIsHonest`, `CheckpointsCover` and `MarkersCover`,
  assuming one page (`OnePage`), whatever releases the caches answer with. A store
  holds rows of the release only (`Pure`) or has every row the import has passed
  (`Skipped`): if it is `Founded` in this way to the end, then, sets being finite, an
  equal count is equality (`CountingDecides`). The inductive invariant says of a
  release that is not mixed that at each point of the control every store is founded
  up to the position the import has reached, and up to the one the checkpoint leads to
  (`Progress`, `Covered`). Of a mixed release nothing is claimed: equal counts over
  the rows of two releases do make the page ready. Several pages need none of that
  while one release is served (`OneRelease`): all write the same rows, so every store
  is `Pure` and counting is exact at the moment it is done (`PagesCountHonestly`).
  What several pages do lose is that it stays so: `PagesUndoByRepair` says that only a
  repair or a reset undoes it, which is the counterexample of `import_tabs_repair`.
  `DataImportProofs` has the types, for which a page's `item` and `pos` must be inside
  its release's work list and file.
- `StoreMigrationProofs`: `ShowsAreKept` and `MarkersMeanCopies`, for any number of pages,
  any faults and any previous databases. Neither is inductive. `ShowsInv` adds that
  the previous store still has every owed show while it exists, and that it is gone
  or a marker is written only when every owed show is in the current database under
  a key other than the app's own (`Copied`); and, page by page (`Sound`), that who
  is past the attended shows has copied them. That a deletion waits for open handles
  is needed: without it a page would count an emptied store. From `ShowsInv` follows
  `MigrationIsCutover`, the refinement: a batch is a `Copy`, the deletion the one
  `Drop`, which finds everything owed copied, and every other step of a page
  (cursors, counts, markers, failures, closing) a stutter. `LargeStoresAreLeft`: with
  a previous store of a batch of rows or more no page gets past that store, so no
  marker is ever written and the database is never deleted.
- `PwaUpdateProofs`: `OffersAreBacked`, `ChecksAreBacked` and `PrecacheIsKept` for any
  number of pages and releases, whatever assets and installs fail. `AllBacked` relates
  the signals of a page to the registration and to its inbox. `Queue` orders the
  releases of the three workers, from which follow that no later install or activation
  touches the caches of a worker that stays waiting or active, `OldCachesGo` (no cache
  of a release older than the active one) and `ActiveAdvances` (no offer, however
  late, leads back).
- `GpuWorkerProofs`: `QueriesMeetMatrix` and `WaitsAreLive` for any number of
  overlapping calls: a runtime that is ready, or whose worker has begun to answer,
  holds a matrix, queries are queued only for a ready one (`Supplied`), and whoever
  waits, waits for the runtime there is (`Served`). `CallsOnlyAdvance`: every step of
  a call, also one by which another call clears the runtime under it, lowers its
  `Distance` to the end, which is at most eight: the well-founded part of
  `EveryCallEnds`, whose other part, that each stage is left, is fairness.
- `JobLocksProofs`, in four parts. `RestartIsFree` assumes one worker at a time
  (`OneWorker`): while a worker runs its startup cleanup nothing else changes the
  tables, so what the three SELECTs read is still true when the transaction acts on
  it (`RestartInv`): what is left bears the host name and pid of a process that is up,
  however pids are given out. In a restarted container that may be the pid of a dead
  owner, whose lock then lasts until it expires. `JobsExclude` and `LocksAreHeld` also
  assume heartbeats that do not fail (`TouchWorks`) and `Interval + Late < TTL`
  (`HeartbeatInTime`): `ExclusionInv` adds to the locks of a working job that
  `left + idle` covers the TTL, and to a worker in its cleanup that no row or lock
  it has marked belongs to a working job. `LocksAreSerial`, under the same
  assumptions, is the refinement: `JobLocks` implements `SerialJobs`. `SerialInv` adds
  that at most one row is open (`Single`), that its job and the pipeline are locked
  by the same process (`Paired`) and that outside of `try_begin_job` and the cleanup
  an open row's job works or is gone (`Settled`). `WorkersExclude`, `WorkersKeepLocks`
  and `WorkersAreSerial` are the same three for any number of workers side by side,
  assuming instead one host (`OneHostOnly`), that only `try_begin_job` itself fails
  (`NothingLost`: no worker dies, no heartbeat or end of a job fails) and
  `HeartbeatInTime`. `BesideInv` then says that every lock and every running row
  belongs to a job at work and that no cleanup is about to delete or close such
  (`Claimed`, `Truthful`, `Harmless`), whatever it has read. The assumption is where
  the code's guarantee ends: with one dead worker two cleanups see its locks and
  the second deletes its successor's (`jobs_workers_race`).
- `CatalogueProofs`: `HistoryStaysCurrent`, `RefreshesKeepPrices` and `OwnMenusWin`
  for any stores, menus and scores under `CatalogueAssumption`: nothing is more like a
  store or a name than itself. So the fuzzy match of a store on the page ends at one
  of its `Forebears`, the listed stores that are as like to it as it is itself, under
  whatever name (`SnapshotIsForebear`), and at its own menu before a sibling's
  (`MenuIsOwn`); where there is just one such, prices survive. The history needs no
  more than the types: what `Recorded` writes for a store alone under its name is the
  new price (`RecordedOfOne`). `ScrapesSettle` and `RefreshesSettle`: a job that is
  repeated with what it has just stored changes no price. The first assumes that the
  offers that reach a listing name one price (`Agreed`), the second that the page has
  no twin of the store; TLC refutes them without.
- `DashboardProofs`: `AnswersAreFresh` and `StaleByRaceAlone` for any number of workers,
  threads, ticks to live and slowness. `CacheInv` bounds how long ago the version a
  thread or an entry holds was replaced, by the age of the request and the time
  the entry has left (`ReadInTime`, `KeptInTime`), and says that a thread or an entry
  of the job's worker that is behind after the commit was overtaken (`ReadRaced`,
  `KeptRaced`). `OneWorkerInvalidates` assumes one worker (`OneWorker`), what
  `gunicorn_conf.py` starts on up to three processors, and drops the restriction to
  the moment after a job: whenever no job stands between its transaction and its
  invalidation, only a request that raced with a transaction is behind. With two
  workers TLC refutes it, since a job clears its own worker's cache only.

The hypotheses are needed: two pages (`import_tabs_repair`), a worker that dies beside
others (`jobs_workers_race`), a failing heartbeat and two workers of the tracker refute
the conclusions that exclude them.

Model-checked only: what needs fairness (`Heals`, `OnlyBlocksRemain`, `UpdateReaches`,
`EveryCallEnds`, `AbandonedClosed`, `PollingEnds`, `SettlesFresh`), which the proof
system does not reach. Every safety invariant, action property and refinement of a
passing run is proved.

## Assumptions of the models

- `DataImport`: manifest and files come from releases served so far, any of them at any
  time; the rows of one release do not clash (`IndexAssumption`); keys of a store are
  distinct over the files of a release, so the manifest's count is the number of
  keys; the manifest carries counts; the counts of one verification are read at
  once; import tuning is chosen once.
- `StoreMigration`: a cursor over the previous store is one transaction for as long as
  only its own requests are awaited, as IndexedDB says, so a store with fewer rows
  than a batch is read in one step and after a full batch the cursor is dead; the
  previous application numbered its rows from one and had the same unique indexes.
- `PwaUpdate`: the browser works as the service worker standard says: one installing,
  one waiting and one active worker, events of a registration in order, messages of
  workers in any order between them. Releases are numbered as they are deployed;
  none is taken back.
- `GpuWorker`: size limits and thresholds of the preflight only choose between worker
  and direct scoring before anything is sent, so matrices stand for those that
  pass; a pending request's id is not reused; a disabled search may still begin,
  because it read its capabilities before; messages sent before a worker is
  terminated have no effect after it, since nothing is pending any more.
- `JobLocks`: at any time one process at most has a host name and pid, which a later
  one may have again; a tick is longer than a call; a call's statements are the atomic
  steps, as SQLite serialises writers.
- `Catalogue`, `Dashboard`: jobs exclude each other. A job awaits nothing between its
  first access to the tables and its transaction, so one that dies has done nothing.

## Observations

What the models show of the code beyond the listed findings; no property states them.

- A database error in one heartbeat ends the heartbeats of that job: its locks expire
  under it (`touch_job_locks`; the README of the tracker promises overlap-free jobs).
- With two workers, none of which dies, a job that ends between the two SELECTs of the
  other's cleanup has its row rewritten as failed, whatever its outcome: its lock is
  gone by the second (`api_server.py` 1009-1060, whose docstring at 994 speaks of
  abandoned rows). `ImplementsSerialJobs` is about which rows are open, not about this.
- A container that restarts gives its pids out again, and a dead owner looks alive:
  its lock waits for its TTL, where the tracker's README (line 46) promises a startup
  recovery (`RestartFrees` says that nothing else waits).
- An import whose manifest and files came from caches of different releases can end at
  "Offline data ready", since counts are all that is compared (`mixed` in
  `HonestReady`). It stays so until the marker's release is no longer the manifest's.
- A release that gives the slug or songId of a stored row to another id cannot be
  imported over it: the batch aborts at every load, before the verification that
  would repair, until the user resets (the exception in `Heals`).
- Of the (REC) and the (MED) listing of one address the second inherits the first's
  prices at every refresh and loses its own, where the tracker's README (line 31)
  promises that refreshes do not wipe prices (`Forebears` in `RefreshKeepsPrices`).
- A branch whose own sources fail takes a sibling's menu, because the names of
  branches score nearly as high for one another as for themselves. A branch that is
  listed for the first time inherits a sibling's prices. Stores that share a name
  share one history. A genuine shrink of the page is refused for ever.
- Offers that reach one listing at two prices make every repeated scrape take them in
  turn: the price flips, and each flip is recorded in its history.
- An offer without a listing of its strain changes the price of the only listing of
  its size and type; a test of that function is called
  `updates_only_exact_matching_strain`.
- `add_user_attended_show` puts every show under key 0, so the second show saved replaces
  the first. `OldShowsKept` is about migrated shows for that reason.
- A previous store of 500 rows or more stops the migration on every load: the cursor
  does not outlive the await of the batch (`LargeStoresStay`). rust/README.md:60
  expects that "first-run migration completes and counts match", which then never
  happens. A row that a unique index refuses, such as a show the user saved again
  before it was copied, stops it, too (`Blocked` in `OnlyBlocksRemain`).
- A waiting worker that is activated while the next one is being installed deletes
  what the next one has stored, and an install that lacks assets ends as if it had
  them: a worker may become active without its precache. `PrecacheKept` is about what
  a finished install has.
- A failed install leaves the update button disabled until the page is loaded again,
  and Later hides the offer in an open page after the snooze has ended.

## Not modelled

The models cover a few percent of the repository's lines: its stateful core. Of the
rest,

- more than half are Rust files that no `mod` declaration reaches and that are not
  compiled: copies of a split of compiled files, such as `pages_*.rs`, `ai_*.rs`,
  `data_*.rs`, `pwa_status_*.rs` and `server_*.rs` in `dmb_app`, and others like them
  in `dmb_idb`, `dmb_wasm`, `dmb_server`, `dmb_pipeline` and `xtask`. They have no
  behaviour to be faithful to;
- `pages.rs`, the components and the front ends render state; `dmb_pipeline` and
  `menu_scrapers.py` fetch and parse; `dmb_core` ranks and aggregates; `dmb_server`
  answers from a read-only database. They keep no state that several steps or actors
  share, and a model of them would be a transliteration;
- the upstream proxy, the backup scripts, `src/app.js` and IranTracker's legacy
  scripts are I/O of one request or one command at a time.

Left out of modelled components: the governor's arithmetic (`DataImport` lets it
choose any size), parity export and tuning records; opening retries and versionchange
of the IndexedDB layer; the fetch strategies of the service worker, of which
`DataImport` has only what they may answer for data files, unregistration and cache
cleanup; the AI runtime's thresholds and index cache; the parsers of the GDL pipeline,
coordinates, links and THC; saved views and the static page of the dashboard. Hazards
without a property say in `PROJECT.json` why.
