# Verification of RDS Binlog Insight

RDS Binlog Insight collects the binlogs of Alibaba Cloud RDS instances before the
source deletes them, keeps the originals in an object store (OSS), indexes them, and
answers queries about them.  The specifications in this directory are translated from
the Python code under `src/app/`; every definition names in `PROJECT.json` ("map") the
lines it stands for.

Contents

1. [Inventory](#1-inventory) 2. [Modules and how they correspond to the
code](#2-modules-and-how-they-correspond-to-the-code) 3. [Runs and
bounds](#3-runs-and-bounds) 4. [Fairness and timing
assumptions](#4-fairness-and-timing-assumptions) 5. [Theorems](#5-theorems) 6. [What the
checks found](#6-what-the-checks-found) 7. [What is not modelled, and the
plan](#7-what-is-not-modelled-and-the-plan)

Checking: `tlc -workers 2 -config one_file.cfg MCRawCollector` (any row of section 3),
`tlapm RawCollectorProofs.tla` (any module of section 5).

## 1. Inventory

The service is one Python process (`launcher.py` -> `server.py`) under a small
supervisor process, plus worker processes that share its SQLite catalog.  Inside the
service process: the HTTP threads, the *scheduler* thread, the *job* thread with two
executors (downloads and archives), the *discovery* threads of a job, the *watchdog*
thread, the query-task executor, the cold compression thread and the loops of the other
collectors.  Processes of their own: the index workers, the slow-log index worker and
the ClickHouse ingest worker.

| component | state | operations | hard behaviour | what makes it correct |
|---|---|---|---|---|
| Raw collection (`pipeline.py`, `downloader.py`, `raw_binlog.py`) | lanes, queue of entries, backoff, failure counter, download directory, verified objects, `raw_binlog_archives` | rounds of admission, download (resume, verify, refresh of the link), archive, finish, failure handling, stop, sweeps | lanes, sweeps and listings write the same rows; every write may be the last one before a crash; links expire; the source deletes | an original is unlinked only when its archive is complete; nothing collected is reopened; every file is secured or settled |
| Discovery (`sync_discovery.py`, `rds_api.py`) | retained scan, live listings, host plan, primary | register listed identities, choose what is pending, settle covered files, read the primary and the plan again | pages shift while files are uploaded and expire; the primary moves between a decision and its commit | one copy of each change and no hole; what the source keeps listing is collected; "caught up" is true |
| Catalog (`metadata.py`) | SQLite tables: files, parts, jobs, tasks, changes, retired objects | one statement or transaction per operation | decisions made on rows read earlier | only the states named in the WHERE clause move |
| Sync control (`pipeline.py`, `sync_lifecycle.py`, `sync_watchdog.py`, `server.py`, `service_supervisor.py`) | pause file, pause and abort events, worker, scheduler round, autoSync | start, pause, expire, abort, exit, restart | four threads and a restart change it; threads may be stuck in native calls | a pause holds until its end and takes effect; collection comes back by itself |
| Query tasks (`query_tasks.py`) | rows, executor, control objects, result files | submit, cancel, run, publish, prune, shutdown, reconcile | cancel is recorded, then signalled; row and file are separate writes | a published result is readable; a finished task stays finished; each task ends |
| Legacy pipeline (`pipeline.py` `_process_one`, `storage.py`) | parsed parts, bodies, version markers, body locks | parse, publish, upload, mark, finalize, delete the original; migrate parts that are only local | body, marker, row and object are four writes; an attempt may leave parts of another attempt | the events of a finished file are on the disk or in the store until they expire |
| Part encodings and retention (`pipeline.py`, `metadata.py`, `storage.py`) | object references, retired objects, the sweep's snapshot | re-encode, switch the reference, delete the old object; release; expire and rewrite | check and delete are apart; the sweep acts on rows read earlier; a re-encoding commits what it copied before a rewrite | no row points to a deleted object |
| ClickHouse serving (`clickhouse_ingest.py`, `clickhouse_manifest.py`, `clickhouse_query.py`, `clickhouse_change_queue.py`) | change queue (catalog), manifest (a second SQLite database), ClickHouse tables | reconcile, acknowledge, claim, load, delete, the two gates of a query | two databases cannot commit together; ClickHouse holds every row in two tables and deletes from each asynchronously | an open gate means exact rows; every change comes to rest |
| Slow-log collector (`slow_log_collector.py`) | watermark file, known ids, window sizes | poll a window page by page, store a batch, advance the watermark, adapt the windows | records appear late and between two pages; polls are cut, fail, are shut down | no record shown in time is passed; replay is idempotent |
| Slow-log serving index (`slowlog_index.py`, `storage.py`) | queue, rows, canonical flags, counters, sweep position | queue, build, elect, sweep, repair, remove | another database than the catalog; builds wait for locks that retention holds | one answer per statement, exact counters, nothing built for a removed part, nothing forgotten |
| Row serving (`binlog_rows*.py`) | lane buffers, in-flight directory, manifest | load, count, move, record, recover | crash between move and record | a file is counted as covered exactly when its rows are there, once |
| Index workers (`index_supervisor.py`, `index_worker.py`, `raw_index_worker.py`, `raw_event_index.py`) | child process, status file, index databases | start, watch, kill, quarantine | the child is killed without progress | the same part does not block the queue |
| Raw queries, slow-log analysis, general log, sessions, MongoDB insight, SQL tools, web interface, Go parser, deployment | read-only views or products of their own | | | |

Interaction.  The scheduler starts jobs and runs the sweeps; HTTP handlers start and
pause jobs; the job thread feeds the executors; lanes, discovery and sweeps meet in
`binlog_files`; the lanes of the Parquet mode, the migration, the cold compression
thread, the index workers and the retention sweep meet in `parquet_parts`, the bodies
and the object store; triggers of the catalog hand its changes to the ingest worker;
the watchdog reads progress and may request an abort or end the process; the supervisor
starts it again.  The state shared between components is the catalog, the download and
part directories, the object store and the pause file.

## 2. Modules and how they correspond to the code

```
BinlogCatalog <- RawCollector <- MCRawCollector
                      |  \------ RawCollectorProofs
                      | (INSTANCE, refinement)
                 BinlogLedger
SyncControl      <- MCSyncControl, SyncControlProofs
QueryTasks       <- MCQueryTasks, QueryTasksProofs
PartBodies       <- MCPartBodies, PartBodiesProofs
ServingManifest  <- MCServingManifest, ServingManifestProofs
SlowLogCollector <- MCSlowLogCollector, SlowLogCollectorProofs
SlowLogIndex     <- MCSlowLogIndex, SlowLogIndexProofs
SourceTimeline   <- MCSourceTimeline, SourceTimelineProofs
```

**BinlogCatalog**: the rows of `binlog_files` reduced to their `state`, and the five
statements of `MetadataStore` that change it.  An operator is one SQLite transaction;
the difference between `set_file_state` (any row) and `mark_files_state` (only rows in
given states) is kept, as is the one between `upsert_remotes` (revives an unavailable
row) and `upsert_remote` (does not).

**RawCollector**: raw archive mode.  `pc[f]` is the program counter of the lane of
file `f`: *fetch, connect, stream, refresh, again, streamAgain, fetched, ready* in the
download executor, *parse, archive, index, row, mark, verify, unlink, finish* in the
archive executor.  A step is one durable write or one decision taken on a read, so a
crash or another thread may come between any two.  `job` is the place of the job
thread in `_run` / `_consume_pending` / `_run_pending_raw`.  Bytes are abstracted:
`local` is none, part or full (verified), `oss` is the set of verified objects; a fault
of network, disk or object store is an exception of the class the code distinguishes
(`Codes`).  The settlement sweep is three steps (read candidates, look at the
directory, update), the download sweep two.  Age is 0, 1 (past the source's retention)
or 2 (past retention plus the day that the scan floor allows).  `role` is the answer of
`HostPlan` for the file; how the plan is computed is the subject of SourceTimeline.
`Successor` lets the source replace the identity of a file.

**BinlogLedger**: what collection promises, per file: unknown, open, collected,
replaced, missing, skipped, plus what is durable and what has expired.  RawCollector
implements it under the mapping `Entry` (`ImplementsLedger`).

**SourceTimeline**: which of the nodes' files are taken.  The source closes, uploads and
expires files and moves the primary; the scanning thread reads pages of an offset
listing, decides with the plan in force, and commits (`Taken` states the result of the
loop over a page: a file is taken exactly when the plan with the files taken before it
accepts it); the job thread lists
the frontier, settles covered files and ends; `RefreshPrimary` and `Reload` replace the
plan at any time in between.  Time is whole numbers and `COVER_TOLERANCE` is zero:
covered means that every moment is held by the files of one host.  The slices of a
retained pass are one listing; the late window and the hole listings, which list no
file that a pass does not, an unknown primary, and a listing that contradicts itself
are left out.  Collected files never change their row again, so *done* is no state here.

**SyncControl**: everything that decides whether a job runs: pause file (`mode`,
`due`), events (`flag`, `abort`), worker, the rounds of the scheduler with what a round
has read before it takes the lock (`sched`), the watchdog with what it has decided and
not yet done (`dog`), the process (`up`), where "boot" is the time between the start of
the scheduler in the constructor and `reconcile_interrupted_jobs`.  The job is seen
from outside: working, stalled (makes no progress but is alive), hung (in a native call
for good), ending.  The last moments of an orderly stop count as the end of the process:
`SyncManager.shutdown` (`pipeline.py:817`) sets the pause event without a pause file, so
that the threads it joins stop, and a new process begins with what the file says.

**QueryTasks**: rows, executor threads, control objects, result files, the two halves of a
cancel (`RequestCancel` in the row, `SignalCancel` to the thread), pruning by the
thread that ends (`PruneRows`, `UnlinkPruned`), shutdown, crash and restart.

**PartBodies**: the parts of one file in Parquet mode.  A body is a generation (the
parse attempt its events come from) and a form: *raw* as ingested, *cold* as re-encoded,
*kept* as rewritten by retention at one of the cutoffs `Cuts`.  A row has two digests:
`sha` is `sha256`, which every writer sets; `object` is `object_sha256`, which ingest and
re-encoding set and `update_part` leaves alone; beside them the object key, whether the
level is that of the re-encoding (`level9`) and the cutoff at which its row count and
time range begin (`cut`).  Body, version marker, row, object and body lock are separate,
and are written in the order and under the locks of the code; where the code holds no
lock (the marking of uploads, the retention rewrite) the model has none.  Five actors:
the file's lane, two migrations, the index workers' release, the cold compression thread,
the retention sweep.  The guard of `ColdCommit` is the code's: it compares
`object_sha256`, so that a body which retention has rewritten since the copy is taken for
unchanged and is replaced.  `age` counts the cutoffs the events of a part have passed;
the sweep works on a snapshot of the rows and of what was due then (`sweep.due`).  Keys
are content addressed, so that the same pack retired once and uploaded again is the same
key.  Left out: the *unavailable* state, the branch of a rewrite that leaves no row, the
order of commits among several files.

**ServingManifest**: the catalog rows of parts with identity, revision and visibility,
the change queue the triggers fill, the manifest's states (*pending, loading, ready,
delete_pending, deleting, retired* and the failed ones), the rows in ClickHouse and the
mutations not done, and a query between the look at the source and the look at the
manifest.  ClickHouse has two tables (`Sorts`): an insert writes the one sorted by time,
a materialized view fills the one sorted by name, which queries for exact names read.  A
delete sends a mutation to each, which runs on its own, is not sent again while one is
not done, and spares rows inserted after it (`running`, then `spent` until ClickHouse has
been through its other data).  The jobs look where the code looks: load and stale jobs
at both tables (object-storage mode, `verify_name_table`), the delete job at the time
table only.  A call of the client is one step, except that a broken one may have deleted
from the first table only or have inserted a part in either; the two looks of a pair
commute with what may come between, a mutation that is applied to the rows of a key is
applied to all of them.  A page of the queue, its commit in the manifest and its
acknowledgement are three steps, as are the read, the commit and the completion of the
full scan.  Left out: the one-off streaming migration, the page limit (a page is the
whole queue), due times and the order of claims (any), inserts that arrive after a client
has given up.

**SlowLogCollector**: the records DAS shows, numbered as they appear, and the polls: one
page, the look at the index, the commit of the batch, the write of the state file are
steps, and records appear between any two.  Records of one moment are listed last
appeared first, an assumption about DAS.  `late` marks records that appear after the lag
and `cut` a shutdown that left a window half read: two ghosts that name the exceptions
of the properties.  The replay window is modelled with its adaptation, but no property
says which late records it finds: a replay that is cut short by the page cap may miss
them while the watermark moves, and the code promises nothing of them.

**SlowLogIndex**: the queue, the rows with their canonical flag, the counters kept by
triggers, the reconcile sweep with its position, the worker with the builds of its batch,
the body locks that builds and retention take, and queries that queue what they miss.

The definitions marked "Mutant of" are variants with a plausible mistake (a dropped
guard, a swapped order, a missing reset).  No specification uses them: they exist to
show that each property can fail (`PROJECT.json`, "mutants").

## 3. Runs and bounds

| run | module | instance | states | what it shows |
|---|---|---|---|---|
| `one_file` | MCRawCollector | 1 file; 1 fault, 1 crash, 1 stop, 1 missed listing, 1 change of the host plan | 1.38 M | all safety properties and the refinement while every environment event may happen in every order |
| `renamed_source` | MCRawCollector | 2 files of which one replaces the other, 1 lane, 1 archive worker | 75 k | replaced identities are settled, refinement with two files, limits hold while lanes compete |
| `recovers` | MCRawCollector | 1 file; fault, crash, missed listing, change of the plan; the first failure fails the job | 213 k | liveness: the file is secured or settled, and collected if it stays listed |
| `timeline` | MCSourceTimeline | 2 nodes, 2 moments, pages of 2 rows; 1 switch of the primary, or 1 end of the job, or 1 expired file | 577 k | what was settled as covered stays held, and every moment the primary offers gets into the timeline |
| `control` | MCSyncControl | 2 orders of the operator; 1 each of stall, hang, frozen scheduler, fault, crash | 423 k | safety and liveness of control |
| `tasks` | MCQueryTasks | 2 tasks, 1 thread, 1 kept row, 1 fault, 1 crash or shutdown | 25 k | safety and end of tasks |
| `bodies` | MCPartBodies | 1 part that passes two retention cutoffs in part and then as a whole, 1 attempt, 1 migration, 1 fault, 1 crash; archive on, or off and switched on | 1.21 M | the events survive every order of releases, re-encodings and sweeps; the file completes, is archived, retired objects go |
| `packs` | MCPartBodies | 2 parts, 2 attempts, 2 migrations, 1 crash, nothing ages | 1.20 M | no retired object is deleted while a row names it |
| `serving` | MCServingManifest | 1 path with 2 contents; 1 change, 1 hide, 1 fault; or 2 changes, 1 call whose mutations are late; or 1 change, such a call and 1 crash; or 1 change and a part that leaves the history | 794 k | hand-over, exactness of the gate, rest |
| `slowlog` | MCSlowLogCollector | 3 records, pages of 1, 2 pages a poll, windows of 1 to 3; 1 failure or 1 restart, or a longer time | 272 k | watermark and known ids, adaptive windows, liveness |
| `slowlog_index` | MCSlowLogIndex | 2 parts with a common statement, pages of 1; a part removed, with 1 lost queueing and 1 failed build, or 1 repair, or 1 crash | 69 k | election, counters, removal, liveness |
| `late_delete` | MCServingManifest | 1 path with 1 content; hidden and shown again, 1 call whose mutations are late in both tables | stops early | a comment that the code does not keep (section 6) |

Properties.

- `DoneIsArchived`: a row that says *stored* or *done* has its archive row, and an
  archive row has both verified objects (original and index).
- `OriginalHeldUntilArchived`: the verified local copy goes only when its archive is
  complete, by the sweep that had found its row settled, or by the downloader that has
  just hashed it and found it corrupt.
- `SuccessIsDrained`: a job that nobody asked to stop records success only when every
  open file of its host waits for a retry.
- `StopsAtFileBoundary`, `LanesBounded`: no archive outlives its job row; the limits of
  lanes and workers.
- `ImplementsLedger`: refinement of `BinlogLedger`, which loses nothing before it has
  expired and reopens nothing that is final.
- `EventuallySecured`, `ListedIsCollected`: liveness of collection.
- `SkippedIsHeld`, `EventuallyHeld`: "no hole at a primary switch", as a safety property
  of what has been settled and as liveness of the whole timeline.
- `FlagMirrorsPause`, `PauseEndsOnPurpose`: the event and the file agree, a pause ends by
  its deadline or a manual start.
- `CollectionResumes`, `PauseStopsJob`, `StuckJobIsReplaced`, `MaintenanceExpires`:
  liveness of control over stalls, hangs, faults and crashes.
- `PublishedHasResult`, `NoFalseRunning`, `FinalTaskStays`, `SubmittedEnds`: query tasks.
- `RowsAreDurable`: the events of every live part of a finished file are in its local
  body or in an object that its row names and that exists.
- `ReferencedObjectsExist`, `RetiredGetDeleted`: no object is deleted from under a row,
  and every retired one that no row names goes in the end.
- `FileCompletes`, `PartsGetArchived`: liveness of the file, on the condition that sweeps
  do not meet every attempt of it for ever (`SweepsLetParse`; they are an hour apart).
  `PartsGetArchived` and `RetiredGetDeleted` also wait for retention to come to a part
  again whose row and body a rewriting and a re-encoding left apart (`MixUpsEnd`, section
  6): until then no migration takes it, and the gate of the cold compression is shut.
- `HandedOver`: the queue is empty for a part only when the manifest serves or loads what
  the catalog shows.  `GateIsExact`: when both gates were open, the time table held exactly
  the rows of the identity shown when the source was asked, and the name table the same
  rows of the same revision of it.  It says no more because the code does no more: the
  name table may hold rows of deleted identities beside them, and the revision may be an
  earlier one (section 6).  `EventuallyServed`: once the catalog is quiet, both tables
  serve what it shows.
- `SeenIsStored`, `PassedIsStored`, `EventuallyStored`: what a poll skips is stored; the
  watermark passes nothing that was shown in time; what is owed is stored in the end,
  unless its moment is busier than the smallest window can read (`Sparse`) or a shutdown
  cut a poll.
- `OneCanonical`, `CountersExact`, `RemovedStaysRemoved`, `EventuallyIndexed`: the slow-log
  index.

Why the bounds are enough.  Files of the collector interact only through the admission
limit, the worker limit, the failure counter and the renaming of an identity; two files
and one lane or worker make each of these bind.  One fault, crash, stop or omission can
fall at every step of a lane, and repeated ones meet a state the first has already
produced (the catalog, the directory and the object store are all that survive).
`Breaker` is 2, so that a failure is deferred and the job goes on, except in `recovers`,
where the first failure fails the job.  A stop is left out of the liveness runs: the
state it leaves (no lane, no job) is among those a crash leaves, and `one_file` checks
safety with it.  Parts of a file meet only in a pack, for which two are enough; two
migrations let one retire what the other has read, and two attempts make a re-ingest
change bytes.  In `serving` paths do not meet, except in the page that is cut as a
whole; the budgets are alternatives, so that each pair of disturbances that touch the
same key is met without multiplying the others.  In `slowlog` a page holds one record
and a poll two pages, so that three records truncate every kind of window.  In
`timeline` two moments give a node one file or two, so spans of the two nodes may be
equal, nested or staggered; a switch and the end of a job in one behaviour were checked
once with the same result (557 k states) and are kept apart in the run for its duration;
with an expired file in the same behaviour the safety property fails (section 6).  The
theorems of section 5 hold without any bound.

Deadlock is checked where a system never comes to rest.  It is off in `control` (a
scheduler that hangs while autoSync is off or a pause is in force is not restarted,
section 6, and once the budgets of operator and environment are spent nothing happens
any more), and in `bodies`, `packs`, `serving`, `slowlog`, `slowlog_index`, `timeline` and
`late_delete`, whose instances come to rest when all is archived, served, read, built or
collected and the budgets are spent.

## 4. Fairness and timing assumptions

Weak fairness, except where a loop passes a place again and again and other steps keep
disabling it.

- RawCollector: the threads of the service take their next step, the scheduler keeps
  starting jobs and sweeping, backoffs elapse, the source lists again what it still
  holds, a deleted file grows older.  Faults, crashes, stops, missed listings and
  deletions are never fair.  That the scheduler does keep starting jobs is itself a
  property of SyncControl (`CollectionResumes`).
- SourceTimeline: both threads take their next step, the retained pass is repeated
  (`RETAINED_PASS`), the plan is read again after five minutes.  The primary is read
  between two passes: `RefreshPrimary` is enabled only then, hence strongly fair.
  The source is not fair at all.
- SyncControl: threads keep running unless stuck, time passes, a job that is not stuck
  reaches its next file boundary when asked to stop.  `ResumeProgress` and `FinishJob`
  are not fair: a stalled job may never recover and a job may never run out of files.
- QueryTasks: a thread takes its next step, a recorded cancel is signalled by the same
  call, shutdown runs to its end, the supervisor restarts.
- PartBodies: the lane is retried, the cold compression thread and the sweep go on,
  migrations go on, a grace period ends.  Releases, faults, crashes, aging and the switching on of the
  archive are not fair.
- ServingManifest: the worker takes its next step; when it is idle it comes to a
  reconcile and to a claim again and again, in turns that the other one disables, hence
  strong fairness for `ReadPage` and `Claim`.  Mutations are applied, and visible parts
  are archived in the end.  Changes, crashes and queries are not fair.
- SlowLogCollector: the clock runs, the collector polls, a service that was shut down is
  started again.
- SlowLogIndex: rounds of the worker end, due retries come, retention goes on with what
  it has begun; a page of the sweep is read in the rounds in which its time has come
  (strong fairness).  The collector's queueing and the queries' repairs are not fair:
  the sweep alone must find every part.

Timing the models rely on, each named where it is used:

- hashing a complete local file outlasts the gap between the sweep's last check and its
  `unlink` (`Hashed`);
- `ORPHAN_KEEP_SECONDS` (6 h) outlasts a lane, the time between two refreshes of the
  queue, and an expiry sweep (`SweepRead`);
- the source keeps a binlog at least its retention (`Delete`);
- the hour of grace of a retired object outlasts the time between an upload and its
  mark, and the time a body lock is held (`GraceEnds`).

## 5. Theorems

All hold for every set of files, parts, tasks, records or statements, every limit and
every number of faults, crashes and requests; the assumptions are the named ones of the
modules: limits are positive, budgets natural numbers, sets of parts finite.  Seven
theorems carry a condition as a temporal hypothesis where TLC shows that the property is
false without it.  Each is a state or action formula of the module that excludes the
circumstance named here, and none bounds the number of events:

| hypothesis | says | without it |
|---|---|---|
| `RewriteIsShort` | between the replacement of a body by the retention rewrite and its UPDATE the part is not ingested anew and re-encoded up to the swap | `ReferencedObjectsExist` fails |
| `RewritesAlone` | no ingest of a part writes its body while the retention rewrites it | `RowsAreDurable` fails with two attempts |
| `ReadyIsNotDying`, `NothingIsHidden` | nothing ready is being deleted, in either table; no file is hidden, which implies it | `GateIsExact` fails with the budgets of `late_delete` |
| `ChoicesGetRows` | no job ends between the choice of a file and its row | `SkippedIsHeld` fails after 20 steps |
| `DecisionsAreCurrent` | the primary is not read again between the plan of `pending()` and its commit | `SkippedIsHeld` fails after 23 steps, with two switches |

**RawCollectorProofs.**  `TypeCorrect` needs that the failure counter of a running job
stays below the breaker.  `DoneFilesAreArchived`: "a row that says done has its archive" is not
inductive, because the row is written after the upload; the invariant adds what each
place of a lane has already achieved (*index* has the original uploaded, *row* both
objects, *mark* and later the archive row; a *resume* lane came from a stored or
archived file), see the module.  `StopsWaitForArchives` adds where the job thread can
be while the job row is final; `LanesStayBounded` counts lanes with the cardinality
lemmas of finite sets and needs no bound on the number of files.  `SuccessMeansDrained`
comes down to two steps: `Confirm`, which finds every leftover waiting for its retry,
and `Retire`, which forgets a retry, but only in the middle of a round.

Its last part is the refinement, `CollectorImplementsLedger`: initial states map to
initial states and every action maps to one ledger action or a stutter.  Beside the
invariants above (a lane that marks done has a durable original; a file
that is collected or replaced is in no queue and no working lane, `FinalInv`) the
refinement needs `OpenInv`: an unregistered file has no lane, a file whose objects are
being written has an open row, and the candidates of the expiry sweep are past
retention.  `FinalFilesStayFinal`, `LossNeedsExpiry` and `OriginalsAreHeld` follow from
the same invariant by one case per action; the first two restate what the ledger
promises in terms of the collector.

**SyncControlProofs.**  `ControlTypeCorrect`; `FlagIsPauseFile`, whose invariant is
inductive as it stands because every step that writes the file or the event writes
both under the lock and a new process reads the file first; and `PausesEndOnPurpose`, a
case analysis over the steps.

**QueryTasksProofs.**  `PublishedResultsExist` needs `Bookkeeping`: results about
to be unlinked belong to pruned rows, a thread between its start and its end owns a row
that is running or cancelling, and a thread at *publish* has its file.
`EndedTasksStayEnded` uses the same invariant.  `RunningRowsHaveThreads` relates every
active row to the thread, the control object or the half-done cancel that will end it.

**PartBodiesProofs.**  `BodiesTypeCorrect`, and `NoNamedObjectIsDeleted`: an object is
deleted some time after it was seen retired and unnamed, so the proof must show that
nobody names it in between.  The lane does not, because the gate of the cold compression
thread wants the file done and no lane is at work (`Phases`).  A migration might, with a
pack that it packed from rows it read earlier.  `RetiredPacks` says why it does not: a
retired pack has a part whose row is gone or whose body does not come back, so a
migration that read its rows before packs nothing or marks nothing, and one that had
packed it has ended when the grace period ends.

That a body does not come back is the difficult part, because a re-encoding may commit
over a rewrite and bring untrimmed events back.  It does not bring the *body* back: what
it writes is of the cold form, and a part is re-encoded once in each attempt
(`ColdStays`, from `object_sha256` and `level9`).  The cutoffs of a part only grow, in
its row, its bodies and the sweep's snapshot, and survive a re-encoding, which leaves the
time range of the row as it is (`CutsGrow`).  A body that was trimmed at an earlier
cutoff, or never, and is neither in the row nor on the disk is therefore gone for good
(`Outdated`, `Apart`).  A row that names a pack has a body that came from the one packed
(`PacksHoldTheirParts`), and `ObjectsExist` adds what each uploader has already put into
the store.  The rewrite itself writes a row with the digest of whatever lies at the path,
after any delay; when an ingest has overtaken it, the row had that digest already, as
long as nobody has re-encoded the body since (`RewritesAreCurrent`, from
`RewriteIsShort`).

`PartsStayHeld` adds `BodiesKept`: the pack of an archived part holds a body of it, and a
live part of a finished file that is not archived has its local body.
`EventsAreDurable` adds `GensAgree`: while nobody else writes the body during a rewrite,
the generation of a body, of its marker and of both digests of its row go together at each
place of the lane, the sweep and the cold compression.  TLC checked these invariants
before they were proved.

**ServingManifestProofs.**  `ServingTypeCorrect` and `QueueIsHandedOver`.  A page read from
the queue, and a row read by a scan, stay true for a part until it changes again, and
then the queue has an entry with a newer version, which the acknowledgement does not
take.  The invariant therefore says for each step of the worker: for every part whose
queue entry is the one that was read (or that has none), what the page says is what the
catalog shows, and what the manifest has taken over agrees with it.

`TheGateIsExact` relates four places that change at different times: the catalog when
the source was asked, the manifest, and the two tables.  `RowsFollow` says what the
tables hold in each state of the manifest: of what is *ready* both hold all rows, of one
revision (`Whole`); of what is *absent* or *retired* the time table holds none, unless
the part left the history; of the name table nothing is known then, since a delete job
does not look at it.  An insert still begins on nothing in either table, as the load job
looks at both.  `QueryIsFresh` says that the queue is still empty for the parts untouched
since the source was asked.

`NothingReadyIsDeleted` is the converse of run `late_delete`.  What a mutation is about to
delete is `Expendable`: one table lacks some of the rows, or they are of a revision that
is past for good (`Revisions`, `DeletesArePast`, `PageIsPast`), unless a part comes back,
and only a part that was hidden comes back.  Rows of which one table lacks some are never
marked ready without being deleted and verified in both first (`LoadIsApart`).
`ShownPartsAreServedExactly` puts the two together.  TLC checked both invariants first
(884 k and 515 k states).

**SourceTimelineProofs.**  `NoHoleAtASwitch` is about two threads whose plan is replaced
under them.  "What a settled file held is held" is not inductive: a file that holds it
may be settled next.  `TimelineInv` adds that a plan in force, or in the hands of a thread
that decides, is one of the known primary and names no file of its in vain
(`PlansAreHeld`), that what is about to be settled is covered by files of the known
primary (`SettledIsCovered`), which are never settled themselves, and that a
thread which took a file for unknown finds it settled only if it is the scan and the
file another node's (`UnknownStays`).  `Held` includes the files a thread has chosen,
which is why the end of a job in that moment must be excluded.  The proof does not use
how a plan accepts new files: whatever `accept_new` takes, no hole appears; that it takes
enough is `EventuallyHeld`.  TLC checked `TimelineInv` with a switch, an end and an
expired file (1.92 M states), with two switches (564 k), with three moments (13 M) and
with three nodes (7.9 M).

**SlowLogCollectorProofs.**  `CollectorTypeCorrect`, `SeenRecordsAreStored`, and
`PassedRecordsAreStored`, which needs `PollInv`: records that appear inside the window of a
poll are late; the rank of a record in the listing only grows while it is read, so
that the pages read hold every due record of their ranks; and what was read reaches
without a gap from the newest record to the oldest one seen.

**SlowLogIndexProofs.**  `StatementsAreElected`, `CountersAreExact`,
`RemovedPartsStayRemoved`, `IndexTypeCorrect`.  The election is local: only statements of
the part that is built or removed can change their canonical occurrence, and it is the
least of the remaining paths, which exists because parts are finite in number.  The
counters follow with the cardinality lemmas; the removal by the body lock, under which
both a build and a removal look the part up again.

Every safety property that a passing run checks is stated by a theorem.  Only
model-checked: every liveness property (fairness and ENABLED are beyond the prover) and the
violation.

## 6. What the checks found

With a run that reproduces it as a counterexample:

| run | code | says | does |
|---|---|---|---|
| `late_delete` | `clickhouse_ingest.py:567` | callers verify that the rows disappeared and do not mark the source ready "when the asynchronous mutation is still running" (`clickhouse_client.py:796`) | a part that comes back with the same identity before the mutations are applied is found complete in both tables and marked ready; the mutations then remove its rows, and the open gate answers without them |

Disagreements between code and comments met while modelling, reachable in the models,
without a run of their own:

- *Expiry and a finished download* (`pipeline.py:2663`): files with a local copy are left
  to finish (`pipeline.py:2652`), but the look at the directory and the UPDATE are apart; a
  download that completes in between is marked unavailable.
- *Stop taken for success* (`sync_discovery.py:433`): success requires the scan, the drain
  and the live check (`sync_discovery.py:3`), but an answer that is empty because of a stop
  is taken for "caught up", and the job ends as success with files left.
  `SuccessIsDrained` therefore speaks of jobs nobody asked to stop.
- *A manual pause lost* (`pipeline.py:810`): "An indefinite operator pause must be
  explicitly resumed" (`sync_lifecycle.py:3`), but a later maintenance pause overwrites it
  and expires by itself.
- *A stuck scheduler* (`pipeline.py:393`) is restarted after 2 h while auto sync is on
  (`sync_watchdog.py:13`), but not while a pause is in force, and a pause that only the
  scheduler can expire then stays.
- *A start after the switch-off* (`pipeline.py:2637`): switching autoSync off is an
  indefinite disable (`docs/sync-lifecycle.md:5`), but a round that had read the setting
  before starts a job after.
- *A leaked slot* (`query_tasks.py:274`): a full executor asks to retry later
  (`query_tasks.py:182`), but a task cancelled while it is queued never runs its `finally`
  and its slot is lost until the restart.
- *A hole after two switches* (`sync_discovery.py:105`, "no hole at a primary switch"): a
  file chosen under the old plan is committed after the plan was read again for the new
  primary, so both copies of a span are in the rows; when the primary moves back between
  a decision and its commit, each copy is settled as covered by the other, and neither is
  listed as unknown again.  TLC finds it with two switches; the run has one.
- *A choice that is lost with its job* (`sync_discovery.py:279`, the same sentence): the
  plan has a file as soon as it is chosen, its row comes later.  The job thread may settle
  another node's file as covered by it; if the job ends before the row is written and the
  source expires the chosen file, nothing holds that time.  TLC finds it with one
  switch, one expired file and one end of a job; the run has these one at a time.
- *A half-read window* (`slow_log_collector.py:620`): every poll must read all pages of its
  window (`slow_log_collector.py:17`), but a shutdown leaves the page loop with
  `truncated` still false, and the watermark moves over the pages not read (`cut`).
- *Rows by name outlive their delete* (`clickhouse_ingest.py:517`): callers verify that the
  rows disappeared (`clickhouse_client.py:796`), but the delete job looks at the time table
  only.  When the mutation of the name table is late, or was not sent because an older
  one was not done, the part is *retired* with its rows still in the name table, and
  queries for exact names read them behind an open gate (`clickhouse_query.py:794`), in
  the second case until the TTL of the table: no reconcile comes back to a retired
  identity.
- *The gate compares identities* (`clickhouse_manifest.py:847`): a query is answered from
  ClickHouse only when identity, digest, `content_revision` and row count of every part are
  confirmed (`README.md:343`).  The reconcile updates the values of a *ready* row and leaves
  its state (`clickhouse_manifest.py:494`), so that a part rewritten by retention stays
  ready without a load: ClickHouse keeps serving the rows of
  the earlier revision, those past retention among them.
- *A re-encoding over a rewrite* (`storage.py:2866`): cold compression re-encodes a part
  "without changing its row identity" (`storage.py:2679`) and looks again under the lock
  that the part has not changed, but at `object_sha256`, which the retention rewrite leaves
  as it was (`metadata.py:4159`).  A body rewritten between the copy and the commit is
  replaced by the untrimmed one, on the disk and in the store, while row count and time
  range stay the trimmed ones.  No live event is lost (`RowsAreDurable`).
- *Rewriting without the lock* (`storage.py:4786`): the rewriting of bodies uses the version
  lock (`README.md:36`), but the retention rewrite holds none: it may replace a body that
  was ingested again meanwhile, and it leaves the version marker of the body before, so
  that `_local_body_matches` refuses the rewritten body until the marker is dropped.
  With two attempts TLC finds the loss of events: the sweep copies the body of the
  first, the second is published, and the sweep puts what it kept of the first in its
  place (hypothesis `RewritesAlone`).  With two crashes and two migrations a row comes to name
  a deleted object, when a sweep stays between its last two writes while the file is
  ingested, finished, migrated and re-encoded (hypothesis `RewriteIsShort`): a sequence
  that no schedule of these threads makes likely, but nothing excludes.  The sweep may
  also put its body in place between the commit and the swap of a re-encoding, or record
  a digest that the swap then makes stale.  Row and local body differ from then on,
  `_upload_pack` refuses the part, and until retention comes to it again it is not
  archived and the gate of the cold compression stays shut (`MixUpsEnd`).

Seen while modelling, without a statement in the repository that says otherwise:

- The retention sweep acts on a snapshot of the rows (`storage.py:4721`); a part archived
  or ingested again since is treated by what it was.
- A part that retention has rewritten is not re-encoded afterwards: the body of the
  digest that cold compression expects, `object_sha256`, is neither on the disk nor in the
  object of the row (`storage.py:2740`).
- `mark_parts_archived` names rows by path only (`metadata.py:3850`): the object of an
  attempt may be recorded in the row of the next one, whose body differs.
- A row that changes its sha drops its object key without retiring the object
  (`metadata.py:2230`, `metadata.py:4119`), which stays in the store for good.
- *unavailable* rows still count as held by the timeline.  A host that was primary
  before any of its files was registered is treated as a replica.
- A covered leftover of a former primary that has local bytes is neither settled nor
  returned (`sync_discovery.py:451`), and one left in *downloading* or *downloaded*
  without a local copy is not settled either (`sync_discovery.py:458` settles
  *discovered* and *failed* only): both stay unfinished.  `EventuallySecured` therefore
  excepts covered files.
- A retry whose backoff elapses between the last listing and the status check no longer
  counts as deferred, the job is recorded as success (`pipeline.py:2236`).
- A row marked unavailable while its archive row exists is never finished
  (`pipeline.py:2663`); `EventuallySecured` counts it as secured.
- The watchdog acts on what it read before writing its dumps (`sync_watchdog.py:90`): an
  abort may reach a job started meanwhile.  The scheduler replaces an aborted job at
  once, so collection resumes.
- The scheduler may start a job before `reconcile_interrupted_jobs` has run
  (`server.py:1656`); if the rest of the construction takes longer than the scheduler's
  first wait, the row of that live job is marked paused.
- A start that fails in `create_job` has already cleared the pause (`pipeline.py:764`).
- A job whose last write fails stays *running* in its row until the next start.
- A prune that fails leaves the control object of its task behind, and a shutdown
  whose loop meets a pruned row ends early (`query_tasks.py`).

## 7. What is not modelled, and the plan

Not modelled by intent: pure I/O and request signing (object store, RDS API), SQL text
tools, slow-log numerics, the MongoDB and session products, the web interface, the Go
parser, deployment.  They keep no shared state whose interleavings matter here, or are
data transformations beyond what a bounded model tells apart.  File formats and query
arithmetic (search, exact and analytics indexes, raw binlog queries) are data too.
These parts are most of the repository's lines, so the lines the project covers are few
against its size and dense in the modules it models.

Abstracted in the modelled parts: byte and disk budgets of admission (one file limit
stands for them), the order of admission (any entry may be next), wall-clock values, the
content of rows beyond the life-cycle columns, and what section 2 names for each module.
In the slow-log index the removals of the cleanup that hold no lock (for files dropped
as a whole) and `prune_orphans`, which nothing calls, are left out.

Plan, in order of what it would add.

1. *Row serving*: buffers, in-flight markers, move and record, recovery; abstract
   specification: exactly-once coverage.
2. *Index supervisor and workers*: the life cycle of the child, pauses and quarantine
   over the part bodies of PartBodies.
3. *File order*: the commit barrier among several files of the Parquet mode, and the
   composition of SourceTimeline with RawCollector in place of `role`.
4. *ClickHouse raw packs* and the general-log collector.

Theorems to come: liveness is out of the prover's reach, so what is left are the parts
of the plan, and the safety facts behind the liveness runs (a retired object that no row
names stays deletable, a queued part of the slow-log index stays queued until it is
built).
