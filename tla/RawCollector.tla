----------------------------- MODULE RawCollector -----------------------------
(***************************************************************************)
(* Collection of original binlogs (app/pipeline.py, raw archive mode): the  *)
(* job thread of one SyncManager, the download and archive lanes it feeds,  *)
(* the discovery threads that register listed files, the two sweeps of the  *)
(* scheduler thread, and what they share: the catalog, the download         *)
(* directory, the object store and the table raw_binlog_archives.           *)
(*                                                                          *)
(* Every write that survives a crash is a step of its own, so a crash may   *)
(* fall between any two of them.                                            *)
(***************************************************************************)
EXTENDS BinlogCatalog, Naturals, FiniteSets

CONSTANTS
    Successor,   \* files whose source may be renamed -> the identity it takes
    MaxLanes,    \* admission limit (RAW_PREFETCH_FILES)
    Workers,     \* archive workers (FILE_PIPELINE_WORKERS)
    Breaker,     \* consecutive failures that fail the job
    MaxFaults,   \* bound: network, disk, object-store and API faults
    MaxCrashes,  \* bound: process crashes
    MaxStops,    \* bound: pause and watchdog-abort requests
    MaxHides,    \* bound: listings that omit a file which still exists
    MaxSwitches  \* bound: changes of a file's place in the host plan

ASSUME LimitsAssumption ==
    /\ MaxLanes \in Nat \ {0} /\ Workers \in Nat \ {0} /\ Breaker \in Nat \ {0}
    /\ {MaxFaults, MaxCrashes, MaxStops, MaxHides, MaxSwitches} \subseteq Nat
ASSUME SuccessorAssumption == Successor \in [DOMAIN Successor -> Files]

VARIABLES
    source,   \* RDS: "listed", "hidden" (exists, not listed now) or "gone"
    age,      \* 0 young, 1 past the source retention, 2 past retention + 1 day
    role,     \* HostPlan: "primary", "former" or "covered" (by the primary)
    local,    \* download directory: "none", "part" or "full"
    oss,      \* verified objects of the file: subset of {"raw", "index"}
    descr,    \* files with a row in raw_binlog_archives
    pc,       \* where the file's lane is; "none" when it is not admitted
    err,      \* code of the exception the lane ended with
    job,      \* where the job thread is
    stop,     \* "no", "pause" or "abort": what _stopping() reads
    result,   \* status of the newest row of table jobs
    entries,  \* files waiting for admission (deque `entries')
    retired,  \* files completed in this round
    backoff,  \* _file_backoff: "none", "wait" (not due) or "due"
    fails,    \* _consecutive_failures
    scanned,  \* files whose slice the retained scan of this job has passed
    lost,     \* the job marked a file unavailable (`unavailable' > 0)
    leftover, \* ghost: unfinished files of this host when the job decided it had caught up
    settle,   \* expiry sweep: its program counter and candidate list
    sweep,    \* download sweep: <<file, kind>> whose row it has read
    left      \* remaining budget of environment events

disk    == <<local, oss, descr>>
lanes   == <<pc, err>>
remote  == <<source, age, role>>
control == <<stop, result, lost, leftover>>
queue   == <<entries, retired, backoff, fails>>
sweeps  == <<settle, sweep>>
vars == <<state, source, age, role, local, oss, descr, pc, err, job, stop, result,
          entries, retired, backoff, fails, scanned, lost, leftover, settle, sweep, left>>

Codes == {"none", "transient", "missing", "renamed", "systemic", "archive"}
Downloading == {"connect", "stream", "refresh", "again", "streamAgain", "fetched"}
Archiving == {"parse", "archive", "index", "row", "mark", "verify", "unlink", "finish"}
Processing == Archiving \cup {"success", "archiveError"}
Lanes == {"none", "fetch", "ready", "resume", "downloadError"} \cup Downloading \cup Processing
Jobs == {"idle", "check", "listing", "confirm", "round", "stopDrain", "failDrain", "closing"}
Events == {"fault", "crash", "stop", "hide", "switch"}

Admitted == {f \in Files : pc[f] # "none"}
Busy     == {f \in Files : pc[f] \in Processing}
scanDone == scanned = Files
Stopping == stop # "no"
Spend(e) == left[e] > 0 /\ left' = [left EXCEPT ![e] = @ - 1]

Init ==
    /\ state = [f \in Files |-> "absent"]
    /\ source \in [Files -> {"listed", "hidden"}]
    /\ age = [f \in Files |-> 0]
    /\ role = [f \in Files |-> "primary"]
    /\ local = [f \in Files |-> "none"]
    /\ oss = [f \in Files |-> {}]
    /\ descr = {}
    /\ pc = [f \in Files |-> "none"] /\ err = [f \in Files |-> "none"]
    /\ job = "idle" /\ stop = "no" /\ result = "none"
    /\ entries = {} /\ retired = {} /\ fails = 0
    /\ backoff = [f \in Files |-> "none"]
    /\ scanned = {} /\ lost = FALSE /\ leftover = {}
    /\ settle = [at |-> "idle", files |-> {}]
    /\ sweep = {}
    /\ left = [fault |-> MaxFaults, crash |-> MaxCrashes, stop |-> MaxStops,
               hide |-> MaxHides, switch |-> MaxSwitches]

(***************************************************************************)
(* The source.  RDS deletes a binlog some time after its retention has      *)
(* passed, may leave an existing one out of a listing, and may list one     *)
(* under a new identity (size or span changed).                             *)
(***************************************************************************)
Hide(f) ==
    /\ source[f] = "listed" /\ Spend("hide")
    /\ source' = [source EXCEPT ![f] = "hidden"]
    /\ UNCHANGED <<state, age, role, disk, lanes, job, control, queue, scanned, sweeps>>

List(f) ==
    /\ source[f] = "hidden"
    /\ source' = [source EXCEPT ![f] = "listed"]
    /\ UNCHANGED <<state, age, role, disk, lanes, job, control, queue, scanned, sweeps, left>>

Expire(f) ==
    /\ age[f] < 2
    /\ age' = [age EXCEPT ![f] = @ + 1]
    /\ UNCHANGED <<state, source, role, disk, lanes, job, control, queue, scanned, sweeps, left>>

Delete(f) ==
    /\ age[f] > 0 /\ source[f] # "gone"
    /\ source' = [source EXCEPT ![f] = "gone"]
    /\ UNCHANGED <<state, age, role, disk, lanes, job, control, queue, scanned, sweeps, left>>

Rename(f) ==
    /\ f \in DOMAIN Successor /\ source[f] # "gone" /\ source[Successor[f]] = "hidden"
    /\ source' = [source EXCEPT ![f] = "gone", ![Successor[f]] = "listed"]
    /\ UNCHANGED <<state, age, role, disk, lanes, job, control, queue, scanned, sweeps, left>>

\* The primary moved, or the new primary's files now cover (or no longer are
\* the ones that cover) this file: the answers of HostPlan for it change.
Switch(f) ==
    /\ Spend("switch")
    /\ \E r \in {"primary", "former", "covered"} \ {role[f]} : role' = [role EXCEPT ![f] = r]
    /\ UNCHANGED <<state, source, age, disk, lanes, job, control, queue, scanned, sweeps>>

Environment == \E f \in Files :
    Hide(f) \/ List(f) \/ Expire(f) \/ Delete(f) \/ Rename(f) \/ Switch(f)

(***************************************************************************)
(* Discovery (app/sync_discovery.py).                                       *)
(***************************************************************************)
\* The retained scan, the live listing and the late/hole listings hand what
\* they find to _ingest; `scanned' records that the retained scan has passed.
Ingest(f) ==
    /\ job \in {"check", "listing", "confirm", "round"} /\ ~Stopping
    /\ IF source[f] = "listed" /\ ~(state[f] = "absent" /\ role[f] = "covered")
       THEN UpsertRemotes(f)
       ELSE UNCHANGED state
    /\ scanned' = scanned \cup {f}
    /\ UNCHANGED <<remote, disk, lanes, job, control, queue, sweeps, left>>

LocalResume(f) == state[f] = "stored" \/ local[f] # "none"

\* Mutant of Pending: the scan floor without its extra day.
PendingInRetention == {f \in Files :
    /\ state[f] \in Unfinished
    /\ \/ role[f] = "primary"
       \/ role[f] = "former" /\ (scanDone \/ LocalResume(f))
    /\ LocalResume(f) \/ age[f] < 1
    /\ backoff[f] # "wait"}

\* RetainedDiscovery.pending: what a job may admit next.
Pending == {f \in Files :
    /\ state[f] \in Unfinished
    /\ \/ role[f] = "primary"
       \/ role[f] = "former" /\ (scanDone \/ LocalResume(f))
    /\ LocalResume(f) \/ age[f] < 2
    /\ backoff[f] # "wait"}

\* ... and the files the same call settles as skipped.
CoveredLeftovers == {f \in Files :
    role[f] = "covered" /\ scanDone /\ ~LocalResume(f)}

Skip == MarkFilesState(CoveredLeftovers, "skipped", {"discovered", "failed"})

(***************************************************************************)
(* The job thread: start, _consume_pending and its rounds.                  *)
(***************************************************************************)
StartJob ==
    /\ job = "idle"
    /\ job' = "check" /\ result' = "running" /\ stop' = "no"
    /\ entries' = {} /\ retired' = {} /\ fails' = 0
    /\ scanned' = {} /\ lost' = FALSE /\ leftover' = {}
    /\ UNCHANGED <<state, remote, disk, lanes, backoff, sweeps, left>>

\* request_pause on a running job, or request_abort by the watchdog.
RequestStop ==
    /\ job # "idle" /\ ~Stopping /\ Spend("stop")
    /\ stop' \in {"pause", "abort"}
    /\ UNCHANGED <<state, remote, disk, lanes, job, result, lost, leftover, queue, scanned, sweeps>>

\* _finish_stopped_job
StoppedResult == IF stop = "abort" THEN "stalled" ELSE "paused"

\* while not self._stopping()
CheckStop ==
    /\ job = "check"
    /\ IF Stopping THEN job' = "idle" /\ result' = StoppedResult
                   ELSE job' = "listing" /\ UNCHANGED result
    /\ UNCHANGED <<state, remote, disk, lanes, stop, lost, leftover, queue, scanned, sweeps, left>>

BeginRound(fs) ==
    /\ job' = "round" /\ entries' = fs /\ retired' = {}
    /\ UNCHANGED <<leftover, backoff, fails>>

\* pending = refresh(): an empty answer before the scan has finished is waited
\* out, after it the live frontier is listed once more.  pending() answers
\* nothing when a stop was requested while it was listing.
Relist ==
    /\ job = "listing"
    /\ IF Stopping THEN UNCHANGED state ELSE Skip
    /\ IF ~Stopping /\ Pending # {}
       THEN BeginRound(Pending)
       ELSE /\ job' = IF scanDone THEN "confirm" ELSE "check"
            /\ UNCHANGED <<queue, leftover>>
    /\ UNCHANGED <<remote, disk, lanes, stop, result, lost, scanned, sweeps, left>>

\* The files a job may not leave behind when it calls itself finished.
Leftover == {f \in Files : state[f] \in Unfinished /\ role[f] = "primary" /\ age[f] < 2}

\* Mutant of Confirm: the live frontier is not looked at again.
ConfirmUnread ==
    /\ job = "confirm"
    /\ job' = "closing" /\ leftover' = Leftover
    /\ UNCHANGED <<state, remote, disk, lanes, stop, result, lost, queue, scanned, sweeps, left>>

\* pending = refresh(force_recent=True): nothing left means caught up.
Confirm ==
    /\ job = "confirm"
    /\ IF Stopping THEN UNCHANGED state ELSE Skip
    /\ IF ~Stopping /\ Pending # {}
       THEN BeginRound(Pending)
       ELSE /\ job' = "closing"
            /\ leftover' = Leftover
            /\ UNCHANGED queue
    /\ UNCHANGED <<remote, disk, lanes, stop, result, lost, scanned, sweeps, left>>

\* The rest of _run: cleanup, then the status of the job row.  A cleanup with
\* errors makes any job a warning.
CloseJob ==
    /\ job = "closing"
    /\ job' = "idle"
    /\ result' \in IF lost \/ \E f \in Files : backoff[f] = "wait"
                   THEN {"warning"} ELSE {"success", "warning"}
    /\ UNCHANGED <<state, remote, disk, lanes, stop, lost, leftover, queue, scanned, sweeps, left>>

\* An RDS or OSS error outside any one file: setup or a listing that keeps failing.
FailJob ==
    /\ job \in {"check", "listing", "confirm", "round"} /\ Spend("fault")
    /\ IF job = "round" THEN job' = "failDrain" /\ UNCHANGED result
                        ELSE job' = "idle" /\ result' = "failed"
    /\ UNCHANGED <<state, remote, disk, lanes, stop, lost, leftover, queue, scanned, sweeps>>

-----------------------------------------------------------------------------
\* One round of _run_pending_raw.

\* Mutant of Admit: the check lets one file more in than the limit.
AdmitOneMore(f) ==
    /\ job = "round" /\ ~Stopping
    /\ f \in entries /\ f \notin Admitted \cup retired
    /\ Cardinality(Admitted) <= MaxLanes
    /\ entries' = entries \ {f}
    /\ pc' = [pc EXCEPT ![f] = IF state[f] = "stored" \/ f \in descr THEN "resume" ELSE "fetch"]
    /\ UNCHANGED <<state, remote, disk, err, job, control, retired, backoff, fails, scanned, sweeps, left>>

\* The head of the queue takes a lane.  A file whose original is already in the
\* object store skips the download -- unless that lookup itself fails.
Admit(f) ==
    /\ job = "round" /\ ~Stopping
    /\ f \in entries /\ f \notin Admitted \cup retired
    /\ Cardinality(Admitted) < MaxLanes
    /\ entries' = entries \ {f}
    /\ \/ /\ state[f] = "stored" \/ f \in descr
          /\ pc' = [pc EXCEPT ![f] = "resume"] /\ UNCHANGED left
       \/ /\ state[f] # "stored" /\ f \notin descr
          /\ pc' = [pc EXCEPT ![f] = "fetch"] /\ UNCHANGED left
       \/ /\ state[f] # "stored" /\ f \in descr /\ Spend("fault")
          /\ pc' = [pc EXCEPT ![f] = "fetch"]
    /\ UNCHANGED <<state, remote, disk, err, job, control, retired, backoff, fails, scanned, sweeps>>

\* A prepared file goes to an archive worker.
Submit(f) ==
    /\ job = "round" /\ ~Stopping
    /\ pc[f] \in {"ready", "resume"} /\ Cardinality(Busy) < Workers
    /\ pc' = [pc EXCEPT ![f] = IF @ = "ready" THEN "parse" ELSE "verify"]
    /\ UNCHANGED <<state, remote, disk, err, job, control, queue, scanned, sweeps, left>>

\* refresh_pending: when the round has nothing left, and every 60 seconds.
RefreshEntries ==
    /\ job = "round" /\ ~Stopping
    /\ Skip
    /\ entries' = Pending \ (Admitted \cup retired)
    /\ UNCHANGED <<remote, disk, lanes, job, control, retired, backoff, fails, scanned, sweeps, left>>

RoundEnds ==
    /\ job = "round" /\ entries = {} /\ Admitted = {}
    /\ Stopping \/ Pending \subseteq retired
    /\ job' = "check"
    /\ UNCHANGED <<state, remote, disk, lanes, control, queue, scanned, sweeps, left>>

\* A finished file leaves its lane.
Retire(f) ==
    /\ job = "round" /\ pc[f] = "success"
    /\ pc' = [pc EXCEPT ![f] = "none"]
    /\ retired' = retired \cup {f}
    /\ backoff' = [backoff EXCEPT ![f] = "none"] /\ fails' = 0
    /\ UNCHANGED <<state, remote, disk, err, job, control, entries, scanned, sweeps, left>>

\* _file_failed / _record_file_error: what an exception of one file does.
Failed(f) == SetFileState(f, IF state[f] = "stored" THEN "stored" ELSE "failed")

\* Mutant of Unavailable: a file missing from one listing is lost at once.
UnavailableAtOnce(f) ==
    /\ err[f] = "missing"
    /\ SetFileState(f, "unavailable") /\ lost' = TRUE
    /\ UNCHANGED <<job, backoff, fails>>

Unavailable(f) ==
    /\ err[f] = "missing" /\ age[f] > 0
    /\ SetFileState(f, "unavailable") /\ lost' = TRUE
    /\ UNCHANGED <<job, backoff, fails>>

Systemic(f) ==
    /\ err[f] = "systemic"
    /\ Failed(f) /\ job' = "failDrain"
    /\ UNCHANGED <<lost, backoff, fails>>

Superseded(f) ==
    /\ err[f] = "renamed"
    /\ MarkFilesState({f}, "superseded", {"discovered", "failed", "downloading", "downloaded", "parsing"})
    /\ UNCHANGED <<lost, job, backoff, fails>>

Deferred(f) ==
    /\ err[f] \in {"transient", "archive"} \/ (err[f] = "missing" /\ age[f] = 0)
    /\ Failed(f)
    /\ backoff' = [backoff EXCEPT ![f] = "wait"]
    /\ fails' = fails + 1
    /\ job' = IF fails' >= Breaker THEN "failDrain" ELSE job
    /\ UNCHANGED lost

FileFailed(f) ==
    /\ job = "round" /\ pc[f] \in {"downloadError", "archiveError"}
    /\ Unavailable(f) \/ Systemic(f) \/ Superseded(f) \/ Deferred(f)
    /\ pc' = [pc EXCEPT ![f] = "none"] /\ err' = [err EXCEPT ![f] = "none"]
    /\ UNCHANGED <<remote, disk, stop, result, leftover, entries, retired, scanned, sweeps, left>>

\* Mutant of StopRound: the stop does not wait for running archives.
StopRoundAtOnce ==
    /\ job = "round" /\ Stopping
    /\ job' = "stopDrain" /\ result' = StoppedResult
    /\ pc' = [f \in Files |-> IF pc[f] \in Downloading \cup Archiving THEN pc[f] ELSE "none"]
    /\ err' = [f \in Files |-> "none"]
    /\ entries' = {}
    /\ UNCHANGED <<state, remote, disk, stop, lost, leftover, retired, backoff, fails, scanned, sweeps, left>>

\* The stop takes effect at a file boundary: no archive is running.  Queued
\* downloads are cancelled, running ones are waited for (stopDrain).
StopRound ==
    /\ job = "round" /\ Stopping /\ Busy = {}
    /\ job' = "stopDrain" /\ result' = StoppedResult
    /\ pc' = [f \in Files |-> IF pc[f] \in Downloading THEN pc[f] ELSE "none"]
    /\ err' = [f \in Files |-> "none"]
    /\ entries' = {}
    /\ UNCHANGED <<state, remote, disk, stop, lost, leftover, retired, backoff, fails, scanned, sweeps, left>>

\* Leaving the `with' block waits for both executors; nobody reads the futures.
JobExits ==
    /\ job \in {"stopDrain", "failDrain"}
    /\ \A f \in Files : pc[f] \notin {"fetch"} \cup Downloading \cup Archiving
    /\ job' = "idle"
    /\ result' = IF job = "failDrain" THEN "failed" ELSE result
    /\ pc' = [f \in Files |-> "none"] /\ err' = [f \in Files |-> "none"]
    /\ entries' = {}
    /\ UNCHANGED <<state, remote, disk, stop, lost, leftover, retired, backoff, fails, scanned, sweeps, left>>

BackoffElapses(f) ==
    /\ backoff[f] = "wait"
    /\ backoff' = [backoff EXCEPT ![f] = "due"]
    /\ UNCHANGED <<state, remote, disk, lanes, job, control, entries, retired, fails, scanned, sweeps, left>>

JobThread == StartJob \/ RequestStop \/ CheckStop \/ Relist \/ Confirm \/ CloseJob \/ FailJob
             \/ RefreshEntries \/ RoundEnds \/ StopRound \/ JobExits
             \/ \E f \in Files : Admit(f) \/ Submit(f) \/ Retire(f) \/ FileFailed(f)

(***************************************************************************)
(* A lane: _download and download_file, then _process_one, RawBinlogStore.  *)
(* archive and _finish_stored_file.                                         *)
(***************************************************************************)
unlaned == <<remote, job, control, queue, scanned, sweeps>>

Step(f, from, to) == pc[f] = from /\ pc' = [pc EXCEPT ![f] = to]

\* The lane ends with an exception.
Raise(f, from, to, code) == Step(f, from, to) /\ err' = [err EXCEPT ![f] = code]

BeginDownload(f) ==
    /\ Step(f, "fetch", "connect")
    /\ SetFileState(f, "downloading")
    /\ UNCHANGED <<disk, err, left, unlaned>>

\* A destination left by an earlier run is hashed instead of fetched.  Reading all
\* of it outlasts the gap between the sweep's last check and its unlink.
Hashed(f) ==
    /\ local[f] = "full" /\ pc[f] \in {"connect", "again"}
    /\ <<f, "full">> \notin sweep

VerifyExisting(f) ==
    /\ Hashed(f)
    /\ pc' = [pc EXCEPT ![f] = "fetched"]
    /\ UNCHANGED <<state, disk, err, left, unlaned>>

\* ... and set aside when it does not match the source's size and CRC.
DiscardCorrupt(f) ==
    /\ Hashed(f) /\ Spend("fault")
    /\ local' = [local EXCEPT ![f] = "none"]
    /\ UNCHANGED <<state, oss, descr, lanes, unlaned>>

\* The response is open and the partial file with it.
OpenStream(f) ==
    /\ local[f] # "full" /\ source[f] # "gone"
    /\ Step(f, "connect", "stream") \/ Step(f, "again", "streamAgain")
    /\ local' = [local EXCEPT ![f] = "part"]
    /\ UNCHANGED <<state, oss, descr, err, left, unlaned>>

\* LINK_EXPIRED, HTTP_404 ...: the link is refreshed once.
LinkRefused(f) ==
    /\ local[f] # "full"
    /\ IF source[f] = "gone" THEN UNCHANGED left ELSE Spend("fault")
    /\ \/ Step(f, "connect", "refresh") /\ UNCHANGED err
       \/ Raise(f, "again", "downloadError", "transient")
    /\ UNCHANGED <<state, disk, unlaned>>

\* _refresh_item: the same identity, the same file under a new one, or nothing.
RefreshLink(f) ==
    /\ \/ source[f] = "listed" /\ Step(f, "refresh", "again")
          /\ UpsertRemote(f) /\ UNCHANGED err
       \/ /\ source[f] # "listed" /\ f \in DOMAIN Successor
          /\ source[Successor[f]] = "listed"
          /\ Raise(f, "refresh", "downloadError", "renamed")
          /\ UpsertRemotes(Successor[f])
       \/ /\ source[f] # "listed"
          /\ ~(f \in DOMAIN Successor /\ source[Successor[f]] = "listed")
          /\ Raise(f, "refresh", "downloadError", "missing")
          /\ UNCHANGED state
    /\ UNCHANGED <<disk, left, unlaned>>

\* os.replace(partial, destination) after size and CRC64 agreed; it fails when
\* the partial file has been unlinked meanwhile.
FinishStream(f) ==
    /\ \/ /\ local[f] = "part"
          /\ Step(f, "stream", "fetched") \/ Step(f, "streamAgain", "fetched")
          /\ local' = [local EXCEPT ![f] = "full"] /\ UNCHANGED err
       \/ /\ local[f] = "none"
          /\ Raise(f, "stream", "downloadError", "transient")
             \/ Raise(f, "streamAgain", "downloadError", "transient")
          /\ UNCHANGED local
    /\ UNCHANGED <<state, oss, descr, left, unlaned>>

\* A partial file whose size or checksum is wrong is moved aside.
SetAside(f) ==
    \/ UNCHANGED local
    \/ local[f] = "part" /\ local' = [local EXCEPT ![f] = "none"]

\* A dropped connection is resumed from the partial file (DOWNLOAD_RETRY).
RetryStream(f) ==
    /\ Spend("fault")
    /\ Step(f, "stream", "connect") \/ Step(f, "streamAgain", "again")
    /\ SetAside(f)
    /\ UNCHANGED <<state, oss, descr, err, unlaned>>

\* Retries used up, a listing error, a denial after the refresh, a database error.
DownloadFails(f) ==
    /\ pc[f] \in {"fetch"} \cup Downloading /\ Spend("fault")
    /\ \E c \in {"transient"} \cup (IF pc[f] \in {"refresh", "again"} THEN {"systemic"} ELSE {}) :
          Raise(f, pc[f], "downloadError", c)
    /\ IF pc[f] \in {"connect", "again", "stream", "streamAgain"} THEN SetAside(f)
                                                                ELSE UNCHANGED local
    /\ UNCHANGED <<state, oss, descr, unlaned>>

EndDownload(f) ==
    /\ Step(f, "fetched", "ready")
    /\ SetFileState(f, "downloaded")
    /\ UNCHANGED <<disk, err, left, unlaned>>

BeginParsing(f) ==
    /\ Step(f, "parse", "archive")
    /\ SetFileState(f, "parsing")
    /\ UNCHANGED <<disk, err, left, unlaned>>

\* Mutants of PutRaw: the row is written before the index is in the object store;
\* the local copy is given away with the upload.
PutRawThenRow(f) ==
    /\ f \notin descr /\ local[f] = "full"
    /\ Step(f, "archive", "row")
    /\ oss' = [oss EXCEPT ![f] = @ \cup {"raw"}]
    /\ UNCHANGED <<state, local, descr, err, left, unlaned>>
PutRawMoves(f) ==
    /\ f \notin descr /\ local[f] = "full"
    /\ Step(f, "archive", "index")
    /\ oss' = [oss EXCEPT ![f] = @ \cup {"raw"}]
    /\ local' = [local EXCEPT ![f] = "none"]
    /\ UNCHANGED <<state, descr, err, left, unlaned>>

\* The original's bytes go to the object store and are verified there.  A file
\* archived by an earlier run is only verified.
PutRaw(f) ==
    /\ \/ /\ f \in descr
          /\ Step(f, "archive", "mark") /\ UNCHANGED <<oss, err>>
       \/ /\ f \notin descr /\ local[f] = "full"
          /\ Step(f, "archive", "index") /\ UNCHANGED err
          /\ oss' = [oss EXCEPT ![f] = @ \cup {"raw"}]
       \/ /\ f \notin descr /\ local[f] # "full"
          /\ Raise(f, "archive", "archiveError", "archive") /\ UNCHANGED oss
    /\ UNCHANGED <<state, local, descr, left, unlaned>>

PutIndex(f) ==
    /\ Step(f, "index", "row")
    /\ oss' = [oss EXCEPT ![f] = @ \cup {"index"}]
    /\ UNCHANGED <<state, local, descr, err, left, unlaned>>

\* INSERT INTO raw_binlog_archives ... ON CONFLICT DO NOTHING
CommitRow(f) ==
    /\ Step(f, "row", "mark")
    /\ descr' = descr \cup {f}
    /\ UNCHANGED <<state, local, oss, err, left, unlaned>>

MarkStored(f) ==
    /\ Step(f, "mark", "verify")
    /\ SetFileState(f, "stored")
    /\ UNCHANGED <<disk, err, left, unlaned>>

\* _finish_stored_file: both objects are checked again before anything is unlinked.
VerifyStored(f) ==
    /\ f \in descr /\ oss[f] = {"raw", "index"}
    /\ Step(f, "verify", "unlink")
    /\ UNCHANGED <<state, disk, err, left, unlaned>>

UnlinkOriginal(f) ==
    /\ Step(f, "unlink", "finish")
    /\ local' = [local EXCEPT ![f] = "none"]
    /\ UNCHANGED <<state, oss, descr, err, left, unlaned>>

\* Mutant of MarkDone: a state no other statement knows.
MarkDoneArchived(f) ==
    /\ Step(f, "finish", "success")
    /\ SetFileState(f, "archived")
    /\ UNCHANGED <<disk, err, left, unlaned>>

MarkDone(f) ==
    /\ Step(f, "finish", "success")
    /\ SetFileState(f, "done")
    /\ UNCHANGED <<disk, err, left, unlaned>>

\* An upload, verification or database error; denials are systemic.
ArchiveFails(f) ==
    /\ pc[f] \in Archiving /\ Spend("fault")
    /\ \E c \in {"archive"} \cup (IF pc[f] \in {"archive", "index", "verify"} THEN {"systemic"} ELSE {}) :
          Raise(f, pc[f], "archiveError", c)
    /\ UNCHANGED <<state, disk, unlaned>>

Download(f) == BeginDownload(f) \/ VerifyExisting(f) \/ OpenStream(f) \/ LinkRefused(f)
               \/ RefreshLink(f) \/ FinishStream(f) \/ EndDownload(f)
Archive(f)  == BeginParsing(f) \/ PutRaw(f) \/ PutIndex(f) \/ CommitRow(f) \/ MarkStored(f)
               \/ VerifyStored(f) \/ UnlinkOriginal(f) \/ MarkDone(f)
LaneFault(f) == DiscardCorrupt(f) \/ RetryStream(f) \/ DownloadFails(f) \/ ArchiveFails(f)

(***************************************************************************)
(* The scheduler thread's sweeps, each read and write a step of its own.    *)
(***************************************************************************)
unswept == <<remote, lanes, job, control, queue, scanned>>
\* Mutant of Expirable: a file left in the middle of a download is not settled.
ExpirableIdle == {"discovered", "failed", "downloaded"}

Expirable == {"discovered", "failed", "downloading", "downloaded"}

\* expired_source_candidates, with has_raw
SettleRead ==
    /\ settle.at = "idle" /\ sweep = {}
    /\ \E f \in Files : state[f] \in Expirable /\ age[f] = 2 /\ f \notin descr
    /\ settle' = [at |-> "stat",
                  files |-> {f \in Files : state[f] \in Expirable /\ age[f] = 2 /\ f \notin descr}]
    /\ UNCHANGED <<state, disk, sweep, left, unswept>>

\* files with a local copy are left to finish
SettleStat ==
    /\ settle.at = "stat"
    /\ settle' = [at |-> "mark", files |-> {f \in settle.files : local[f] = "none"}]
    /\ UNCHANGED <<state, disk, sweep, left, unswept>>

SettleMark ==
    /\ settle.at = "mark"
    /\ MarkFilesState(settle.files, "unavailable", Expirable)
    /\ settle' = [at |-> "idle", files |-> {}]
    /\ UNCHANGED <<disk, sweep, left, unswept>>

\* A file of the download directory older than ORPHAN_KEEP_SECONDS whose row is
\* settled or missing.  Six hours outlast a lane, the 60 seconds between two
\* refreshes of the queue and an expiry sweep (which runs on the same thread).
SweepRead(f) ==
    /\ sweep = {} /\ settle.at = "idle"
    /\ local[f] # "none" /\ pc[f] = "none" /\ f \notin entries
    /\ state[f] \in Settled \cup {"absent"}
    /\ sweep' = {<<f, local[f]>>}
    /\ UNCHANGED <<state, disk, settle, left, unswept>>

SweepUnlink(f) ==
    /\ \E kind \in {"part", "full"} :
          /\ sweep = {<<f, kind>>}
          /\ local' = [local EXCEPT ![f] = IF @ = kind THEN "none" ELSE @]
    /\ sweep' = {}
    /\ UNCHANGED <<state, oss, descr, settle, left, unswept>>

Settle == SettleRead \/ SettleStat \/ SettleMark
Sweep  == \E f \in Files : SweepRead(f) \/ SweepUnlink(f)

(***************************************************************************)
(* A crash keeps the catalog, the directory and the object store; the next  *)
(* start reconciles the job row (reconcile_interrupted_jobs).               *)
(***************************************************************************)
Crash ==
    /\ Spend("crash")
    /\ pc' = [f \in Files |-> "none"] /\ err' = [f \in Files |-> "none"]
    /\ job' = "idle" /\ stop' = "no" /\ lost' = FALSE /\ leftover' = {}
    /\ result' = IF result = "running" THEN "paused" ELSE result
    /\ entries' = {} /\ retired' = {} /\ fails' = 0 /\ scanned' = {}
    /\ backoff' = [f \in Files |-> "none"]
    /\ settle' = [at |-> "idle", files |-> {}] /\ sweep' = {}
    /\ UNCHANGED <<state, remote, disk>>

Next ==
    \/ Environment \/ JobThread \/ Settle \/ Sweep \/ Crash
    \/ \E f \in Files : Ingest(f) \/ Download(f) \/ Archive(f) \/ LaneFault(f) \/ BackoffElapses(f)

Spec == Init /\ [][Next]_vars

-----------------------------------------------------------------------------
(***************************************************************************)
(* Properties.                                                              *)
(***************************************************************************)
TypeOK ==
    /\ state \in [Files -> Rows]
    /\ source \in [Files -> {"listed", "hidden", "gone"}]
    /\ age \in [Files -> 0..2]
    /\ role \in [Files -> {"primary", "former", "covered"}]
    /\ local \in [Files -> {"none", "part", "full"}]
    /\ oss \in [Files -> SUBSET {"raw", "index"}]
    /\ descr \subseteq Files
    /\ pc \in [Files -> Lanes] /\ err \in [Files -> Codes]
    /\ job \in Jobs /\ stop \in {"no", "pause", "abort"}
    /\ result \in {"none", "running", "success", "warning", "paused", "stalled", "failed"}
    /\ entries \subseteq Files /\ retired \subseteq Files
    /\ backoff \in [Files -> {"none", "wait", "due"}] /\ fails \in 0..Breaker
    /\ scanned \subseteq Files /\ lost \in BOOLEAN /\ leftover \subseteq Files
    /\ settle \in [at : {"idle", "stat", "mark"}, files : SUBSET Files]
    /\ sweep \in SUBSET (Files \X {"part", "full"})
    /\ left \in [Events -> Nat]

\* "Crash before commit is an idempotent retry, not a completed file"
\* (raw_binlog.py): whatever was interrupted, a row that says stored or done has
\* its archive row, and an archive row has both verified objects.
Archived(f) == f \in descr /\ oss[f] = {"raw", "index"}
DoneIsArchived == \A f \in Files :
    /\ state[f] \in {"stored", "done"} => f \in descr
    /\ f \in descr => Archived(f)

\* The verified local copy of an original is unlinked only when its archive is
\* complete, or by the sweep that had found its row settled.
OriginalHeldUntilArchived == [][\A f \in Files :
    local[f] = "full" /\ local'[f] = "none" =>
        \/ Archived(f)
        \/ <<f, "full">> \in sweep
        \/ pc[f] \in {"connect", "again"}]_vars

\* A collected file, or one whose identity the source replaced, is never
\* reopened: not by a stale queue entry, a listing, a sweep or a late lane.
FinalStaysFinal == [][\A f \in Files :
    state[f] \in {"done", "superseded"} => state'[f] = state[f]]_vars

\* A file is written off as lost only after the source retention has passed
\* ("a file RDS no longer lists is deleted, not delayed").
LostOnlyWhenExpired == [][\A f \in Files :
    state[f] # "unavailable" /\ state'[f] = "unavailable" => age[f] > 0]_vars

\* The archive of a file is never reported on a job row that is already final:
\* a stop takes effect at a file boundary, an error after its lanes have ended.
StopsAtFileBoundary ==
    result # "running" => \A f \in Files : pc[f] \notin Processing

\* No more files in flight than the admission limit, no more archives running
\* than workers; a file in a lane is not also waiting for one.
LanesBounded ==
    /\ Cardinality(Admitted) <= MaxLanes
    /\ Cardinality(Busy) <= Workers
    /\ entries \cap Admitted = {}

\* What all of the above amounts to: every step of the program is a step of the
\* ledger or leaves it alone, whatever order threads, crashes and faults take.
Entry(s) ==
    CASE s = "absent"      -> "unknown"
      [] s = "done"        -> "collected"
      [] s = "superseded"  -> "replaced"
      [] s = "unavailable" -> "missing"
      [] s = "skipped"     -> "skipped"
      [] OTHER             -> "open"

Ledger == INSTANCE BinlogLedger WITH
    ledger <- [f \in Files |-> Entry(state[f])],
    durable <- descr,
    expired <- {f \in Files : age[f] > 0}

ImplementsLedger == Ledger!Spec

\* The scheduler keeps starting jobs and sweeping, the job thread, the executors
\* and the discovery threads keep running (the watchdog restarts them otherwise),
\* time passes, and the source lists again what it still holds.
Fairness ==
    /\ WF_vars(StartJob) /\ WF_vars(CheckStop) /\ WF_vars(Relist) /\ WF_vars(Confirm)
    /\ WF_vars(CloseJob) /\ WF_vars(RefreshEntries) /\ WF_vars(RoundEnds)
    /\ WF_vars(StopRound) /\ WF_vars(JobExits) /\ WF_vars(Settle)
    /\ \A f \in Files :
          /\ WF_vars(List(f)) /\ WF_vars(source[f] = "gone" /\ Expire(f)) /\ WF_vars(Ingest(f)) /\ WF_vars(BackoffElapses(f))
          /\ WF_vars(Admit(f)) /\ WF_vars(Submit(f)) /\ WF_vars(Retire(f)) /\ WF_vars(FileFailed(f))
          /\ WF_vars(Download(f)) /\ WF_vars(Archive(f)) /\ WF_vars(SweepUnlink(f))

FairSpec == Spec /\ Fairness

\* No registered file stays behind for good, whatever failed, stopped or crashed
\* on the way: its original reaches the object store or its row is settled.
EventuallySecured == \A f \in Files :
    state[f] # "absent" ~> state[f] \in Settled \/ f \in descr \/ role[f] = "covered"

\* A file the source keeps listing within its retention is collected in the end,
\* also one that was marked unavailable while it was not listed.
ListedIsCollected == \A f \in Files :
    <>[](source[f] = "listed" /\ age[f] < 2 /\ role[f] = "primary") => <>[](state[f] = "done")

\* "success requires finishing the retained scan AND draining the cached pending
\* files AND checking the live frontier again" (sync_discovery.py): when a job that
\* was not asked to stop records success, every file of its host that the source
\* still keeps and that was unfinished when it concluded it had caught up has
\* failed before and waits for its retry.
SuccessIsDrained ==
    result = "success" /\ stop = "no" => \A f \in leftover : backoff[f] # "none"
=============================================================================
