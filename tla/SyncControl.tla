----------------------------- MODULE SyncControl -----------------------------
(***************************************************************************)
(* What starts, pauses, aborts and restarts the collector of one instance:  *)
(* SyncManager.start, request_pause and the scheduler loop (app/pipeline.py), *)
(* the durable PauseControl (app/sync_lifecycle.py), the watchdog thread     *)
(* (app/sync_watchdog.py), the start of the service (app/server.py) and its  *)
(* supervisor (app/service_supervisor.py).                                  *)
(*                                                                          *)
(* What one `with self._state_lock' block does is one step; what a thread    *)
(* has read before such a block and uses after it is kept in a variable of   *)
(* that thread.  The job itself is RawCollector's job thread, seen from here *)
(* by its progress and its end only.                                        *)
(***************************************************************************)
EXTENDS Naturals

CONSTANTS
    MaxOrders,   \* bound: operator requests (pause, change of autoSync)
    MaxStalls,   \* bound: times a job stops making progress
    MaxHangs,    \* bound: job threads stuck where Python cannot interrupt them
    MaxFreezes,  \* bound: scheduler threads stuck in the same way
    MaxFaults,   \* bound: errors of one round of the scheduler (disk, credentials)
    MaxCrashes   \* bound: crashes of the service process

ASSUME BoundsAssumption ==
    {MaxOrders, MaxStalls, MaxHangs, MaxFreezes, MaxFaults, MaxCrashes} \subseteq Nat

VARIABLES
    mode,     \* PauseControl, on disk: "none", "manual" or "maintenance"
    due,      \* the deadline of the maintenance pause has passed
    auto,     \* setting autoSync
    up,       \* service process: "down", "boot" (job rows not reconciled yet) or "up"
    flag,     \* event _pause_after_current
    abort,    \* event _abort
    grace,    \* the exit grace since the abort request has passed
    worker,   \* job thread: "none", "working", "stalled", "hung" or "ending"
    status,   \* status of the newest job row
    by,       \* who started that job: "none", "auto", "query" or "manual"
    sched,    \* scheduler thread: where it is and what it has read
    elapsed,  \* a poll interval has passed since _last_auto_start
    dog,      \* watchdog thread: "idle" or what it has decided: "abort", "exit"
    left      \* remaining budget of environment events

vars == <<mode, due, auto, up, flag, abort, grace, worker, status, by, sched, elapsed, dog, left>>
pause   == <<mode, due, flag>>
threads == <<sched, elapsed, dog>>
job     == <<worker, status, by>>

Spend(events) ==
    /\ \A e \in events : left[e] > 0
    /\ left' = [e \in DOMAIN left |-> IF e \in events THEN left[e] - 1 ELSE left[e]]
Running == worker # "none"
Waiting == [at |-> "wait", auto |-> FALSE, running |-> FALSE]

Init ==
    /\ mode = "none" /\ due = FALSE /\ auto \in BOOLEAN
    /\ up = "boot" /\ flag = FALSE /\ abort = FALSE /\ grace = FALSE
    /\ worker = "none" /\ status = "none" /\ by = "none"
    /\ sched = Waiting /\ elapsed = TRUE /\ dog = "idle"
    /\ left = [order |-> MaxOrders, stall |-> MaxStalls, hang |-> MaxHangs,
               freeze |-> MaxFreezes, fault |-> MaxFaults, crash |-> MaxCrashes]

(***************************************************************************)
(* SyncManager.start and request_pause.                                     *)
(***************************************************************************)
\* Mutant of MayStart: the reason is not looked at.
MayStartAnyReason(reason) == ~Running

\* Only a manual start may clear a pause.
MayStart(reason) ==
    /\ ~Running
    /\ reason = "manual" \/ (mode = "none" /\ ~flag)

ClearRequests ==
    /\ mode' = "none" /\ due' = FALSE /\ flag' = FALSE
    /\ abort' = FALSE /\ grace' = FALSE

Start(reason) ==
    /\ MayStart(reason) /\ ClearRequests
    /\ worker' = "working" /\ status' = "running" /\ by' = reason

\* create_job raises: the pause and the abort request have been cleared already.
StartFails(reason) == MayStart(reason) /\ ClearRequests /\ UNCHANGED job

\* The HTTP handler ("manual") and request_backfill_for_range ("query").
Request(reason) ==
    /\ up = "up"
    /\ \/ Start(reason) /\ Spend({"order"})
       \/ StartFails(reason) /\ Spend({"order", "fault"})
    /\ UNCHANGED <<auto, up, threads>>

\* Mutant of RequestPause: the file gets a mode that nothing reads.
RequestPauseTimed(timed) ==
    /\ up = "up" /\ Spend({"order"})
    /\ IF timed THEN auto ELSE Running
    /\ mode' = IF timed THEN "timed" ELSE "manual"
    /\ due' = FALSE /\ flag' = TRUE
    /\ UNCHANGED <<auto, up, abort, grace, job, threads>>

\* Without a deadline a pause is registered only for a running job; with one
\* it needs autoSync.
RequestPause(timed) ==
    /\ up = "up" /\ Spend({"order"})
    /\ IF timed THEN auto ELSE Running
    /\ mode' = IF timed THEN "maintenance" ELSE "manual"
    /\ due' = FALSE /\ flag' = TRUE
    /\ UNCHANGED <<auto, up, abort, grace, job, threads>>

SetAutoSync ==
    /\ up = "up" /\ Spend({"order"})
    /\ auto' = ~auto
    /\ UNCHANGED <<pause, up, abort, grace, job, threads>>

DeadlinePasses ==
    /\ mode = "maintenance" /\ ~due /\ due' = TRUE
    /\ UNCHANGED <<mode, flag, auto, up, abort, grace, job, threads, left>>

Operator == Request("manual") \/ Request("query") \/ SetAutoSync \/ \E timed \in BOOLEAN : RequestPause(timed)

(***************************************************************************)
(* The scheduler loop.                                                      *)
(***************************************************************************)
unscheduled == <<auto, up, dog, left>>

\* settings = self._settings(); retention cleanup and the sweeps follow.
ReadSettings ==
    /\ up # "down" /\ sched.at = "wait"
    /\ sched' = [sched EXCEPT !.at = "lock", !.auto = auto]
    /\ UNCHANGED <<pause, abort, grace, job, elapsed, unscheduled>>

\* Mutant of ReadControl: autoSync is tested before the deadline.
ReadControlAutoFirst ==
    /\ up # "down" /\ sched.at = "lock"
    /\ IF ~sched.auto
       THEN sched' = Waiting /\ UNCHANGED <<pause, elapsed>>
       ELSE /\ IF mode = "maintenance" /\ due
               THEN mode' = "none" /\ due' = FALSE /\ flag' = FALSE /\ elapsed' = TRUE
               ELSE UNCHANGED <<pause, elapsed>>
            /\ sched' = IF flag' THEN Waiting ELSE [sched EXCEPT !.at = "decide", !.running = Running]
    /\ UNCHANGED <<abort, grace, job, unscheduled>>

\* with self._state_lock: expire the maintenance pause, read running and paused.
ReadControl ==
    /\ up # "down" /\ sched.at = "lock"
    /\ IF mode = "maintenance" /\ due
       THEN mode' = "none" /\ due' = FALSE /\ flag' = FALSE /\ elapsed' = TRUE
       ELSE UNCHANGED <<pause, elapsed>>
    /\ sched' = IF flag' \/ ~sched.auto THEN Waiting
                ELSE [sched EXCEPT !.at = "decide", !.running = Running]
    /\ UNCHANGED <<abort, grace, job, unscheduled>>

\* An aborted job that has ended is replaced at once, else one per interval.
Decide ==
    /\ up # "down" /\ sched.at = "decide"
    /\ IF ~sched.running /\ abort
       THEN abort' = FALSE /\ grace' = FALSE /\ elapsed' = TRUE
       ELSE UNCHANGED <<abort, grace, elapsed>>
    /\ sched' = IF elapsed' THEN [sched EXCEPT !.at = "start"] ELSE Waiting
    /\ UNCHANGED <<pause, job, unscheduled>>

AutoStart ==
    /\ up # "down" /\ sched.at = "start"
    /\ \/ Start("auto") /\ elapsed' = FALSE
       \/ Running /\ elapsed' \in {elapsed, FALSE} /\ UNCHANGED <<pause, abort, grace, job>>
       \/ ~Running /\ (mode # "none" \/ flag) /\ elapsed' = FALSE
          /\ UNCHANGED <<pause, abort, grace, job>>
    /\ sched' = Waiting
    /\ UNCHANGED unscheduled

\* The round ends with an exception; when that was start, its interval is spent.
RoundFails ==
    /\ up # "down" /\ Spend({"fault"})
    /\ \/ sched.at = "lock" /\ UNCHANGED <<elapsed, pause, abort, grace>>
       \/ sched.at = "start" /\ elapsed' = FALSE /\ UNCHANGED <<pause, abort, grace>>
       \/ sched.at = "start" /\ elapsed' = FALSE /\ mode = "none" /\ StartFails("auto")
    /\ sched' = Waiting
    /\ UNCHANGED <<job, auto, up, dog>>

IntervalPasses ==
    /\ up # "down" /\ ~elapsed /\ elapsed' = TRUE
    /\ UNCHANGED <<pause, abort, grace, job, sched, unscheduled>>

\* A disk or database call of the loop never returns.
SchedulerHangs ==
    /\ up # "down" /\ sched.at = "lock" /\ Spend({"freeze"})
    /\ sched' = [sched EXCEPT !.at = "hung"]
    /\ UNCHANGED <<pause, abort, grace, job, elapsed, auto, up, dog>>

Scheduler == ReadSettings \/ ReadControl \/ Decide \/ AutoStart \/ RoundFails

(***************************************************************************)
(* The job thread, seen from outside.                                       *)
(***************************************************************************)
unworked == <<pause, auto, up, abort, grace, by, threads>>

\* Mutant of StopAtBoundary: only the abort event is looked at.
StopAtBoundaryOfAbort ==
    /\ worker \in {"working", "stalled"} /\ abort
    /\ worker' = "ending" /\ status' = "failed"
    /\ UNCHANGED <<unworked, left>>

\* _stopping() at a file boundary, then _finish_stopped_job
StopAtBoundary ==
    /\ worker \in {"working", "stalled"} /\ (flag \/ abort)
    /\ worker' = "ending" /\ status' = IF abort THEN "failed" ELSE "paused"
    /\ UNCHANGED <<unworked, left>>

FinishJob ==
    /\ worker = "working"
    /\ worker' = "ending" /\ status' \in {"success", "warning", "failed"}
    /\ UNCHANGED <<unworked, left>>

\* The write that would end the job row fails: the row stays "running".
EndUnrecorded ==
    /\ worker \in {"working", "stalled"} /\ Spend({"fault"})
    /\ worker' = "none"
    /\ UNCHANGED <<status, unworked>>

ThreadEnds ==
    /\ worker = "ending" /\ worker' = "none"
    /\ UNCHANGED <<status, unworked, left>>

StopProgress ==
    /\ worker = "working"
    /\ \/ worker' = "stalled" /\ Spend({"stall"})
       \/ worker' = "hung" /\ Spend({"hang"})
    /\ UNCHANGED <<status, unworked>>

ResumeProgress ==
    /\ worker = "stalled" /\ worker' = "working"
    /\ UNCHANGED <<status, unworked, left>>

JobThread == StopAtBoundary \/ FinishJob \/ EndUnrecorded \/ ThreadEnds \/ StopProgress \/ ResumeProgress

(***************************************************************************)
(* The watchdog: watchdog_state() is read without the lock, acted on later.  *)
(***************************************************************************)
unwatched == <<pause, auto, job, sched, elapsed>>
NoProgress == worker \in {"stalled", "hung"}

\* Mutant of CheckJob: the exit after the grace is forgotten.
CheckJobOnlyAborts ==
    /\ up # "down" /\ dog = "idle" /\ NoProgress
    /\ ~abort /\ dog' = "abort"
    /\ UNCHANGED <<unwatched, up, abort, grace, left>>

CheckJob ==
    /\ up # "down" /\ dog = "idle" /\ NoProgress
    /\ \/ ~abort /\ dog' = "abort"
       \/ abort /\ grace /\ dog' = "exit"
    /\ UNCHANGED <<unwatched, up, abort, grace, left>>

\* Mutant of CheckScheduler: the scheduler is looked at only while a job runs.
CheckSchedulerOfJob ==
    /\ up # "down" /\ dog = "idle" /\ ~(NoProgress /\ (~abort \/ grace))
    /\ sched.at = "hung" /\ auto /\ ~flag /\ Running
    /\ dog' = "exit"
    /\ UNCHANGED <<unwatched, up, abort, grace, left>>

\* only while auto sync is on and not paused
CheckScheduler ==
    /\ up # "down" /\ dog = "idle" /\ ~(NoProgress /\ (~abort \/ grace))
    /\ sched.at = "hung" /\ auto /\ ~flag
    /\ dog' = "exit"
    /\ UNCHANGED <<unwatched, up, abort, grace, left>>

RequestAbort ==
    /\ dog = "abort" /\ dog' = "idle"
    /\ IF abort THEN UNCHANGED <<abort, grace>> ELSE abort' = TRUE /\ grace' = FALSE
    /\ UNCHANGED <<unwatched, up, left>>

GracePasses ==
    /\ abort /\ ~grace /\ grace' = TRUE
    /\ UNCHANGED <<unwatched, up, abort, dog, left>>

(***************************************************************************)
(* The process: it exits or crashes, the supervisor starts the next one.    *)
(***************************************************************************)
Down ==
    /\ up' = "down"
    /\ flag' = FALSE /\ abort' = FALSE /\ grace' = FALSE
    /\ worker' = "none" /\ sched' = Waiting /\ elapsed' = TRUE /\ dog' = "idle"
    /\ UNCHANGED <<mode, due, auto, status, by>>

Exit == dog = "exit" /\ Down /\ UNCHANGED left
Crash == up # "down" /\ Spend({"crash"}) /\ Down

\* Mutant of Boot: the pause file is not read.
BootForgetsPause ==
    /\ up = "down" /\ up' = "boot" /\ flag' = FALSE
    /\ UNCHANGED <<mode, due, auto, abort, grace, job, threads, left>>

\* SyncManager.__init__ reads the pause file and starts the scheduler ...
Boot ==
    /\ up = "down" /\ up' = "boot"
    /\ flag' = (mode # "none")
    /\ UNCHANGED <<mode, due, auto, abort, grace, job, threads, left>>

\* ... and reconcile_interrupted_jobs runs when all of Application is built.
Reconcile ==
    /\ up = "boot" /\ up' = "up"
    /\ status' = IF status = "running" THEN "paused" ELSE status
    /\ UNCHANGED <<pause, auto, abort, grace, worker, by, threads, left>>

Watchdog == CheckJob \/ CheckScheduler \/ RequestAbort \/ GracePasses
Process  == Exit \/ Crash \/ Boot \/ Reconcile

Next == Operator \/ DeadlinePasses \/ Scheduler \/ IntervalPasses \/ SchedulerHangs
        \/ JobThread \/ Watchdog \/ Process

Spec == Init /\ [][Next]_vars

-----------------------------------------------------------------------------
(***************************************************************************)
(* Properties.                                                              *)
(***************************************************************************)
TypeOK ==
    /\ mode \in {"none", "manual", "maintenance"} /\ due \in BOOLEAN /\ auto \in BOOLEAN
    /\ up \in {"down", "boot", "up"}
    /\ flag \in BOOLEAN /\ abort \in BOOLEAN /\ grace \in BOOLEAN
    /\ worker \in {"none", "working", "stalled", "hung", "ending"}
    /\ status \in {"none", "running", "success", "warning", "failed", "paused"}
    /\ by \in {"none", "auto", "query", "manual"}
    /\ sched \in [at : {"wait", "lock", "decide", "start", "hung"}, auto : BOOLEAN, running : BOOLEAN]
    /\ elapsed \in BOOLEAN /\ dog \in {"idle", "abort", "exit"}
    /\ left \in [{"order", "stall", "hang", "freeze", "fault", "crash"} -> Nat]

\* The event the job and the scheduler look at says what the pause file says, in
\* every order of requests, expiries, crashes and restarts.  The last moments of an
\* orderly stop count as the end of the process here: SyncManager.shutdown sets the
\* event and not the file, for threads that end with the process.
FlagMirrorsPause == up # "down" => (flag <=> mode # "none")

\* A pause ends by its own deadline or by a manual start (also one that then
\* fails), never because the scheduler or a query wants a job, or because the
\* service was restarted.
PauseEndsOnPurpose == [][mode # "none" /\ mode' = "none" =>
    \/ mode = "maintenance" /\ due
    \/ Request("manual")]_vars

\* Threads keep running unless stuck, the operating system kills and restarts,
\* time passes, and a job that is not stuck reaches its next file boundary.
Fairness ==
    /\ WF_vars(ReadSettings) /\ WF_vars(ReadControl) /\ WF_vars(Decide) /\ WF_vars(AutoStart)
    /\ WF_vars(IntervalPasses) /\ WF_vars(DeadlinePasses)
    /\ WF_vars(StopAtBoundary) /\ WF_vars(ThreadEnds)
    /\ WF_vars(CheckJob) /\ WF_vars(CheckScheduler) /\ WF_vars(RequestAbort) /\ WF_vars(GracePasses)
    /\ WF_vars(Exit) /\ WF_vars(Boot) /\ WF_vars(Reconcile)

FairSpec == Spec /\ Fairness

\* With autoSync on and no pause, jobs keep being started, whatever has stalled,
\* hung, failed or crashed before.
CollectionResumes == <>[](auto /\ mode = "none") => []<>(worker # "none")

\* A pause takes effect: the running job stops at its next file boundary, and one
\* that never reaches it is stopped with its process.
PauseStopsJob == mode # "none" ~> mode = "none" \/ worker = "none"

\* A job thread stuck for good does not keep its place.
StuckJobIsReplaced == worker = "hung" ~> worker # "hung"

\* A maintenance pause ends by itself, also over restarts, as long as the
\* scheduler is not stuck.
MaintenanceExpires == mode = "maintenance" ~> mode # "maintenance" \/ sched.at = "hung"
=============================================================================
