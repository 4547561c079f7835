------------------------------ MODULE QueryTasks ------------------------------
(***************************************************************************)
(* Query tasks of the GUI (app/query_tasks.py): a row of table query_tasks  *)
(* per task, a thread of a bounded executor that runs it, the control       *)
(* object through which it is cancelled, and the file of its result.        *)
(*                                                                          *)
(* Every statement on the table and every file operation is one step.  The  *)
(* query itself is one step too: what matters here is how it ends.          *)
(***************************************************************************)
EXTENDS Naturals, FiniteSets, Sequences

CONSTANTS
    Tasks,       \* task ids
    MaxWorkers,  \* threads of the executor (RDS_BINLOG_QUERY_TASK_WORKERS)
    Keep,        \* finished rows that are kept (100)
    MaxFaults,   \* bound: failed statements on the table
    MaxCrashes   \* bound: crashes and restarts of the service

ASSUME TaskAssumption ==
    /\ MaxWorkers \in Nat \ {0} /\ Keep \in Nat \ {0} /\ {MaxFaults, MaxCrashes} \subseteq Nat

VARIABLES
    row,      \* status of the row; "none": not submitted, "pruned": deleted
    created,  \* the tasks in the order of created_at, pruned ones included
    result,   \* tasks whose row names a result (result_path)
    files,    \* results in the directory query-results
    pc,       \* where the task's thread is; "none" when there is no thread
    doomed,   \* results whose rows the thread has pruned and that it will unlink
    controls, \* _controls: tasks with a control object
    stopped,  \* tasks whose control has its event set
    signals,  \* cancel requests recorded in the row but not yet in the control
    up,       \* "up", "closing" (shutdown called) or "down"
    left      \* remaining budget of environment events

vars == <<row, created, result, files, pc, doomed, controls, stopped, signals, up, left>>
table  == <<row, created, result>>
memory == <<controls, stopped, signals, up>>

Active   == {"queued", "running", "cancelling"}
Terminal == {"succeeded", "failed", "cancelled"}
Places   == {"none", "queued", "work", "write", "recheck", "discard", "publish", "cancel", "fail",
             "prune", "unlink", "pop"}
Running  == {t \in Tasks : pc[t] \notin {"none", "queued"}}

Spend(e) == left[e] > 0 /\ left' = [left EXCEPT ![e] = @ - 1]
Goto(t, from, to) == pc[t] = from /\ pc' = [pc EXCEPT ![t] = to]
SetRow(t, status) == row' = [row EXCEPT ![t] = status]

Init ==
    /\ row = [t \in Tasks |-> "none"] /\ created = <<>> /\ result = {} /\ files = {}
    /\ pc = [t \in Tasks |-> "none"] /\ doomed = [t \in Tasks |-> {}]
    /\ controls = {} /\ stopped = {} /\ signals = {} /\ up = "up"
    /\ left = [fault |-> MaxFaults, crash |-> MaxCrashes]

(***************************************************************************)
(* submit and cancel, called by the HTTP handlers.                          *)
(***************************************************************************)
\* An indexed-only query is refused (QueryBusy) while no slot is free.
SlotFree == Cardinality(controls) < MaxWorkers

Submit(t, indexedOnly) ==
    /\ up = "up" /\ row[t] = "none"
    /\ indexedOnly => SlotFree
    /\ SetRow(t, "queued") /\ created' = Append(created, t)
    /\ controls' = controls \cup {t}
    /\ pc' = [pc EXCEPT ![t] = "queued"]
    /\ UNCHANGED <<result, files, doomed, stopped, signals, up, left>>

\* request_query_task_cancel: a queued row is cancelled at once, a running one
\* is marked, a finished one is left alone.  Once shutdown has begun only its own
\* loop over the control objects calls it.
RequestCancel(t) ==
    /\ up = "up" \/ (up = "closing" /\ t \in controls \ stopped)
    /\ row[t] \notin {"none", "pruned"} /\ t \notin signals
    /\ SetRow(t, CASE row[t] = "queued" -> "cancelled"
                   [] row[t] \in {"running", "cancelling"} -> "cancelling"
                   [] OTHER -> row[t])
    /\ signals' = signals \cup {t}
    /\ UNCHANGED <<created, result, files, pc, doomed, controls, stopped, up, left>>

\* ... and then, outside that transaction: control.cancel() and future.cancel(),
\* which takes a thread that has not begun off the executor's queue.
SignalCancel(t) ==
    /\ t \in signals /\ signals' = signals \ {t}
    /\ stopped' = stopped \cup ({t} \cap controls)
    /\ pc' = [pc EXCEPT ![t] = IF @ = "queued" THEN "none" ELSE @]
    /\ UNCHANGED <<table, files, doomed, controls, up, left>>

(***************************************************************************)
(* _run, the thread of a task.                                              *)
(***************************************************************************)
\* Mutant of BeginTask: start_query_task without its WHERE status = 'queued'.
BeginTaskAnyway(t) ==
    /\ Cardinality(Running) < MaxWorkers
    /\ Goto(t, "queued", "work") /\ SetRow(t, "running")
    /\ UNCHANGED <<created, result, files, doomed, memory, left>>

\* start_query_task: only a row that is still queued starts.
BeginTask(t) ==
    /\ Cardinality(Running) < MaxWorkers
    /\ IF row[t] = "queued" THEN Goto(t, "queued", "work") /\ SetRow(t, "running")
                            ELSE Goto(t, "queued", "prune") /\ UNCHANGED row
    /\ UNCHANGED <<created, result, files, doomed, memory, left>>

\* The query ends with a result, an error or a passed deadline, or with
\* QueryCancelled; it cannot end with a result once the event is set.
Query(t) ==
    /\ \/ t \notin stopped /\ Goto(t, "work", "write")
       \/ t \in stopped /\ Goto(t, "work", "cancel")
       \/ Goto(t, "work", "fail")
    /\ UNCHANGED <<table, files, doomed, memory, left>>

WriteResult(t) ==
    /\ Goto(t, "write", "recheck") /\ files' = files \cup {t}
    /\ UNCHANGED <<table, doomed, memory, left>>

Recheck(t) ==
    /\ \/ t \notin stopped /\ Goto(t, "recheck", "publish")
       \/ Goto(t, "recheck", "discard")
    /\ UNCHANGED <<table, files, doomed, memory, left>>

DiscardResult(t) ==
    /\ Goto(t, "discard", IF t \in stopped THEN "cancel" ELSE "fail")
    /\ files' = files \ {t}
    /\ UNCHANGED <<table, doomed, memory, left>>

\* Mutant of Publish: the row names the result before the file is complete.
PublishEarly(t) ==
    /\ pc[t] \in {"write", "publish"} /\ pc' = [pc EXCEPT ![t] = "prune"]
    /\ SetRow(t, "succeeded") /\ result' = result \cup {t}
    /\ UNCHANGED <<created, files, doomed, memory, left>>

\* finish_query_task
Publish(t) ==
    /\ Goto(t, "publish", "prune")
    /\ SetRow(t, "succeeded") /\ result' = result \cup {t}
    /\ UNCHANGED <<created, files, doomed, memory, left>>

EndAs(t, place, status) ==
    /\ Goto(t, place, "prune") /\ SetRow(t, status)
    /\ UNCHANGED <<created, result, files, doomed, memory, left>>

\* The statement that ends the row fails: success is recorded as failure instead,
\* any other row keeps the status it has.
EndFails(t) ==
    /\ Spend("fault")
    /\ \/ Goto(t, "publish", "fail")
       \/ Goto(t, "cancel", "prune") \/ Goto(t, "fail", "prune")
    /\ UNCHANGED <<table, files, doomed, memory>>

\* prune_query_tasks: the finished rows beyond the newest Keep.
Newer(t) == {u \in Tasks :
    \E i, j \in DOMAIN created : i < j /\ created[i] = t /\ created[j] = u}
Surplus == {t \in Tasks :
    row[t] \in Terminal /\ Cardinality({u \in Newer(t) : row[u] \in Terminal}) >= Keep}

Prune(t, old) ==
    /\ Goto(t, "prune", "unlink")
    /\ row' = [u \in Tasks |-> IF u \in old THEN "pruned" ELSE row[u]]
    /\ result' = result \ old
    /\ doomed' = [doomed EXCEPT ![t] = old \cap result]
    /\ UNCHANGED <<created, files, memory, left>>

PruneRows(t) == Prune(t, Surplus)

\* The prune is the first statement of the `finally': when it fails, the control
\* object stays behind.
PruneFails(t) ==
    /\ Spend("fault") /\ Goto(t, "prune", "none")
    /\ UNCHANGED <<table, files, doomed, memory>>

UnlinkPruned(t) ==
    /\ Goto(t, "unlink", "pop")
    /\ files' = files \ doomed[t] /\ doomed' = [doomed EXCEPT ![t] = {}]
    /\ UNCHANGED <<table, memory, left>>

\* Mutant of PopControl: the control goes, its event is kept for a task of that name.
PopControlKeepsEvent(t) ==
    /\ Goto(t, "pop", "none")
    /\ controls' = controls \ {t}
    /\ UNCHANGED <<table, files, doomed, stopped, signals, up, left>>

PopControl(t) ==
    /\ Goto(t, "pop", "none")
    /\ controls' = controls \ {t} /\ stopped' = stopped \ {t}
    /\ UNCHANGED <<table, files, doomed, signals, up, left>>

Run(t) ==
    \/ BeginTask(t) \/ Query(t) \/ WriteResult(t) \/ Recheck(t) \/ DiscardResult(t)
    \/ Publish(t) \/ EndAs(t, "cancel", "cancelled") \/ EndAs(t, "fail", "failed")
    \/ PruneRows(t) \/ UnlinkPruned(t) \/ PopControl(t)

(***************************************************************************)
(* Shutdown, crash and restart.                                             *)
(***************************************************************************)
\* shutdown: no more submissions; every control's task is cancelled in turn --
\* or the loop ends at the first whose row has been pruned (KeyError).
Close ==
    /\ up = "up" /\ Spend("crash") /\ up' = "closing"
    /\ UNCHANGED <<table, files, pc, doomed, controls, stopped, signals>>

\* executor.shutdown(wait=True, cancel_futures=True) and the end of the process,
\* once every control has been told.
Exit ==
    /\ up = "closing" /\ signals = {} /\ Running = {}
    /\ controls \subseteq stopped \/ \E t \in controls : row[t] = "pruned"
    /\ up' = "down"
    /\ pc' = [t \in Tasks |-> "none"] /\ doomed' = [t \in Tasks |-> {}]
    /\ controls' = {} /\ stopped' = {} /\ signals' = {}
    /\ UNCHANGED <<table, files, left>>

Crash ==
    /\ up # "down" /\ Spend("crash") /\ up' = "down"
    /\ pc' = [t \in Tasks |-> "none"] /\ doomed' = [t \in Tasks |-> {}]
    /\ controls' = {} /\ stopped' = {} /\ signals' = {}
    /\ UNCHANGED <<table, files>>

\* Mutant of Restart: only rows that were running are reconciled.
RestartRunningOnly ==
    /\ up = "down" /\ up' = "up"
    /\ row' = [t \in Tasks |-> IF row[t] = "running" THEN "cancelled" ELSE row[t]]
    /\ UNCHANGED <<created, result, files, pc, doomed, controls, stopped, signals, left>>

\* __init__: reconcile_interrupted_query_tasks (the prune that follows it is the
\* one every thread ends with).
Restart ==
    /\ up = "down" /\ up' = "up"
    /\ row' = [t \in Tasks |-> IF row[t] \in Active THEN "cancelled" ELSE row[t]]
    /\ UNCHANGED <<created, result, files, pc, doomed, controls, stopped, signals, left>>

Next ==
    \/ \E t \in Tasks : \/ RequestCancel(t) \/ SignalCancel(t) \/ Run(t) \/ EndFails(t) \/ PruneFails(t)
                        \/ \E indexedOnly \in BOOLEAN : Submit(t, indexedOnly)
    \/ Close \/ Exit \/ Crash \/ Restart

Spec == Init /\ [][Next]_vars

\* A thread of the executor takes its next step; a query ends (an indexed one has a
\* deadline, a scan reads a bounded number of files); a cancel request that was
\* recorded is signalled by the same call; shutdown runs to its end, and the
\* supervisor starts the service again.
Fairness ==
    /\ \A t \in Tasks : WF_vars(Run(t)) /\ WF_vars(SignalCancel(t))
    /\ \A t \in Tasks : WF_vars(up = "closing" /\ RequestCancel(t))
    /\ WF_vars(Exit) /\ WF_vars(Restart)

FairSpec == Spec /\ Fairness

(***************************************************************************)
(* Properties.                                                              *)
(***************************************************************************)
TypeOK ==
    /\ row \in [Tasks -> Active \cup Terminal \cup {"none", "pruned"}]
    /\ created \in Seq(Tasks)
    /\ result \subseteq Tasks /\ files \subseteq Tasks
    /\ pc \in [Tasks -> Places] /\ doomed \in [Tasks -> SUBSET Tasks]
    /\ controls \subseteq Tasks /\ stopped \subseteq controls /\ signals \subseteq Tasks
    /\ up \in {"up", "closing", "down"}
    /\ left \in [{"fault", "crash"} -> Nat]

\* A result that a task's row names can be read: no cancel, pruning or crash at any
\* point of _run leaves a row that names a file that is not there.
PublishedHasResult == result \subseteq files

\* A task that was reported as ended stays so: a cancelled task is not run later by
\* the thread that was queued for it, and no late thread overwrites the outcome.
FinalTaskStays ==
    [][\A t \in Tasks : row[t] \in Terminal => row'[t] \in {row[t], "pruned"}]_vars

\* While the service is up, a row that says a task is queued or running has a thread
\* that will end it, unless the statement that should have ended it failed; README:
\* a restart leaves no false "running" behind.
NoFalseRunning == up = "up" /\ left.fault = MaxFaults =>
    \A t \in Tasks : row[t] \in Active => pc[t] \notin {"none", "prune", "unlink", "pop"}

\* Every submitted task is eventually reported as ended, whatever is cancelled and
\* whenever the service crashes -- after a failed statement, by the next start.
SubmittedEnds == \A t \in Tasks :
    row[t] \in Active ~> row[t] \notin Active \/ (left.fault < MaxFaults /\ up = "up")
=============================================================================
