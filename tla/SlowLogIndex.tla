----------------------------- MODULE SlowLogIndex -----------------------------
(***************************************************************************)
(* The slow-log serving index.  The collector commits parts to the catalog  *)
(* and then queues them in the index, another SQLite database; a worker     *)
(* process builds the queued parts and sweeps the catalog for parts nobody  *)
(* queued; queries queue what they find missing; retention removes parts    *)
(* from the index and then from the catalog.  A statement may be in several *)
(* parts (a batch that was committed before its poll failed is read again), *)
(* and is answered from one of them, its canonical occurrence.              *)
(*                                                                          *)
(* One transaction of either database, or what is done under a part's body  *)
(* lock between two of them, is one step.                                   *)
(***************************************************************************)
EXTENDS Naturals, FiniteSets

CONSTANTS
    Paths,     \* paths of parts, in their order
    Events,    \* statements
    Holds,     \* the statements of each part
    PageSize,  \* SLOWLOG_RECONCILE_BATCH_SIZE
    Batch,     \* SLOWLOG_INDEX_BATCH_SIZE
    Budgets    \* bounds: lost queueings, failed builds, aged parts, crashes, repairs

ASSUME PathsAssumption == IsFiniteSet(Paths) /\ Paths \subseteq Nat \ {0}
ASSUME HoldsAssumption == IsFiniteSet(Events) /\ Holds \in [Paths -> SUBSET Events]
ASSUME SizesAssumption == {PageSize, Batch} \subseteq Nat \ {0}
ASSUME BudgetsAssumption == Budgets \subseteq [lose : Nat, fail : Nat, age : Nat, crash : Nat, repair : Nat]

VARIABLES
    part,      \* slow-log parts: not committed, in the catalog, there but aged, or gone
    fresh,     \* parts the collector has committed and not yet queued
    queue,     \* slowlog_queue: no entry, not tried yet, to be tried again now or later
    built,     \* slowlog_parts
    rows,      \* slowlog_events: pairs of a path and a statement
    canon,     \* those with is_canonical = 1
    count,     \* slowlog_counters
    sweep,     \* slowlog_reconcile_state
    worker,    \* the worker's loop
    job,       \* the builds of its batch
    body,      \* who holds a part's body lock
    repair,    \* a query that found parts missing
    left       \* remaining budgets

index == <<built, rows, canon, count>>
vars == <<part, fresh, queue, built, rows, canon, count, sweep, worker, job, body, repair, left>>

Spend(what) == left[what] > 0 /\ left' = [left EXCEPT ![what] = @ - 1]

Least(S) == CHOOSE p \in S : \A q \in S : p <= q
Greatest(S) == CHOOSE p \in S : \A q \in S : q <= p

\* The first n of a set of paths.
First(S, n) == {p \in S : Cardinality({q \in S : q < p}) < n}

Init ==
    /\ part = [p \in Paths |-> "new"] /\ fresh = {} /\ queue = [p \in Paths |-> "none"]
    /\ built = {} /\ rows = {} /\ canon = {} /\ count = [parts |-> 0, rows |-> 0, events |-> 0]
    /\ sweep = [after |-> 0, complete |-> FALSE]
    /\ worker = [at |-> "top", page |-> {}] /\ job = [p \in Paths |-> "none"]
    /\ body = [p \in Paths |-> "free"] /\ repair = {} /\ left \in Budgets

(***************************************************************************)
(* Transactions of the index.                                               *)
(***************************************************************************)
\* enqueue_parts: a part that is built needs no entry, and an entry keeps its retry.
Enqueued(S) ==
    [p \in Paths |-> CASE p \in S /\ p \in built -> "none"
                       [] p \in S /\ queue[p] = "none" -> "first"
                       [] OTHER -> queue[p]]

EventsOf(R) == {r[2] : r \in R}
PathsOf(R, e) == {p \in Paths : <<p, e>> \in R}
RowsOf(p) == {r \in rows : r[1] = p}

\* Mutant of Promoted: the occurrence that takes over is not chosen.
PromotedNone(R, C, gone) == C \ gone

\* The triggers on a deletion of rows: what lost its canonical occurrence gets the
\* least of the paths that remain.
Promoted(R, C, gone) ==
    (C \ gone) \cup {<<Least(PathsOf(R \ gone, e)), e>> : e \in EventsOf(C \cap gone) \cap EventsOf(R \ gone)}

\* build_part: all occurrences of the part's statements stand for election again.
Elected(R, C, p) ==
    {c \in C : c[2] \notin Holds[p]} \cup {<<Least(PathsOf(R, e)), e>> : e \in Holds[p]}

\* Mutant of Inserted: the statement is counted whether another part has it or not.
InsertedAll(R, p) == Cardinality(Holds[p])

\* The triggers that count statements.
Inserted(R, p) == Cardinality({e \in Holds[p] : PathsOf(R, e) \subseteq {p}})
Deleted(R, gone) == Cardinality(EventsOf(gone) \ EventsOf(R \ gone))

\* remove_path
RemovePath(p) ==
    /\ queue' = [queue EXCEPT ![p] = "none"]
    /\ rows' = rows \ RowsOf(p)
    /\ canon' = Promoted(rows, canon, RowsOf(p))
    /\ built' = built \ {p}
    /\ count' = [parts |-> count.parts - Cardinality(built \cap {p}),
                 rows |-> count.rows - Cardinality(IF p \in built THEN RowsOf(p) ELSE {}),
                 events |-> count.events - Deleted(rows, RowsOf(p))]

\* The transaction of build_part that replaces the rows of a part.
BuildPart(p) ==
    LET kept == rows \ RowsOf(p)
        new == {p} \X Holds[p]
    IN
    /\ rows' = kept \cup new
    /\ canon' = Elected(kept \cup new, Promoted(rows, canon, RowsOf(p)), p)
    /\ built' = built \cup {p}
    /\ count' = [parts |-> count.parts + Cardinality({p} \ built),
                 rows |-> count.rows + Cardinality(Holds[p]) - Cardinality(IF p \in built THEN RowsOf(p) ELSE {}),
                 events |-> count.events - Deleted(rows, RowsOf(p)) + Inserted(kept, p)]
    /\ queue' = [queue EXCEPT ![p] = "none"]

(***************************************************************************)
(* The collector and the queries.                                           *)
(***************************************************************************)
Listed == {p \in Paths : part[p] \in {"listed", "aged"}}

\* The batch's file is done and visible.
Publish(p) ==
    /\ part[p] = "new"
    /\ part' = [part EXCEPT ![p] = "listed"] /\ fresh' = fresh \cup {p}
    /\ UNCHANGED <<queue, index, sweep, worker, job, body, repair, left>>

QueueFresh(p) ==
    /\ p \in fresh
    /\ fresh' = fresh \ {p} /\ queue' = Enqueued({p})
    /\ UNCHANGED <<part, index, sweep, worker, job, body, repair, left>>

\* The index is locked for too long, or the process ends before it queues the part.
LoseFresh(p) ==
    /\ p \in fresh /\ Spend("lose")
    /\ fresh' = fresh \ {p}
    /\ UNCHANGED <<part, queue, index, sweep, worker, job, body, repair>>

\* _slowlog_coverage_with_repair: a query finds parts missing, and queues them.
Missing(S) == {p \in S : p \notin built /\ queue[p] = "none"}

FindMissing ==
    /\ repair = {} /\ Missing(Listed) # {} /\ Spend("repair")
    /\ repair' = Missing(Listed)
    /\ UNCHANGED <<part, fresh, queue, index, sweep, worker, job, body>>

QueueMissing ==
    /\ repair # {}
    /\ queue' = Enqueued(repair) /\ repair' = {}
    /\ UNCHANGED <<part, fresh, index, sweep, worker, job, body, left>>

(***************************************************************************)
(* The worker (_advance_slowlog_index, in a loop).                          *)
(***************************************************************************)
At(where, page) == worker' = [at |-> where, page |-> page]

\* Mutant of BeginSweep: the sweep goes on where the last one ended.
BeginSweepThere ==
    /\ worker.at = "top" /\ sweep.complete
    /\ sweep' = [sweep EXCEPT !.complete = FALSE]
    /\ UNCHANGED <<part, fresh, queue, index, worker, job, body, repair, left>>

\* A sweep that is complete begins again after a while.
BeginSweep ==
    /\ worker.at = "top" /\ sweep.complete
    /\ sweep' = [after |-> 0, complete |-> FALSE]
    /\ UNCHANGED <<part, fresh, queue, index, worker, job, body, repair, left>>

ReadSweep ==
    /\ worker.at = "top" /\ ~sweep.complete
    /\ At("sweep", First({p \in Listed : p > sweep.after}, PageSize))
    /\ UNCHANGED <<part, fresh, queue, index, sweep, job, body, repair, left>>

QueueSweep ==
    /\ worker.at = "sweep"
    /\ queue' = Enqueued(Missing(worker.page)) /\ At("advance", worker.page)
    /\ UNCHANGED <<part, fresh, index, sweep, job, body, repair, left>>

\* advance_reconcile
AdvanceSweep ==
    /\ worker.at = "advance"
    /\ sweep' = [after |-> IF worker.page = {} THEN sweep.after ELSE Greatest(worker.page),
                 complete |-> Cardinality(worker.page) < PageSize]
    /\ At("ready", {})
    /\ UNCHANGED <<part, fresh, queue, index, job, body, repair, left>>

Due == {p \in Paths : queue[p] \in {"first", "again"}}

\* No page is read in a round when the sweep is over, or while parts are due and the
\* last page was read a short time ago.
SkipSweep ==
    /\ worker.at = "top" /\ (sweep.complete \/ Due # {})
    /\ At("ready", {})
    /\ UNCHANGED <<part, fresh, queue, index, sweep, job, body, repair, left>>

\* ready_paths: retries first, then by age.
Before(p, q) ==
    \/ queue[p] = "again" /\ queue[q] = "first"
    \/ queue[p] = queue[q] /\ p < q

TakeBatch ==
    /\ worker.at = "ready"
    /\ At("check", {p \in Due : Cardinality({q \in Due : Before(q, p)}) < Batch})
    /\ UNCHANGED <<part, fresh, queue, index, sweep, job, body, repair, left>>

\* part_by_path of each: what is not in the catalog leaves the index.
CheckPath(p) ==
    /\ worker.at = "check" /\ p \in worker.page
    /\ At("check", worker.page \ {p})
    /\ \/ p \in Listed /\ job' = [job EXCEPT ![p] = "wait"] /\ UNCHANGED <<queue, index>>
       \/ p \notin Listed /\ RemovePath(p) /\ UNCHANGED job
    /\ UNCHANGED <<part, fresh, sweep, body, repair, left>>

StartBuilds ==
    /\ worker.at = "check" /\ worker.page = {} /\ At("build", {})
    /\ UNCHANGED <<part, fresh, queue, index, sweep, job, body, repair, left>>

\* Mutant of Current: the part is not looked up again under its lock.
CurrentNever(p) == p \in Paths

Current(p) == p \in Listed

\* ensure_slowlog_part, a thread for each part of the batch.
LockPart(p) ==
    /\ worker.at = "build" /\ job[p] = "wait" /\ body[p] = "free"
    /\ IF Current(p) THEN job' = [job EXCEPT ![p] = "read"] /\ body' = [body EXCEPT ![p] = "worker"]
                     ELSE job' = [job EXCEPT ![p] = "none"] /\ UNCHANGED body
    /\ UNCHANGED <<part, fresh, queue, index, sweep, worker, repair, left>>

\* Mutant of EndJob: the lock is kept.
EndJobLocked(p) == job' = [job EXCEPT ![p] = "none"] /\ UNCHANGED body

EndJob(p) == job' = [job EXCEPT ![p] = "none"] /\ body' = [body EXCEPT ![p] = "free"]

\* build_part: nothing is built that is not queued any more, or built already.
Build(p) ==
    /\ job[p] = "read"
    /\ \/ queue[p] = "none" /\ UNCHANGED <<queue, index>>
       \/ queue[p] # "none" /\ p \in built /\ queue' = [queue EXCEPT ![p] = "none"] /\ UNCHANGED index
       \/ queue[p] # "none" /\ p \notin built /\ BuildPart(p)
    /\ EndJob(p)
    /\ UNCHANGED <<part, fresh, sweep, worker, repair, left>>

\* record_failure queues the part again.
FailBuild(p) ==
    /\ job[p] = "read" /\ Spend("fail")
    /\ queue' = IF p \in built THEN Enqueued({p}) ELSE [queue EXCEPT ![p] = "later"]
    /\ EndJob(p)
    /\ UNCHANGED <<part, fresh, index, sweep, worker, repair>>

EndBatch ==
    /\ worker.at = "build" /\ \A p \in Paths : job[p] = "none"
    /\ At("top", {})
    /\ UNCHANGED <<part, fresh, queue, index, sweep, job, body, repair, left>>

RetryDue(p) ==
    /\ queue[p] = "later" /\ queue' = [queue EXCEPT ![p] = "again"]
    /\ UNCHANGED <<part, fresh, index, sweep, worker, job, body, repair, left>>

(***************************************************************************)
(* Retention (cleanup), under the part's body lock.                         *)
(***************************************************************************)
Age(p) ==
    /\ part[p] = "listed" /\ Spend("age")
    /\ part' = [part EXCEPT ![p] = "aged"]
    /\ UNCHANGED <<fresh, queue, index, sweep, worker, job, body, repair>>

LockAged(p) ==
    /\ part[p] = "aged" /\ body[p] = "free" /\ body' = [body EXCEPT ![p] = "sweeper"]
    /\ UNCHANGED <<part, fresh, queue, index, sweep, worker, job, repair, left>>

RemoveAged(p) ==
    /\ body[p] = "sweeper" /\ RemovePath(p) /\ body' = [body EXCEPT ![p] = "removed"]
    /\ UNCHANGED <<part, fresh, sweep, worker, job, repair, left>>

\* metadata.delete_part
DropAged(p) ==
    /\ body[p] = "removed"
    /\ part' = [part EXCEPT ![p] = "gone"] /\ body' = [body EXCEPT ![p] = "free"]
    /\ UNCHANGED <<fresh, queue, index, sweep, worker, job, repair, left>>

(***************************************************************************)
(* Crashes.                                                                 *)
(***************************************************************************)
Freed(holders) == [p \in Paths |-> IF body[p] \in holders THEN "free" ELSE body[p]]

\* The worker sweeps everything when it is started again.
CrashWorker ==
    /\ Spend("crash")
    /\ worker' = [at |-> "top", page |-> {}] /\ job' = [p \in Paths |-> "none"]
    /\ body' = Freed({"worker"}) /\ sweep' = [after |-> 0, complete |-> FALSE]
    /\ UNCHANGED <<part, fresh, queue, index, repair>>

\* The service: the collector, the queries and the retention.
CrashService ==
    /\ Spend("crash")
    /\ fresh' = {} /\ repair' = {} /\ body' = Freed({"sweeper", "removed"})
    /\ UNCHANGED <<part, queue, index, sweep, worker, job>>

Retention(p) == LockAged(p) \/ RemoveAged(p) \/ DropAged(p)

Round ==
    \/ QueueSweep \/ AdvanceSweep \/ TakeBatch \/ StartBuilds \/ EndBatch
    \/ \E p \in Paths : CheckPath(p)

Next ==
    \/ Round \/ BeginSweep \/ ReadSweep \/ SkipSweep \/ FindMissing \/ QueueMissing
    \/ CrashWorker \/ CrashService
    \/ \E p \in Paths :
         \/ Publish(p) \/ QueueFresh(p) \/ LoseFresh(p) \/ RetryDue(p) \/ Age(p)
         \/ LockPart(p) \/ Build(p) \/ FailBuild(p) \/ Retention(p)

Spec == Init /\ [][Next]_vars

\* Every round of the worker ends, a page of the sweep is read when its time has
\* come, and retention goes on with what it has begun.
FairSpec ==
    /\ Spec /\ WF_vars(Round) /\ SF_vars(BeginSweep \/ ReadSweep)
    /\ WF_vars(\E p \in Paths : LockPart(p) \/ Build(p)) /\ WF_vars(\E p \in Paths : RetryDue(p))
    /\ WF_vars(\E p \in Paths : Retention(p))

(***************************************************************************)
(* Properties.                                                              *)
(***************************************************************************)
TypeOK ==
    /\ part \in [Paths -> {"new", "listed", "aged", "gone"}]
    /\ fresh \subseteq Listed \cup {p \in Paths : part[p] = "gone"} /\ repair \subseteq Paths
    /\ queue \in [Paths -> {"none", "first", "again", "later"}]
    /\ built \subseteq Paths /\ canon \subseteq rows
    /\ count \in [parts : Nat, rows : Nat, events : Nat]
    /\ sweep \in [after : Paths \cup {0}, complete : BOOLEAN]
    /\ worker.at \in {"top", "sweep", "advance", "ready", "check", "build"} /\ worker.page \subseteq Paths
    /\ job \in [Paths -> {"none", "wait", "read"}]
    /\ body \in [Paths -> {"free", "worker", "sweeper", "removed"}]
    /\ \A p \in Paths : (job[p] = "read") = (body[p] = "worker")

\* "Re-elect by MIN(part_path) every time so concurrent backfill order cannot
\* change results": every statement of the index is answered exactly once, from the
\* first of the parts that hold it.
OneCanonical == canon = {<<Least(PathsOf(rows, e)), e>> : e \in EventsOf(rows)}

\* The rows of a part are in the index as a whole, and the counters that the
\* triggers keep are exact.
CountersExact ==
    /\ rows = UNION {{p} \X Holds[p] : p \in built}
    /\ count = [parts |-> Cardinality(built), rows |-> Cardinality(rows),
                events |-> Cardinality(EventsOf(rows))]

\* A part that retention has removed has no rows and gets none, whatever the
\* sweep, a query or a build that waited for its lock had seen before.
RemovedStaysRemoved == \A p \in Paths : part[p] = "gone" => p \notin built

\* "the loss is latency, never data": every part of the catalog is built in the end,
\* whoever failed to queue it.
EventuallyIndexed == \A p \in Paths : part[p] = "listed" ~> (p \in built \/ part[p] # "listed")
=============================================================================
