---------------------------- MODULE ServingManifest ----------------------------
(***************************************************************************)
(* Serving archived parts from ClickHouse.  Triggers of the catalog put     *)
(* every change of a visible part into a change queue; the ingest worker    *)
(* hands the changes to its manifest, a second SQLite database, and         *)
(* acknowledges them; jobs of the manifest load and delete rows in          *)
(* ClickHouse; a query is answered from there only when the change queue    *)
(* and then the manifest are clean.                                         *)
(*                                                                          *)
(* ClickHouse holds every row twice: in a table sorted by time, which an    *)
(* insert writes, and in one sorted by name, which a materialized view of   *)
(* the first fills and queries for exact names read.  Rows are deleted from *)
(* each table by a mutation of its own.                                     *)
(*                                                                          *)
(* One transaction of either database or one call of the ClickHouse client  *)
(* is one step; a call that sends a statement for each table may also end   *)
(* after the first.  The catalog, the worker, queries and ClickHouse's own  *)
(* mutations interleave freely; the worker is one process (it holds a lock) *)
(* and looks at both tables (verify_name_table) where it says so.           *)
(***************************************************************************)
EXTENDS Naturals, FiniteSets

CONSTANTS
    Paths,    \* parts of the catalog, one file each
    Ids,      \* logical part ids a path may have: the digests of its contents
    Before,   \* those a part may have when the tracking of changes begins
    Budgets   \* bounds: what may happen how often in a behaviour

ASSUME IdsAssumption == Ids \subseteq Nat \ {0} /\ Before \subseteq Ids
ASSUME BudgetsAssumption ==
    Budgets \subseteq [change : Nat, hide : Nat, age : Nat, late : Nat, fault : Nat, crash : Nat]

VARIABLES
    part,     \* rows of parquet_parts: id, content_revision, archived or not
    shown,    \* query_visible of the path's file
    pending,  \* parquet_clickhouse_pending: change_version by path, 0 for none
    stamp,    \* the last change version or content revision given out
    tracked,  \* the change tracking covers the whole catalog ("complete")
    status,   \* rows of clickhouse_parts, by path and id
    scanned,  \* a full reconcile has completed
    failed,   \* last_error of the reconcile state
    rows,     \* rows in ClickHouse by table, path and id
    mutation, \* delete mutations that are not done, by table, path and id
    work,     \* the ingest worker
    query,    \* a query between its look at the source and its answer
    aged,     \* parts older than the history window
    left      \* remaining budgets

sourceVars == <<part, shown, stamp>>
gateVars   == <<status, scanned, failed>>
tableVars  == <<rows, mutation>>
vars == <<part, shown, pending, stamp, tracked, status, scanned, failed, rows, mutation, work,
          query, aged, left>>

Keys == Paths \X Ids
Sorts == {"time", "name"}
NoPart == [id |-> 0, rev |-> 0, archived |-> FALSE]
NoRows == [rev |-> 0, whole |-> FALSE]
IdleWork == [at |-> "idle", tracked |-> FALSE, full |-> FALSE, all |-> FALSE,
             page |-> [p \in {} |-> NoPart], key |-> <<>>, rev |-> 0]
IdleQuery == [at |-> "idle", touched |-> {}]

Visible(p) == shown[p] /\ part[p] # NoPart
Pay(bill) ==
    /\ \A b \in bill : left[b] > 0
    /\ left' = [b \in DOMAIN left |-> IF b \in bill THEN left[b] - 1 ELSE left[b]]
Spend(what) == Pay({what})

LoadStates == {"pending", "loading", "load_failed"}
DeleteStates == {"delete_pending", "deleting", "delete_failed"}
Unready == LoadStates \cup DeleteStates

Init ==
    /\ part \in [Paths -> {NoPart} \cup [id : Before, rev : {1}, archived : BOOLEAN]]
    /\ shown = [p \in Paths |-> TRUE]
    /\ pending = [p \in Paths |-> 0] /\ stamp = 1 /\ tracked = FALSE
    /\ status = [k \in Keys |-> "absent"] /\ scanned = FALSE /\ failed = FALSE
    /\ rows = [t \in Sorts |-> [k \in Keys |-> NoRows]]
    /\ mutation = [t \in Sorts |-> [k \in Keys |-> "none"]]
    /\ work = IdleWork /\ query = IdleQuery /\ aged = {} /\ left \in Budgets

(***************************************************************************)
(* The catalog: one transaction with its triggers.                          *)
(***************************************************************************)
Touch(p) == query' = [query EXCEPT !.touched = IF query.at = "asked" THEN @ \cup {p} ELSE @]

Enqueue(p) == pending' = [pending EXCEPT ![p] = stamp + 1] /\ stamp' = stamp + 1

\* A change of a part's content takes a new revision, whether it is visible or not.
Change(p, new) ==
    /\ part' = [part EXCEPT ![p] = new]
    /\ IF shown[p] THEN Enqueue(p) ELSE stamp' = stamp + 1 /\ UNCHANGED pending
    /\ Touch(p)

\* upsert_parts with other bytes: another identity, and no object yet.
Publish(p, g) ==
    /\ part[p].id # g /\ Spend("change")
    /\ Change(p, [id |-> g, rev |-> stamp + 1, archived |-> FALSE])
    /\ UNCHANGED <<shown, tracked, gateVars, tableVars, work, aged>>

\* update_part keeps the identity, and takes the object away.
Rewrite(p) ==
    /\ part[p] # NoPart /\ Spend("change")
    /\ Change(p, [part[p] EXCEPT !.rev = stamp + 1, !.archived = FALSE])
    /\ UNCHANGED <<shown, tracked, gateVars, tableVars, work, aged>>

\* mark_parts_archived
Archive(p) ==
    /\ part[p] # NoPart /\ ~part[p].archived
    /\ part' = [part EXCEPT ![p].archived = TRUE]
    /\ IF shown[p] THEN Enqueue(p) ELSE UNCHANGED <<pending, stamp>>
    /\ Touch(p)
    /\ UNCHANGED <<shown, tracked, gateVars, tableVars, work, aged, left>>

\* delete_part.  The trigger queues every delete.
Remove(p) ==
    /\ part[p] # NoPart /\ Spend("change")
    /\ part' = [part EXCEPT ![p] = NoPart]
    /\ Enqueue(p) /\ Touch(p)
    /\ UNCHANGED <<shown, tracked, gateVars, tableVars, work, aged>>

\* set_file_visibility: a file is hidden when a job admits it, and shown at its turn.
Flip(p) ==
    /\ IF shown[p] THEN Spend("hide") ELSE UNCHANGED left
    /\ shown' = [shown EXCEPT ![p] = ~@]
    /\ IF part[p] # NoPart THEN Enqueue(p) ELSE UNCHANGED <<pending, stamp>>
    /\ Touch(p)
    /\ UNCHANGED <<part, tracked, gateVars, tableVars, work, aged>>

Source ==
    \E p \in Paths :
        \/ \E g \in Ids : Publish(p, g)
        \/ Rewrite(p) \/ Archive(p) \/ Remove(p) \/ Flip(p)

(***************************************************************************)
(* reconcile_once: the change queue, then a scan of the catalog.            *)
(***************************************************************************)
Doomed(s) == IF s \in {"absent", "retired", "deleting"} THEN s ELSE "delete_pending"

\* Mutant of Wanted: a row that was retired before is left as it is.
WantedIfNew(s) == IF s \in {"absent", "delete_pending", "deleting", "delete_failed"} THEN "pending" ELSE s

Wanted(s) == IF s \in LoadStates \cup {"ready"} THEN s ELSE "pending"

\* Mutant of Reconciled: other identities of a path are not given up.
ReconciledAlone(ids) ==
    [k \in Keys |-> IF k[1] \in DOMAIN ids /\ ids[k[1]] = k[2] THEN Wanted(status[k]) ELSE status[k]]

\* ClickHouseManifest.reconcile without its sweep: ids maps paths to identities.
Reconciled(ids) ==
    [k \in Keys |-> IF k[1] \notin DOMAIN ids THEN status[k]
                    ELSE IF ids[k[1]] = k[2] THEN Wanted(status[k]) ELSE Doomed(status[k])]

Step(at) == work' = [work EXCEPT !.at = at]

ReadPage ==
    /\ work.at = "idle"
    /\ work' = [IdleWork EXCEPT
                  !.at = "page", !.tracked = tracked,
                  !.page = [p \in {q \in Paths : pending[q] > 0} |->
                              [version |-> pending[p], visible |-> Visible(p), id |-> part[p].id,
                               archived |-> part[p].archived]]]
    /\ UNCHANGED <<sourceVars, pending, tracked, gateVars, tableVars, query, aged, left>>

Pages == DOMAIN work.page
Eligible == {p \in Pages : work.page[p].visible /\ work.page[p].archived}
Removed == {p \in Pages : ~work.page[p].visible}

CommitPage ==
    /\ work.at = "page"
    /\ status' = Reconciled([p \in Eligible |-> work.page[p].id])
    /\ failed' = (failed /\ Eligible = {})
    /\ Step("missing")
    /\ UNCHANGED <<sourceVars, pending, tracked, scanned, tableVars, query, aged, left>>

\* queue_missing_paths
QueueMissing ==
    /\ work.at = "missing"
    /\ status' = [k \in Keys |-> IF k[1] \in Removed THEN Doomed(status[k]) ELSE status[k]]
    /\ Step("ack")
    /\ UNCHANGED <<sourceVars, pending, tracked, scanned, failed, tableVars, query, aged, left>>

\* A part that is visible and not archived yet stays in the queue.
Ack ==
    /\ work.at = "ack"
    /\ pending' = [p \in Paths |->
                     IF p \in Eligible \cup Removed /\ pending[p] = work.page[p].version THEN 0 ELSE pending[p]]
    /\ Step("scan")
    /\ UNCHANGED <<sourceVars, tracked, gateVars, tableVars, query, aged, left>>

\* parts_in_range: the whole history when it is due, else its recent end.
ScanRead(full, scope) ==
    /\ work.at = "scan"
    /\ ~work.tracked \/ ~scanned => full
    /\ full => scope = Paths \ aged
    /\ LET seen == {p \in scope : Visible(p)} IN
       work' = [work EXCEPT
                  !.at = "scanned", !.full = full,
                  !.all = \A p \in seen : part[p].archived,
                  !.page = [p \in {q \in seen : part[q].archived} |-> [id |-> part[p].id]]]
    /\ UNCHANGED <<sourceVars, pending, tracked, gateVars, tableVars, query, aged, left>>

\* The sweep of a full scan: what it has not seen is deleted, or forgotten when
\* it is older than the history window.
Swept(st) ==
    [k \in Keys |-> IF k[1] \in Pages \/ st[k] = "absent" THEN st[k]
                    ELSE IF k[1] \in aged THEN "retired" ELSE Doomed(st[k])]

ScanCommit ==
    /\ work.at = "scanned"
    /\ LET st == Reconciled([p \in Pages |-> work.page[p].id]) IN
       status' = IF work.full THEN Swept(st) ELSE st
    /\ scanned' = (scanned \/ work.full) /\ failed' = FALSE
    /\ work' = IF work.full /\ work.all THEN [work EXCEPT !.at = "mark"] ELSE IdleWork
    /\ UNCHANGED <<sourceVars, pending, tracked, tableVars, query, aged, left>>

\* mark_clickhouse_change_tracking_complete
MarkTracked ==
    /\ work.at = "mark"
    /\ tracked' = TRUE
    /\ work' = IdleWork
    /\ UNCHANGED <<sourceVars, pending, gateVars, tableVars, query, aged, left>>

ReconcileFails ==
    /\ work.at \in {"page", "missing", "ack", "scan", "scanned", "mark"} /\ Spend("fault")
    /\ failed' = TRUE
    /\ work' = IdleWork
    /\ UNCHANGED <<sourceVars, pending, tracked, status, scanned, tableVars, query, aged>>

Reconcile ==
    \/ CommitPage \/ QueueMissing \/ Ack \/ ScanCommit \/ MarkTracked \/ ReconcileFails
    \/ \E full \in BOOLEAN, scope \in SUBSET (Paths \ aged) : ScanRead(full, scope)

(***************************************************************************)
(* ingest_one: one job of the manifest.                                     *)
(***************************************************************************)
Claimable == {k \in Keys : status[k] \in {"pending", "load_failed", "delete_pending", "delete_failed"}}

\* Due times and the order of the queue leave the choice open.
Claim(k) ==
    /\ work.at = "idle" /\ k \in Claimable
    /\ LET loads == status[k] \in LoadStates IN
       /\ status' = [status EXCEPT ![k] = IF loads THEN "loading" ELSE "deleting"]
       /\ work' = [IdleWork EXCEPT !.at = IF loads THEN "load" ELSE "delete", !.key = k]
    /\ UNCHANGED <<sourceVars, pending, tracked, scanned, failed, tableVars, query, aged, left>>

EndJob(s) ==
    /\ status' = [status EXCEPT ![work.key] = s]
    /\ work' = IdleWork
    /\ UNCHANGED <<sourceVars, pending, tracked, scanned, failed, query, aged>>

\* release_pending and mark_failed go back to the kind of job it was.
Released == IF status[work.key] \in DeleteStates THEN "delete_pending" ELSE "pending"
Failed == IF status[work.key] \in DeleteStates THEN "delete_failed" ELSE "load_failed"

InJob == UNCHANGED <<sourceVars, pending, tracked, gateVars, query, aged>>

LoadRead ==
    /\ work.at = "load"
    /\ LET now == part[work.key[1]] IN
       \/ now.id # work.key[2] /\ Step("stale") /\ InJob
       \/ now.id = work.key[2] /\ ~now.archived /\ EndJob("load_failed")
       \/ /\ now.id = work.key[2] /\ now.archived
          /\ work' = [work EXCEPT !.at = "look", !.rev = now.rev]
          /\ InJob
    /\ UNCHANGED <<tableVars, left>>

Loaded == [rev |-> work.rev, whole |-> TRUE]
Half == [rev |-> work.rev, whole |-> FALSE]

\* Mutant of Found: without verify_name_table.
FoundByTime(state) == rows["time"][work.key] = state

\* _ingest_part_state and what it is compared with, in both tables.  The two are
\* read one after the other; a mutation applied between has the same effect
\* before or after.
Found(state) == \A t \in Sorts : rows[t][work.key] = state

Look ==
    /\ work.at = "look"
    /\ \/ Found(Loaded) /\ EndJob("ready")
       \/ Found(NoRows) /\ Step("stream") /\ InJob
       \/ ~Found(Loaded) /\ ~Found(NoRows) /\ Step("replace") /\ InJob
    /\ UNCHANGED <<tableVars, left>>

\* delete_parts: an asynchronous mutation in each table, unless one is not done for
\* the key.  Those in late are still running when the call is over.
Deletable(ts) == {t \in ts : mutation[t][work.key] = "none"}

Delete(ts, late) ==
    /\ late \subseteq {t \in Deletable(ts) : rows[t][work.key] # NoRows}
    /\ rows' = [t \in Sorts |-> IF t \in Deletable(ts) \ late THEN [rows[t] EXCEPT ![work.key] = NoRows]
                                ELSE rows[t]]
    /\ mutation' = [t \in Sorts |-> IF t \in late THEN [mutation[t] EXCEPT ![work.key] = "running"]
                                    ELSE mutation[t]]

Lag(late) == IF late = {} THEN {} ELSE {"late"}

Deletes == {"delete", "stale", "replace"}

DeleteRows ==
    /\ work.at \in Deletes
    /\ \E late \in SUBSET Sorts : Delete(Sorts, late) /\ Pay(Lag(late))
    /\ Step(CASE work.at = "delete" -> "deleted" [] work.at = "stale" -> "dropped" [] OTHER -> "replaced")
    /\ InJob

\* Rows that are still there put the job back.  A delete job looks at the table
\* sorted by time only (part_state), a load job at both.
CheckDeleted ==
    /\ \/ /\ work.at = "deleted"
          /\ EndJob(IF rows["time"][work.key] = NoRows THEN "retired" ELSE Released)
       \/ /\ work.at = "dropped"
          /\ EndJob(IF Found(NoRows) THEN "retired" ELSE Released)
       \/ work.at = "replaced" /\ Found(NoRows) /\ Step("stream") /\ InJob
       \/ work.at = "replaced" /\ ~Found(NoRows) /\ EndJob(Released)
    /\ UNCHANGED <<tableVars, left>>

\* The identity is compared again when the object has been fetched.
Stream ==
    /\ work.at = "stream"
    /\ \/ part[work.key[1]].id # work.key[2] /\ EndJob("retired")
       \/ part[work.key[1]].id = work.key[2] /\ Step("insert") /\ InJob
    /\ UNCHANGED <<tableVars, left>>

\* What an insert left in each table.  A mutation does not touch later rows.
Inserted(amount) ==
    /\ rows' = [t \in Sorts |-> [rows[t] EXCEPT ![work.key] = amount[t]]]
    /\ UNCHANGED mutation

Insert ==
    /\ work.at = "insert"
    /\ Inserted([t \in Sorts |-> Loaded])
    /\ Step("verify") /\ InJob
    /\ UNCHANGED left

Verify ==
    /\ work.at = "verify"
    /\ EndJob(IF Found(Loaded) THEN "ready" ELSE "load_failed")
    /\ UNCHANGED <<tableVars, left>>

\* What ClickHouse was doing for the job: an insert may have reached each table in
\* part or as a whole, a delete only the first.
Broken(bill) ==
    \/ UNCHANGED tableVars /\ Pay(bill)
    \/ work.at = "insert" /\ Pay(bill)
       /\ \E amount \in [Sorts -> {NoRows, Half, Loaded}] : Inserted(amount)
    \/ work.at \in Deletes
       /\ \E late \in SUBSET {"name"} : Delete({"name"}, late) /\ Pay(bill \cup Lag(late))

\* A broken connection, or a probe that pauses the ingestion.
JobFails ==
    /\ work.at \in Deletes \cup {"load", "look", "deleted", "dropped", "replaced", "stream", "insert", "verify"}
    /\ EndJob(Failed) \/ EndJob(Released)
    /\ Broken({"fault"})

Job ==
    LoadRead \/ Look \/ DeleteRows \/ CheckDeleted \/ Stream \/ Insert \/ Verify \/ JobFails

\* The worker ends and is started again: recover_loading.
Recovered(s) ==
    CASE s = "loading" -> "pending" [] s = "deleting" -> "delete_pending" [] OTHER -> s

Crash ==
    /\ Broken({"crash"})
    /\ status' = [k \in Keys |-> Recovered(status[k])]
    /\ work' = IdleWork
    /\ UNCHANGED <<sourceVars, pending, tracked, scanned, failed, query, aged>>

\* ClickHouse rewrites the data parts that hold the rows, and is done with the
\* mutation when it has been through all the others.
Mutate(t, k) ==
    /\ \/ /\ mutation[t][k] = "running"
          /\ mutation' = [mutation EXCEPT ![t][k] = "spent"] /\ rows' = [rows EXCEPT ![t][k] = NoRows]
       \/ /\ mutation[t][k] = "spent"
          /\ mutation' = [mutation EXCEPT ![t][k] = "none"] /\ UNCHANGED rows
    /\ UNCHANGED <<sourceVars, pending, tracked, gateVars, work, query, aged, left>>

(***************************************************************************)
(* A query (query_events): the source first, then the manifest.             *)
(***************************************************************************)
SourceClean == tracked /\ \A p \in Paths : pending[p] = 0

\* A query that finds either gate closed is answered from the parts.
AskSource ==
    /\ query.at = "idle" /\ SourceClean
    /\ query' = [at |-> "asked", touched |-> {}]
    /\ UNCHANGED <<sourceVars, pending, tracked, gateVars, tableVars, work, aged, left>>

\* global_coverage
ManifestClean == scanned /\ ~failed /\ \A k \in Keys : status[k] \notin Unready

AskManifest ==
    /\ query.at = "asked"
    /\ query' = IF ManifestClean THEN [query EXCEPT !.at = "open"] ELSE IdleQuery
    /\ UNCHANGED <<sourceVars, pending, tracked, gateVars, tableVars, work, aged, left>>

Answer ==
    /\ query.at = "open"
    /\ query' = IdleQuery
    /\ UNCHANGED <<sourceVars, pending, tracked, gateVars, tableVars, work, aged, left>>

\* A part falls out of the history window.
Age(p) ==
    /\ p \notin aged /\ Spend("age")
    /\ aged' = aged \cup {p}
    /\ UNCHANGED <<sourceVars, pending, tracked, gateVars, tableVars, work, query>>

Next ==
    \/ Source \/ ReadPage \/ Reconcile \/ Job \/ Crash
    \/ AskSource \/ AskManifest \/ Answer
    \/ \E k \in Keys : Claim(k) \/ \E t \in Sorts : Mutate(t, k)
    \/ \E p \in Paths : Age(p)

Spec == Init /\ [][Next]_vars

\* The worker takes its next step and, whenever it is free, comes to the next
\* reconcile and to the next job that is due; parts get archived in the end.
FairSpec ==
    /\ Spec /\ WF_vars(Reconcile) /\ WF_vars(Job)
    /\ SF_vars(ReadPage) /\ SF_vars(\E k \in Keys : Claim(k))
    /\ WF_vars(\E k \in Keys, t \in Sorts : Mutate(t, k))
    /\ \A p \in Paths : WF_vars(Archive(p))

(***************************************************************************)
(* Properties.                                                              *)
(***************************************************************************)
TypeOK ==
    /\ part \in [Paths -> {NoPart} \cup [id : Ids, rev : Nat, archived : BOOLEAN]]
    /\ shown \in [Paths -> BOOLEAN] /\ pending \in [Paths -> Nat] /\ stamp \in Nat
    /\ status \in [Keys -> {"absent", "ready", "retired"} \cup Unready]
    /\ tracked \in BOOLEAN /\ scanned \in BOOLEAN /\ failed \in BOOLEAN
    /\ rows \in [Sorts -> [Keys -> [rev : Nat, whole : BOOLEAN]]]
    /\ mutation \in [Sorts -> [Keys -> {"none", "running", "spent"}]]
    /\ query \in [at : {"idle", "asked", "open"}, touched : SUBSET Paths] /\ aged \subseteq Paths

\* The identities a path should be served with.
Expected(p) == IF Visible(p) THEN {part[p].id} ELSE {}

\* "a user query can never observe a clean source gate before the manifest has
\* the corresponding load/delete state": where the queue has no entry, the
\* manifest serves or loads the identity of the catalog and no other.
HandedOver ==
    tracked => \A p \in Paths \ aged : pending[p] = 0 =>
        \A g \in Ids : status[<<p, g>>] \in IF g \in Expected(p) THEN {"ready"} \cup LoadStates
                                            ELSE {"absent", "retired"} \cup DeleteStates

Served(p) == {g \in Ids : rows["time"][<<p, g>>].whole}
Partly(p) == {g \in Ids : rows["time"][<<p, g>>] # NoRows /\ ~rows["time"][<<p, g>>].whole}

\* When the gate opens, the table sorted by time holds for every part all rows of the
\* identity the catalog showed when the source was asked and of no other, and the table
\* sorted by name has the same rows of it, of the same revision, unless the part has
\* changed between the two looks.  Beside them the second may hold rows of identities
\* that were deleted, and the revision may be an earlier one of the same identity: the
\* delete job does not look at the one, and the gate not at the other.
GateIsExact ==
    [][query.at = "asked" /\ query'.at = "open" =>
         \A p \in Paths \ (query.touched \cup aged) :
             /\ Served(p) = Expected(p) /\ Partly(p) = {}
             /\ \A g \in Expected(p) : rows["name"][<<p, g>>] = rows["time"][<<p, g>>]]_vars

\* Changes come to rest in ClickHouse: once the catalog is quiet, every part that is
\* not past the history window is served from both tables, and nothing else by time.
EventuallyServed ==
    <>[](/\ SourceClean /\ ManifestClean
         /\ \A p \in Paths \ aged : /\ Served(p) = Expected(p)
                                    /\ \A g \in Expected(p) : rows["name"][<<p, g>>].whole)

\* "retry without marking the source ready when the asynchronous mutation is
\* still running": what is ready is not being deleted, in neither table.
ReadyIsNotDying == \A t \in Sorts, k \in Keys : mutation[t][k] = "running" => status[k] # "ready"

\* The hypothesis under which it is proved: the files stay shown.
NothingIsHidden == \A p \in Paths : shown[p]
=============================================================================
