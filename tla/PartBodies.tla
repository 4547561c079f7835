------------------------------ MODULE PartBodies ------------------------------
(***************************************************************************)
(* The bodies of the Parquet parts of one binlog file: the job that parses  *)
(* the file into parts and archives them, the migration of parts that are   *)
(* only local, the index workers that release archived bodies, the cold     *)
(* compression that re-encodes archived parts and deletes retired objects,  *)
(* and the hourly retention sweep.  They share the part rows of the         *)
(* catalog, the local bodies with their version markers and locks, and the  *)
(* object store.                                                            *)
(*                                                                          *)
(* A body is the generation (parse attempt) its events come from and the    *)
(* form of the file.  What is done under the body lock and what is not is   *)
(* as in the code.                                                          *)
(***************************************************************************)
EXTENDS Naturals, FiniteSets

CONSTANTS
    Parts,       \* paths of the parts the file may be split into
    Gens,        \* parse attempts that give different bytes (parser versions)
    Aging,       \* parts that reach the retention cutoff during the behaviour
    OssAtStart,  \* what settings.oss_enabled may be when the file is new
    Migrations,  \* jobs that may archive existing parts at the same time
    MaxCuts,     \* bound: retention cutoffs that fall inside the time range of a part
    MaxFaults,   \* bound: failed uploads and failed ingests
    MaxCrashes   \* bound: crashes of the service

ASSUME PartsAssumption == IsFiniteSet(Parts) /\ Aging \subseteq Parts
ASSUME GensAssumption == Gens \subseteq Nat \ {0}
ASSUME SettingsAssumption == OssAtStart \subseteq BOOLEAN
ASSUME BoundsAssumption == {MaxCuts, MaxFaults, MaxCrashes} \subseteq Nat

VARIABLES
    state,    \* row of binlog_files
    raw,      \* the downloaded binlog is on disk
    job,      \* the file's lane: "idle", "parse", "failing", "commit", "finish"
    plan,     \* the attempt: its parts, generation, settings and mode
    step,     \* how far each part of the attempt has come
    row,      \* rows of parquet_parts: sha256, object_sha256, oss_key and whether re-encoded
    local,    \* local body of each path
    marker,   \* version marker of each path
    lock,     \* paths whose body lock a writer holds between two steps
    objects,  \* keys of the objects in the store
    retired,  \* rows of retired_oss_objects
    ready,    \* the retired keys whose grace period is over
    ossOn,    \* settings.oss_enabled
    mig,      \* the migrations: rows read and how far they are
    cold,     \* the cold compression thread
    sweep,    \* the retention sweep
    age,      \* the last retention cutoff that a part's events have reached
    left      \* remaining faults and crashes

fileVars  == <<state, raw, job, plan, step>>
bodyVars  == <<local, marker>>
storeVars == <<objects, retired, ready>>
envVars   == <<ossOn, age, left>>
vars == <<state, raw, job, plan, step, row, local, marker, lock, objects, retired, ready,
          ossOn, mig, cold, sweep, age, left>>

(***************************************************************************)
(* Bodies, keys and rows.                                                   *)
(***************************************************************************)
NoBody == [gen |-> 0, form |-> "none", cut |-> 0]
Raw(g)  == [gen |-> g, form |-> "raw", cut |-> 0]    \* written by an ingest (ZSTD 1)
Cold(g) == [gen |-> g, form |-> "cold", cut |-> 0]   \* re-encoded (ZSTD 9)
Kept(g, c) == [gen |-> g, form |-> "kept", cut |-> c] \* without the events before cutoff c
Cuts == 1..MaxCuts
Bodies == {Raw(g) : g \in Gens} \cup {Cold(g) : g \in Gens} \cup {Kept(g, c) : g \in Gens, c \in Cuts}

\* Two generations of a part may have the same length; two forms do not.
SameSize(b, c) == b.form = c.form /\ b.cut = c.cut

\* Keys are content addressed: path and sha of one part, or the sha of a pack.
NoKey == [pack |-> FALSE, holds |-> {}]
PartKey(p, b) == [pack |-> FALSE, holds |-> {<<p, b>>}]
PackKey(of) == [pack |-> TRUE, holds |-> {<<p, of[p]>> : p \in DOMAIN of}]

\* sha256 is the digest of the body; object_sha256 that of the body which was last
\* ingested or re-encoded, it stays when retention rewrites the body.  level9: the
\* compression_level is that of the re-encoding; cut: the cutoff at which the row count
\* and the time range begin.
NoRow == [sha |-> NoBody, object |-> NoBody, key |-> NoKey, level9 |-> FALSE, cut |-> 0]
HasRow(p) == row[p] # NoRow
Archived(p) == row[p].key # NoKey
Listed == {p \in Parts : HasRow(p)}
Finished == state \in {"stored", "done"}

\* _local_body_matches: the size, and the marker when there is one.
LocalMatches(p) ==
    /\ local[p] # NoBody /\ SameSize(local[p], row[p].sha)
    /\ marker[p] \in {NoBody, row[p].sha}

\* The locator is kept only with an unchanged sha.  upsert_parts sets both digests and
\* keeps the level of an unchanged sha, update_part sets the sha alone and
\* the values of what the sweep has kept.
KeptKey(p, b) == IF row[p].sha = b THEN row[p].key ELSE NoKey
Ingested(p, b) ==
    [sha |-> b, object |-> b, key |-> KeptKey(p, b), level9 |-> row[p].sha = b /\ row[p].level9,
     cut |-> 0]
Rewritten(p, b, c) == [row[p] EXCEPT !.sha = b, !.key = KeptKey(p, b), !.cut = c]

Retire(keys) ==
    /\ retired' = retired \cup (keys \ {NoKey})
    /\ ready' = ready \ keys

\* delete_part: the row goes and its object is retired.
DeletePart(p) ==
    /\ row' = [row EXCEPT ![p] = NoRow]
    /\ Retire({row[p].key})

Drop(p) ==
    /\ local' = [local EXCEPT ![p] = NoBody]
    /\ marker' = [marker EXCEPT ![p] = NoBody]

Spend(what) == left[what] > 0 /\ left' = [left EXCEPT ![what] = @ - 1]

IdlePlan == [keep |-> {}, gen |-> 0, oss |-> FALSE, detached |-> FALSE]
IdleMig == [at |-> "idle", of |-> [p \in {} |-> NoBody]]
IdleCold == [at |-> "idle", part |-> "none", body |-> NoBody, key |-> NoKey]
IdleSweep == [at |-> "idle", rows |-> [p \in {} |-> NoRow], due |-> [p \in {} |-> 0],
              oss |-> FALSE, part |-> "none", body |-> NoBody]

Init ==
    /\ state = "new" /\ raw = FALSE /\ job = "idle" /\ plan = IdlePlan
    /\ step = [p \in Parts |-> "none"]
    /\ row = [p \in Parts |-> NoRow]
    /\ local = [p \in Parts |-> NoBody] /\ marker = [p \in Parts |-> NoBody]
    /\ lock = {} /\ objects = {} /\ retired = {} /\ ready = {}
    /\ ossOn \in OssAtStart
    /\ mig = [m \in Migrations |-> IdleMig] /\ cold = IdleCold /\ sweep = IdleSweep
    /\ age = [p \in Parts |-> 0]
    /\ left = [fault |-> MaxFaults, crash |-> MaxCrashes]

(***************************************************************************)
(* The lane of the file (_process_one with the file's own archive futures). *)
(***************************************************************************)
\* Mutant of Start: a file left in the middle of a parse is not taken again.
StartNotParsing(keep, g, detached) ==
    /\ job = "idle" /\ state \in {"new", "failed"}
    /\ state' = "parsing" /\ raw' = TRUE /\ job' = "parse"
    /\ plan' = [keep |-> keep, gen |-> g, oss |-> ossOn, detached |-> detached]
    /\ step' = [p \in Parts |-> IF p \in keep THEN "todo" ELSE "none"]
    /\ UNCHANGED <<row, bodyVars, lock, storeVars, mig, cold, sweep, envVars>>

Start(keep, g, detached) ==
    /\ job = "idle" /\ state \in {"new", "parsing", "failed"}
    /\ state' = "parsing" /\ raw' = TRUE /\ job' = "parse"
    /\ plan' = [keep |-> keep, gen |-> g, oss |-> ossOn, detached |-> detached]
    /\ step' = [p \in Parts |-> IF p \in keep THEN "todo" ELSE "none"]
    /\ UNCHANGED <<row, bodyVars, lock, storeVars, mig, cold, sweep, envVars>>

Body == Raw(plan.gen)

\* _finish_stage, under the body lock: the replacement of the body ...
MoveBody(p) ==
    /\ job = "parse" /\ step[p] = "todo" /\ p \notin lock
    /\ \A q \in Parts : step[q] \notin {"moved", "written"}
    /\ step' = [step EXCEPT ![p] = "moved"]
    /\ local' = [local EXCEPT ![p] = Body]
    /\ lock' = lock \cup {p}
    /\ UNCHANGED <<state, raw, job, plan, row, marker, storeVars, mig, cold, sweep, envVars>>

\* ... and of its version marker.  A detached ingest lets go of the lock here,
\* the other one holds it until the metadata is committed.
WriteVersion(p) ==
    /\ job = "parse" /\ step[p] = "moved"
    /\ step' = [step EXCEPT ![p] = "written"]
    /\ marker' = [marker EXCEPT ![p] = Body]
    /\ lock' = IF plan.detached THEN lock \ {p} ELSE lock
    /\ UNCHANGED <<state, raw, job, plan, row, local, storeVars, mig, cold, sweep, envVars>>

\* publish_ingested_parts.  An identical retry keeps the verified locator.
Publish(p) ==
    /\ job = "parse" /\ step[p] = "written"
    /\ row' = [row EXCEPT ![p] = Ingested(p, Body)]
    /\ step' = [step EXCEPT ![p] =
                  IF plan.oss /\ KeptKey(p, Body) = NoKey THEN "published" ELSE "settled"]
    /\ lock' = lock \ {p}
    /\ UNCHANGED <<state, raw, job, plan, bodyVars, storeVars, mig, cold, sweep, envVars>>

\* An ingest that fails after it moved a body takes the body away again, after
\* the lock is released; the file fails.
IngestFails(p) ==
    /\ job = "parse" /\ Spend("fault")
    /\ step[p] = "moved" \/ (step[p] = "written" /\ ~plan.detached)
    /\ Drop(p)
    /\ step' = [step EXCEPT ![p] = "none"] /\ job' = "failing"
    /\ lock' = lock \ {p}
    /\ UNCHANGED <<state, raw, plan, row, storeVars, mig, cold, sweep, ossOn, age>>

\* Upload of a fresh part: only its size is compared.
CanUpload(p) == local[p] # NoBody /\ SameSize(local[p], Body)

Upload(p) ==
    /\ job \in {"parse", "failing"} /\ step[p] = "published" /\ CanUpload(p)
    /\ objects' = objects \cup {PartKey(p, Body)}
    /\ step' = [step EXCEPT ![p] = "uploaded"]
    /\ UNCHANGED <<state, raw, job, plan, row, bodyVars, lock, retired, ready, mig, cold, sweep, envVars>>

UploadFails(p) ==
    /\ job \in {"parse", "failing"} /\ step[p] = "published"
    /\ \/ ~CanUpload(p) /\ UNCHANGED left
       \/ CanUpload(p) /\ Spend("fault")
    /\ step' = [step EXCEPT ![p] = "none"] /\ job' = "failing"
    /\ UNCHANGED <<state, raw, plan, row, bodyVars, lock, storeVars, mig, cold, sweep, ossOn, age>>

\* mark_parts_archived names the row by its path only, and fails without one.
Mark(p) ==
    /\ job \in {"parse", "failing"} /\ step[p] = "uploaded"
    /\ \/ /\ HasRow(p)
          /\ row' = [row EXCEPT ![p].key = PartKey(p, Body)]
          /\ step' = [step EXCEPT ![p] = "settled"]
          /\ UNCHANGED job
       \/ /\ ~HasRow(p)
          /\ step' = [step EXCEPT ![p] = "none"] /\ job' = "failing"
          /\ UNCHANGED row
    /\ UNCHANGED <<state, raw, plan, bodyVars, lock, storeVars, mig, cold, sweep, envVars>>

\* The error handler cancels what has not begun and waits for what has.
FailFile ==
    /\ job = "failing" /\ \A p \in Parts : step[p] # "uploaded"
    /\ state' = "failed" /\ job' = "idle"
    /\ step' = [p \in Parts |-> "none"]
    /\ UNCHANGED <<raw, plan, row, bodyVars, lock, storeVars, mig, cold, sweep, envVars>>

Parsed == job = "parse" /\ \A p \in plan.keep : step[p] = "settled"

\* finalize_file_parts: chunks of earlier attempts that this one did not write.
Finalize(p) ==
    /\ Parsed /\ p \in Listed \ plan.keep /\ p \notin lock
    /\ DeletePart(p) /\ Drop(p)
    /\ UNCHANGED <<fileVars, lock, objects, mig, cold, sweep, envVars>>

Store ==
    /\ Parsed /\ Listed \subseteq plan.keep
    /\ state' = "stored" /\ job' = "commit"
    /\ UNCHANGED <<raw, plan, step, row, bodyVars, lock, storeVars, mig, cold, sweep, envVars>>

ResumeStored ==
    /\ job = "idle" /\ state = "stored"
    /\ job' = "commit" /\ plan' = [plan EXCEPT !.oss = ossOn]
    /\ UNCHANGED <<state, raw, step, row, bodyVars, lock, storeVars, mig, cold, sweep, envVars>>

\* _finish_stored_file: every part is local with its size or archived, and
\* archived when the archive is on; then the original may go.
StoredParts ==
    \A p \in Listed :
        /\ \/ local[p] # NoBody /\ SameSize(local[p], row[p].sha)
           \/ plan.oss /\ Archived(p)
        /\ plan.oss => Archived(p)

DeleteRaw ==
    /\ job = "commit"
    /\ \/ StoredParts /\ raw' = FALSE /\ job' = "finish"
       \/ ~StoredParts /\ job' = "idle" /\ UNCHANGED raw
    /\ UNCHANGED <<state, plan, step, row, bodyVars, lock, storeVars, mig, cold, sweep, envVars>>

Finish ==
    /\ job = "finish"
    /\ state' = "done" /\ job' = "idle"
    /\ step' = [p \in Parts |-> "none"]
    /\ UNCHANGED <<raw, plan, row, bodyVars, lock, storeVars, mig, cold, sweep, envVars>>

Lane ==
    \/ \E keep \in SUBSET Parts \ {{}}, g \in Gens, d \in BOOLEAN : Start(keep, g, d)
    \/ \E p \in Parts : MoveBody(p) \/ WriteVersion(p) \/ Publish(p) \/ Upload(p) \/ UploadFails(p)
                        \/ Mark(p) \/ Finalize(p)
    \/ FailFile \/ Store \/ ResumeStored \/ DeleteRaw \/ Finish

(***************************************************************************)
(* Migration of parts that are only local (_archive_existing_parts): the    *)
(* rows are read, packed and marked in three steps.                         *)
(***************************************************************************)
\* Mutant of Unarchived: pending_archive_parts for stored files only.
UnarchivedStored == {p \in Listed : state = "stored" /\ ~Archived(p)}

Unarchived == {p \in Listed : Finished /\ ~Archived(p)}

MigrateRead(m) ==
    /\ mig[m].at = "idle" /\ ossOn /\ Unarchived # {}
    /\ \A p \in Unarchived : local[p] # NoBody
    /\ mig' = [mig EXCEPT ![m] = [at |-> "read", of |-> [p \in Unarchived |-> row[p].sha]]]
    /\ UNCHANGED <<fileVars, row, bodyVars, lock, storeVars, cold, sweep, envVars>>

\* _upload_pack compares size and digest of every body it packs.
MigratePack(m) ==
    /\ mig[m].at = "read"
    /\ \/ /\ \A p \in DOMAIN mig[m].of : local[p] = mig[m].of[p]
          /\ objects' = objects \cup {PackKey(mig[m].of)}
          /\ mig' = [mig EXCEPT ![m].at = "packed"]
       \/ /\ \E p \in DOMAIN mig[m].of : local[p] # mig[m].of[p]
          /\ mig' = [mig EXCEPT ![m] = IdleMig]
          /\ UNCHANGED objects
    /\ UNCHANGED <<fileVars, row, bodyVars, lock, retired, ready, cold, sweep, envVars>>

MigrateMark(m) ==
    /\ mig[m].at = "packed"
    /\ LET of == mig[m].of IN
       row' = IF DOMAIN of \subseteq Listed
              THEN [p \in Parts |-> IF p \in DOMAIN of THEN [row[p] EXCEPT !.key = PackKey(of)] ELSE row[p]]
              ELSE row
    /\ mig' = [mig EXCEPT ![m] = IdleMig]
    /\ UNCHANGED <<fileVars, bodyVars, lock, storeVars, cold, sweep, envVars>>

\* Mutant of Release: the locator is not looked at.
ReleaseUnarchived(p) ==
    /\ p \notin lock /\ HasRow(p) /\ local[p] # NoBody /\ LocalMatches(p)
    /\ Drop(p)
    /\ UNCHANGED <<fileVars, row, lock, storeVars, mig, cold, sweep, envVars>>

\* release_archived_body: an index worker lets go of a body it has indexed.
Release(p) ==
    /\ p \notin lock /\ HasRow(p) /\ Archived(p)
    /\ local[p] # NoBody => /\ marker[p] \in {NoBody, row[p].sha}
                            /\ SameSize(local[p], row[p].sha)
                            /\ marker[p] = NoBody => local[p] = row[p].sha
    /\ <<local[p], marker[p]>> # <<NoBody, NoBody>>
    /\ Drop(p)
    /\ UNCHANGED <<fileVars, row, lock, storeVars, mig, cold, sweep, envVars>>

(***************************************************************************)
(* The cold compression thread: its gate, one retired object, one part.     *)
(***************************************************************************)
Gate == ossOn /\ job = "idle" /\ state = "done" /\ Unarchived = {}

ColdGate ==
    /\ cold.at = "idle" /\ Gate
    /\ cold' = [cold EXCEPT !.at = "gated"]
    /\ UNCHANGED <<fileVars, row, bodyVars, lock, storeVars, mig, sweep, envVars>>

\* Mutants of Deletable: without the look at the rows, which a pack shares; and
\* with a join that wants the part of the object to be still there.
DeletableReady == ready
DeletableOfListed ==
    {k \in ready : (\A p \in Parts : row[p].key # k) /\ (\E h \in k.holds : h[1] \in Listed)}

\* retired_oss_objects_ready: past its grace period and named by no row.
Deletable == {k \in ready : \A p \in Parts : row[p].key # k}

PickRetired(k) ==
    /\ cold.at = "gated" /\ k \in Deletable
    /\ cold' = [cold EXCEPT !.at = "delete", !.key = k]
    /\ UNCHANGED <<fileVars, row, bodyVars, lock, storeVars, mig, sweep, envVars>>

NoRetired ==
    /\ cold.at = "gated" /\ Deletable = {}
    /\ cold' = [cold EXCEPT !.at = "choose"]
    /\ UNCHANGED <<fileVars, row, bodyVars, lock, storeVars, mig, sweep, envVars>>

DeleteObject ==
    /\ cold.at = "delete"
    /\ objects' = objects \ {cold.key}
    /\ cold' = [cold EXCEPT !.at = "forget"]
    /\ UNCHANGED <<fileVars, row, bodyVars, lock, retired, ready, mig, sweep, envVars>>

ForgetRetired ==
    /\ cold.at = "forget"
    /\ retired' = retired \ {cold.key} /\ ready' = ready \ {cold.key}
    /\ cold' = [IdleCold EXCEPT !.at = "choose"]
    /\ UNCHANGED <<fileVars, row, bodyVars, lock, objects, mig, sweep, envVars>>

\* cold_compression_candidates, the second gate and the copy of the source,
\* local or, when the local body is not the row's, from the object; a download is
\* compared with the sha, and either with the size and the object_sha256.  A part that
\* retention has rewritten fails here: its object is not the body of that digest.
Source(p) ==
    /\ SameSize(row[p].object, row[p].sha)
    /\ \/ LocalMatches(p) /\ local[p] = row[p].object
       \/ /\ row[p].sha = row[p].object
          /\ row[p].key \in objects /\ <<p, row[p].sha>> \in row[p].key.holds
Candidate(p) == state = "done" /\ Archived(p) /\ ~row[p].level9 /\ Source(p)

ColdCopy(p) ==
    /\ cold.at = "choose" /\ Gate /\ Candidate(p) /\ p \notin lock
    /\ cold' = [cold EXCEPT !.at = "encoded", !.part = p, !.body = row[p].object]
    /\ UNCHANGED <<fileVars, row, bodyVars, lock, storeVars, mig, sweep, envVars>>

ColdIdle ==
    /\ cold.at = "choose" /\ (~Gate \/ \A p \in Parts : ~Candidate(p))
    /\ cold' = IdleCold
    /\ UNCHANGED <<fileVars, row, bodyVars, lock, storeVars, mig, sweep, envVars>>

NewKey == PartKey(cold.part, Cold(cold.body.gen))

ColdUpload ==
    /\ cold.at = "encoded"
    /\ objects' = objects \cup {NewKey}
    /\ cold' = [cold EXCEPT !.at = "uploaded"]
    /\ UNCHANGED <<fileVars, row, bodyVars, lock, retired, ready, mig, sweep, envVars>>

\* Under the lock the object_sha256 is compared again, then commit_part_encoding, which
\* keeps the row count and the time range of the row.  A body that retention rewrote
\* since the copy is taken for unchanged and is replaced by the re-encoded one of before.
Encoded ==
    [row[cold.part] EXCEPT !.sha = Cold(cold.body.gen), !.object = Cold(cold.body.gen),
                           !.key = NewKey, !.level9 = TRUE]

ColdCommit ==
    /\ cold.at = "uploaded" /\ cold.part \notin lock
    /\ \/ /\ row[cold.part].object = cold.body
          /\ row' = [row EXCEPT ![cold.part] = Encoded]
          /\ Retire({row[cold.part].key} \ {NewKey})
          /\ lock' = lock \cup {cold.part}
          /\ cold' = [cold EXCEPT !.at = "swap"]
       \/ /\ row[cold.part].object # cold.body
          /\ cold' = IdleCold
          /\ UNCHANGED <<row, lock, retired, ready>>
    /\ UNCHANGED <<fileVars, bodyVars, objects, mig, sweep, envVars>>

ColdSwap ==
    /\ cold.at = "swap" /\ local[cold.part] # NoBody
    /\ local' = [local EXCEPT ![cold.part] = Cold(cold.body.gen)]
    /\ cold' = [cold EXCEPT !.at = "version"]
    /\ UNCHANGED <<fileVars, row, marker, lock, storeVars, mig, sweep, envVars>>

ColdVersion ==
    /\ \/ cold.at = "version" /\ marker' = [marker EXCEPT ![cold.part] = Cold(cold.body.gen)]
       \/ cold.at = "swap" /\ local[cold.part] = NoBody /\ marker' = [marker EXCEPT ![cold.part] = NoBody]
    /\ lock' = lock \ {cold.part}
    /\ cold' = IdleCold
    /\ UNCHANGED <<fileVars, row, local, storeVars, mig, sweep, envVars>>

ColdThread ==
    \/ ColdGate \/ NoRetired \/ DeleteObject \/ ForgetRetired \/ ColdIdle
    \/ ColdUpload \/ ColdCommit \/ ColdSwap \/ ColdVersion
    \/ \E k \in ready : PickRetired(k)
    \/ \E p \in Parts : ColdCopy(p)

(***************************************************************************)
(* The retention sweep (cleanup): the rows are read in one snapshot, looked *)
(* at against the disk while they stream by, and acted on one by one.       *)
(***************************************************************************)
\* The cutoff of the sweep when the time range of the row begins before it, else 0.
Expired == MaxCuts + 1
Due(p) == IF age[p] > row[p].cut THEN age[p] ELSE 0

SweepRead ==
    /\ sweep.at = "idle" /\ Listed # {}
    /\ sweep' = [sweep EXCEPT !.at = "read", !.oss = ossOn,
                              !.rows = [p \in Listed |-> row[p]], !.due = [p \in Listed |-> Due(p)]]
    /\ UNCHANGED <<fileVars, row, bodyVars, lock, storeVars, mig, cold, envVars>>

ArchivedThen(p) == sweep.rows[p].key # NoKey

\* acted_on
ActedOn(p) ==
    \/ sweep.due[p] = Expired
    \/ local[p] = NoBody /\ ~ArchivedThen(p)
    \/ local[p] # NoBody /\ sweep.due[p] > 0 /\ ~(sweep.oss /\ ArchivedThen(p))

SweepFilter ==
    /\ sweep.at = "read"
    /\ LET acted == {p \in DOMAIN sweep.rows : ActedOn(p)} IN
       /\ sweep' = [sweep EXCEPT !.at = "act", !.rows = [p \in acted |-> sweep.rows[p]],
                                 !.due = [p \in acted |-> sweep.due[p]]]
       /\ marker' = [p \in Parts |->
                       IF p \in DOMAIN sweep.rows \ acted /\ local[p] = NoBody THEN NoBody ELSE marker[p]]
    /\ UNCHANGED <<fileVars, row, local, lock, storeVars, mig, cold, envVars>>

\* The sweep with one candidate less.
Past(p) ==
    LET rest == DOMAIN sweep.rows \ {p} IN
    IF rest = {} THEN IdleSweep
    ELSE [sweep EXCEPT !.at = "act", !.rows = [q \in rest |-> sweep.rows[q]],
                       !.due = [q \in rest |-> sweep.due[q]], !.part = "none", !.body = NoBody]

SweepEnd ==
    /\ sweep.at = "act" /\ DOMAIN sweep.rows = {}
    /\ sweep' = IdleSweep
    /\ UNCHANGED <<fileVars, row, bodyVars, lock, storeVars, mig, cold, envVars>>

SweepExpired(p) ==
    /\ sweep.at = "act" /\ p \in DOMAIN sweep.rows /\ sweep.due[p] = Expired
    /\ p \notin lock
    /\ Drop(p) /\ DeletePart(p)
    /\ sweep' = Past(p)
    /\ UNCHANGED <<fileVars, lock, objects, mig, cold, envVars>>

\* No body: the row goes too when it was not archived at the time it was read.
SweepMissing(p) ==
    /\ sweep.at = "act" /\ p \in DOMAIN sweep.rows /\ sweep.due[p] # Expired /\ local[p] = NoBody
    /\ marker' = [marker EXCEPT ![p] = NoBody]
    /\ sweep' = IF ArchivedThen(p) THEN Past(p) ELSE [sweep EXCEPT !.at = "drop", !.part = p]
    /\ UNCHANGED <<fileVars, row, local, lock, storeVars, mig, cold, envVars>>

SweepDrop ==
    /\ sweep.at = "drop"
    /\ DeletePart(sweep.part)
    /\ sweep' = Past(sweep.part)
    /\ UNCHANGED <<fileVars, bodyVars, lock, objects, mig, cold, envVars>>

SweepCopy(p) ==
    /\ sweep.at = "act" /\ p \in DOMAIN sweep.rows /\ sweep.due[p] # Expired /\ local[p] # NoBody
    /\ sweep' = IF sweep.due[p] = 0 \/ (sweep.oss /\ ArchivedThen(p)) THEN Past(p)
                ELSE [sweep EXCEPT !.at = "copied", !.part = p, !.body = Kept(local[p].gen, sweep.due[p])]
    /\ UNCHANGED <<fileVars, row, bodyVars, lock, storeVars, mig, cold, envVars>>

\* The rewritten body replaces the old one without lock and without marker.
SweepReplace ==
    /\ sweep.at = "copied"
    /\ local' = [local EXCEPT ![sweep.part] = sweep.body]
    /\ sweep' = [sweep EXCEPT !.at = "replaced"]
    /\ UNCHANGED <<fileVars, row, marker, lock, storeVars, mig, cold, envVars>>

\* update_part with the size and digest of the file found at the path.
SweepUpdate ==
    /\ sweep.at = "replaced"
    /\ LET p == sweep.part IN
       /\ row' = IF local[p] # NoBody /\ HasRow(p)
                 THEN [row EXCEPT ![p] = Rewritten(p, local[p], sweep.body.cut)] ELSE row
       /\ sweep' = Past(p)
    /\ UNCHANGED <<fileVars, bodyVars, lock, storeVars, mig, cold, envVars>>

Sweep ==
    \/ SweepRead \/ SweepFilter \/ SweepEnd \/ SweepDrop \/ SweepReplace \/ SweepUpdate
    \/ \E p \in Parts : SweepExpired(p) \/ SweepMissing(p) \/ SweepCopy(p)

(***************************************************************************)
(* Time, settings and crashes.                                              *)
(***************************************************************************)
\* Events of a part pass a retention cutoff: some at each of MaxCuts, then all.
Age(p) ==
    /\ p \in Aging /\ age[p] < Expired
    /\ age' = [age EXCEPT ![p] = @ + 1]
    /\ UNCHANGED <<fileVars, row, bodyVars, lock, storeVars, mig, cold, sweep, ossOn, left>>

\* The hour of grace is longer than the time between an upload and its mark,
\* and than the time a body lock is held.
GraceEnds(k) ==
    /\ k \in retired \ ready /\ lock = {}
    /\ \A m \in Migrations : mig[m].at # "packed"
    /\ \A p \in Parts : step[p] # "uploaded"
    /\ ready' = ready \cup {k}
    /\ UNCHANGED <<fileVars, row, bodyVars, lock, objects, retired, mig, cold, sweep, envVars>>

EnableOss ==
    /\ ~ossOn /\ ossOn' = TRUE
    /\ UNCHANGED <<fileVars, row, bodyVars, lock, storeVars, mig, cold, sweep, age, left>>

\* The service ends: its threads are gone and its locks are released.
Crash ==
    /\ Spend("crash")
    /\ job' = "idle" /\ step' = [p \in Parts |-> "none"] /\ lock' = {}
    /\ mig' = [m \in Migrations |-> IdleMig] /\ cold' = IdleCold /\ sweep' = IdleSweep
    /\ UNCHANGED <<state, raw, plan, row, bodyVars, storeVars, ossOn, age>>

Migrate(m) == MigrateRead(m) \/ MigratePack(m) \/ MigrateMark(m)

Next ==
    \/ Lane \/ ColdThread \/ Sweep \/ EnableOss \/ Crash
    \/ \E m \in Migrations : Migrate(m)
    \/ \E p \in Parts : Release(p) \/ IngestFails(p) \/ Age(p)
    \/ \E k \in retired : GraceEnds(k)

Spec == Init /\ [][Next]_vars

\* The scheduler starts the job again while the file is unfinished, runs the
\* sweep every hour and the cold compression thread for ever; a job that has the
\* archive on begins with the migration.
FairSpec ==
    /\ Spec /\ WF_vars(Lane) /\ WF_vars(ColdThread) /\ WF_vars(Sweep)
    /\ \A m \in Migrations : WF_vars(Migrate(m))
    /\ WF_vars(\E k \in retired : GraceEnds(k))

(***************************************************************************)
(* Properties.                                                              *)
(***************************************************************************)
Keys == [pack : BOOLEAN, holds : SUBSET (Parts \X Bodies)]
RowType == [sha : Bodies \cup {NoBody}, object : Bodies \cup {NoBody}, key : Keys, level9 : BOOLEAN,
            cut : 0..MaxCuts]

TypeOK ==
    /\ state \in {"new", "parsing", "failed", "stored", "done"} /\ raw \in BOOLEAN
    /\ job \in {"idle", "parse", "failing", "commit", "finish"}
    /\ step \in [Parts -> {"none", "todo", "moved", "written", "published", "uploaded", "settled"}]
    /\ row \in [Parts -> RowType]
    /\ local \in [Parts -> Bodies \cup {NoBody}] /\ marker \in [Parts -> Bodies \cup {NoBody}]
    /\ lock \subseteq Parts
    /\ objects \subseteq Keys /\ retired \subseteq Keys /\ ready \subseteq retired

\* An object a row points to is in the store: retired objects are deleted only
\* when no row names them, and an upload comes before its mark.
ReferencedObjectsExist == \A p \in Parts : Archived(p) => row[p].key \in objects

\* The rewriting of a body by the sweep (SweepReplace to SweepUpdate, one statement apart
\* in the code) is over before the cold compression thread re-encodes a body that was
\* ingested after the replacement.
RewriteIsShort ==
    ~(sweep.at = "replaced" /\ cold.at = "swap" /\ cold.part = sweep.part /\ local[sweep.part].form = "raw")

\* No ingest replaces the body while the sweep rewrites it: what the rewriting would have
\* if it held the body lock (it does not).
RewritesAlone == sweep.at \in {"copied", "replaced"} => step[sweep.part] \notin {"moved", "written"}

\* A body that has the events of the row's body which are not past retention.
HoldsEventsOf(p) ==
    \/ local[p].gen = row[p].sha.gen
    \/ row[p].key \in objects /\ \E h \in row[p].key.holds : h[1] = p /\ h[2].gen = row[p].sha.gen

Live == {p \in Listed : age[p] # Expired}

\* The events of every listed part of a finished file are on the disk or in the
\* store until they expire, whatever the releases, re-encodings, sweeps and
\* crashes did to it.
RowsAreDurable == Finished => \A p \in Live : HoldsEventsOf(p)

\* Some body of every such part, of whichever attempt, is on the disk or in the store.
PartsAreHeld ==
    Finished => \A p \in Live : local[p] # NoBody \/ (row[p].key \in objects /\ \E h \in row[p].key.holds : h[1] = p)

\* Sweeps come an hour apart: they do not meet every attempt of a file for ever.
SweepsLetParse == <>[](Finished \/ sweep.at = "idle")

\* The file is finished in the end, whatever crashes, failed uploads and sweeps
\* that came between the steps of its job or of each other left behind ...
FileCompletes == SweepsLetParse => <>[](state = "done")

\* A rewriting and a re-encoding met, and the row of a trimmed part that is not archived
\* has another sha than the body: no migration takes it.  This ends at the latest when
\* retention comes to the part again.
MixedUp(p) == row[p].cut > 0 /\ ~Archived(p) /\ local[p] \notin {NoBody, row[p].sha}
MixUpsEnd == []<>(\A p \in Listed : ~MixedUp(p))

\* ... and, when the archive is on, no part stays only on the disk.
PartsGetArchived == SweepsLetParse /\ MixUpsEnd => <>[](ossOn => \A p \in Listed : Archived(p))

\* A retired object that no row names any more is deleted in the end.
RetiredGetDeleted == SweepsLetParse /\ MixUpsEnd => <>[](\A k \in retired : \E p \in Parts : row[p].key = k)
=============================================================================
