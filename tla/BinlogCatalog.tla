---------------------------- MODULE BinlogCatalog ----------------------------
(***************************************************************************)
(* The rows of table binlog_files (app/metadata.py): one row per remote     *)
(* binlog identity (instance, host, name, size, span), keyed by its hash.   *)
(* Only the lifecycle column `state' is kept.  Each operator below is one   *)
(* statement of MetadataStore, that is one SQLite transaction; which rows   *)
(* it may touch is exactly what its WHERE clause says.                      *)
(***************************************************************************)
CONSTANT Files          \* binlog identities the source may ever list

VARIABLE state          \* Files -> Rows

\* States that end a file's life: metadata.SETTLED_STATES.
Settled == {"done", "unavailable", "skipped", "superseded"}

\* States a restarted service picks up again: recoverable_files.
Recoverable == {"failed", "downloading", "downloaded", "parsing", "stored"}

\* What a job is offered: recoverable_files(include_discovered=True).
Unfinished == Recoverable \cup {"discovered"}

\* "absent" stands for: no row with this id.
Rows == Settled \cup Unfinished \cup {"absent"}

-----------------------------------------------------------------------------

\* set_file_state: UPDATE ... WHERE id = ?, whatever the row held before.
SetFileState(f, s) == state' = [state EXCEPT ![f] = s]

\* Mutant of MarkFilesState: the guard on the row's present state is dropped.
MarkFilesStateAny(fs, s, only) ==
    state' = [f \in Files |-> IF f \in fs THEN s ELSE state[f]]

\* mark_files_state: only rows still in one of the given states move.
MarkFilesState(fs, s, only) ==
    state' = [f \in Files |-> IF f \in fs /\ state[f] \in only THEN s ELSE state[f]]

\* Mutants of UpsertRemotes: a listing reopens every settled row; none at all.
UpsertRemotesReopens(f) ==
    state' = [state EXCEPT ![f] = IF @ \in Settled \cup {"absent"} THEN "discovered" ELSE @]
UpsertRemotesNeverRevives(f) ==
    state' = [state EXCEPT ![f] = IF @ = "absent" THEN "discovered" ELSE @]

\* upsert_remotes for one listed identity: a new row is inserted as discovered,
\* a row found `unavailable' is revived, every other row keeps its state.
UpsertRemotes(f) ==
    state' = [state EXCEPT ![f] = IF @ \in {"absent", "unavailable"} THEN "discovered" ELSE @]

\* upsert_remote, the single-row variant the link refresh uses: it never revives.
UpsertRemote(f) ==
    state' = [state EXCEPT ![f] = IF @ = "absent" THEN "discovered" ELSE @]
=============================================================================
