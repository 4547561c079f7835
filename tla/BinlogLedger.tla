----------------------------- MODULE BinlogLedger -----------------------------
(***************************************************************************)
(* What collection promises about each binlog, without downloads, lanes,    *)
(* sweeps or crashes: a ledger entry per file and the set of files whose    *)
(* original is durable.                                                     *)
(***************************************************************************)
CONSTANT Files

VARIABLES
    ledger,   \* "unknown", "open", "collected", "replaced", "missing" or "skipped"
    durable,  \* files whose original, index and descriptor are stored
    expired   \* files past the source retention

ledgerVars == <<ledger, durable, expired>>

Init ==
    /\ ledger = [f \in Files |-> "unknown"]
    /\ durable = {} /\ expired = {}

Move(fs, from, to) ==
    /\ \A f \in fs : ledger[f] \in from
    /\ ledger' = [f \in Files |-> IF f \in fs THEN to ELSE ledger[f]]

\* Seen in a listing for the first time, or again after it was given up.
Register(f) ==
    /\ Move({f}, {"unknown", "missing", "skipped"}, "open")
    /\ UNCHANGED <<durable, expired>>

\* The original becomes durable while its entry is open ...
Secure(f) ==
    /\ ledger[f] = "open"
    /\ durable' = durable \cup {f}
    /\ UNCHANGED <<ledger, expired>>

\* ... and only then can the entry be closed as collected, also one that has been
\* skipped or given up while its lane was running.
Collect(f) ==
    /\ f \in durable
    /\ Move({f}, {"open", "skipped", "missing"}, "collected")
    /\ UNCHANGED <<durable, expired>>

\* Files are given up as missing only past the source retention; a lane may find
\* this of a file that has been skipped meanwhile.
GiveUp(fs) ==
    /\ fs \subseteq expired
    /\ Move(fs, {"open", "skipped"}, "missing")
    /\ UNCHANGED <<durable, expired>>

\* Leftovers of a former primary are skipped.
Skip(fs) ==
    /\ Move(fs, {"open"}, "skipped")
    /\ UNCHANGED <<durable, expired>>

\* The source replaced the identity of a file.
Replace(f) ==
    /\ Move({f}, {"open"}, "replaced")
    /\ UNCHANGED <<durable, expired>>

Expire(f) ==
    /\ expired' = expired \cup {f}
    /\ UNCHANGED <<ledger, durable>>

Next ==
    \/ \E f \in Files : Register(f) \/ Secure(f) \/ Collect(f) \/ Replace(f) \/ Expire(f)
    \/ \E fs \in SUBSET Files : GiveUp(fs) \/ Skip(fs)

Spec == Init /\ [][Next]_ledgerVars
=============================================================================
