---------------------------- MODULE SourceTimeline ----------------------------
(***************************************************************************)
(* Which files of the source the collector takes.  RDS lists the binlogs of *)
(* every node and each node logs every change, so one node's files at a     *)
(* time make the timeline of the instance: those of the primary, and of the *)
(* former primaries for the time before.  HostPlan decides file by file as  *)
(* they are listed, page by page, while nodes close and upload files, RDS   *)
(* expires them and the primary moves.                                      *)
(*                                                                          *)
(* One page of a listing, one decision under the plan's lock or one commit  *)
(* is one step.  The scanning thread (first _reconcile, then _maintain) and *)
(* the job's thread (pending) interleave.                                   *)
(***************************************************************************)
EXTENDS Naturals, FiniteSetsExt

CONSTANTS
    Hosts,         \* nodes of the instance
    FirstPrimary,  \* the primary at the beginning
    MaxTime,       \* bound: the length of the timeline
    PageSize,      \* page_size
    LiveLookback,  \* LIVE_LOOKBACK
    Budgets        \* bounds: switches of the primary, expired files, ends of the job

ASSUME HostsAssumption == Hosts \subseteq Nat \ {0} /\ IsFiniteSet(Hosts) /\ FirstPrimary \in Hosts
ASSUME LimitsAssumption == MaxTime \in Nat /\ PageSize \in Nat \ {0} /\ LiveLookback \in Nat
ASSUME BudgetsAssumption == Budgets \subseteq [switch : Nat, expire : Nat, end : Nat]

VARIABLES
    now,       \* the clock of the source
    open,      \* the begin of the file each host writes
    closed,    \* closed files that are not uploaded yet
    shown,     \* completed files, as RDS lists them
    primary,   \* the primary node
    known,     \* the primary as the collector knows it (RetainedDiscovery.primary)
    state,     \* rows of binlog_files
    plan,      \* the HostPlan in force: its primary and the files of its spans
    scan,      \* the retained scan
    thread,    \* what each discovering thread is at
    settle,    \* the files pending() is about to settle
    finished,  \* the retained scan of this job has completed once
    left       \* remaining budgets

sourceVars == <<now, open, closed, shown, primary>>
vars == <<now, open, closed, shown, primary, known, state, plan, scan, thread, settle, finished, left>>

Files == {f \in [host : Hosts, begin : 0..MaxTime, end : 0..MaxTime] : f.begin < f.end}
Threads == {"scan", "job"}

Plans == [primary : Hosts \cup {0}, files : SUBSET Files]
NoPlan == [primary |-> 0, files |-> {}]
IdleScan == [at |-> "idle", end |-> 0, page |-> 1, received |-> 0]
IdleThread == [at |-> "idle", files |-> {}, new |-> {}, old |-> NoPlan]

Spend(what) == left[what] > 0 /\ left' = [left EXCEPT ![what] = @ - 1]

\* Rows that count for the timeline, and a plan that is read from them.
Live == {f \in Files : state[f] = "discovered"}
Fresh(p) == [primary |-> p, files |-> Live]

Init ==
    /\ now = 0 /\ open = [h \in Hosts |-> 0] /\ closed = {} /\ shown = {}
    /\ primary = FirstPrimary /\ known = FirstPrimary
    /\ state = [f \in Files |-> "absent"]
    /\ plan = [primary |-> FirstPrimary, files |-> {}]
    /\ scan = IdleScan /\ thread = [t \in Threads |-> IdleThread] /\ settle = {}
    /\ finished = FALSE /\ left \in Budgets

(***************************************************************************)
(* The source.                                                              *)
(***************************************************************************)
\* Some hosts close their file and begin the next in that moment.
Tick ==
    /\ now < MaxTime /\ now' = now + 1
    /\ \E hs \in SUBSET Hosts \ {{}} :
         /\ closed' = closed \cup {[host |-> h, begin |-> open[h], end |-> now + 1] : h \in hs}
         /\ open' = [h \in Hosts |-> IF h \in hs THEN now + 1 ELSE open[h]]
    /\ UNCHANGED <<shown, primary, known, state, plan, scan, thread, settle, finished, left>>

Upload(f) ==
    /\ f \in closed
    /\ closed' = closed \ {f} /\ shown' = shown \cup {f}
    /\ UNCHANGED <<now, open, primary, known, state, plan, scan, thread, settle, finished, left>>

Expire(f) ==
    /\ f \in shown /\ \A g \in shown : f.begin <= g.begin
    /\ Spend("expire") /\ shown' = shown \ {f}
    /\ UNCHANGED <<now, open, closed, primary, known, state, plan, scan, thread, settle, finished>>

Switch(h) ==
    /\ h # primary /\ Spend("switch") /\ primary' = h
    /\ UNCHANGED <<now, open, closed, shown, known, state, plan, scan, thread, settle, finished>>

(***************************************************************************)
(* HostPlan.                                                                *)
(***************************************************************************)
\* Mutant of Covered: a span that touches the merged ones counts as covered.
CoveredInPart(p, hosts, f) ==
    \E h \in hosts : \E m \in f.begin..f.end - 1 : \E g \in p.files : g.host = h /\ g.begin <= m /\ m < g.end

Holds(fs, m) == \E f \in fs : f.begin <= m /\ m < f.end

\* The span of f lies within one merged span of one of these hosts.
Covered(p, hosts, f) ==
    \E h \in hosts : \A m \in f.begin..f.end - 1 : Holds({g \in p.files : g.host = h}, m)

\* primary_floor: where the primary's latest run of files begins that others do not cover.
Floor(p) ==
    LET own == {f \in p.files : f.host = p.primary /\ ~Covered(p, Hosts \ {p.primary}, f)}
        runs == {f \in own : \A g \in own : g.begin < f.begin => g.end < f.begin}
    IN  IF runs = {} THEN MaxTime + 1 ELSE Max({f.begin : f \in runs})

\* Mutant of Accepts: a file that has been registered for another host is enough to
\* leave the primary's file of that time out.
AcceptsUnlessTouched(p, f) ==
    f.host = p.primary /\ ~CoveredInPart(p, Hosts \ {f.host}, f)

\* accept_new
Accepts(p, f) ==
    \/ f.host = p.primary /\ ~Covered(p, Hosts \ {f.host}, f)
    \/ /\ f.host # p.primary /\ \E g \in p.files : g.host = f.host
       /\ f.begin < Floor(p) /\ ~Covered(p, {p.primary}, f)

\* covered_by_primary
Spare(p, f) == f.host # p.primary /\ Covered(p, {p.primary}, f)

\* plan(reload): a plan read from the rows.  A thread that has the old one in its hands
\* goes on with it.
Renew(p) ==
    /\ plan' = Fresh(p)
    /\ thread' = [t \in Threads |->
                    IF thread[t].at \in {"listed", "pending"} /\ thread[t].old = NoPlan
                    THEN [thread[t] EXCEPT !.old = plan]
                    ELSE thread[t]]

InHand(t) == IF thread[t].old = NoPlan THEN plan ELSE thread[t].old

\* Every five minutes.
Reload ==
    /\ plan # Fresh(known) /\ Renew(known)
    /\ UNCHANGED <<sourceVars, known, state, scan, settle, finished, left>>

\* _refresh_primary
RefreshPrimary ==
    /\ finished /\ scan.at = "idle" /\ thread["scan"].at = "idle"
    /\ known # primary /\ known' = primary
    /\ Renew(primary)
    /\ UNCHANGED <<sourceVars, state, scan, settle, finished, left>>

(***************************************************************************)
(* _ingest: known files are looked up and the plan is taken in hand, then   *)
(* files are chosen under its lock, then their rows are written.            *)
(***************************************************************************)
Listed(t, fs) ==
    LET unknown == {f \in fs : state[f] = "absent"}
    IN  thread' = [thread EXCEPT ![t] =
            IF unknown = {} THEN IdleThread ELSE [IdleThread EXCEPT !.at = "listed", !.files = unknown]]

Before(f, g) ==
    \/ f.begin < g.begin
    \/ f.begin = g.begin /\ (f.end < g.end \/ (f.end = g.end /\ f.host < g.host))

\* add
With(p, fs) == [p EXCEPT !.files = @ \cup fs]

\* The files are asked for in the order of the listing, and the plan has those that were
\* taken before.
Taken(p, fs, new) == \A f \in fs : f \in new <=> Accepts(With(p, {g \in new : Before(g, f)}), f)

Add(t, new) ==
    /\ Taken(InHand(t), thread[t].files, new)
    /\ thread' = [thread EXCEPT ![t] =
                     IF new = {} THEN IdleThread ELSE [IdleThread EXCEPT !.at = "chosen", !.new = new]]
    /\ plan' = IF thread[t].old = NoPlan THEN With(plan, new) ELSE plan

Choose(t) ==
    /\ thread[t].at = "listed"
    /\ \E new \in SUBSET thread[t].files : Add(t, new)
    /\ UNCHANGED <<sourceVars, known, state, scan, settle, finished, left>>

\* upsert_remotes
Register(t) ==
    /\ thread[t].at = "chosen"
    /\ state' = [f \in Files |->
                   IF f \in thread[t].new /\ state[f] = "absent" THEN "discovered" ELSE state[f]]
    /\ thread' = [thread EXCEPT ![t] = IdleThread]
    /\ UNCHANGED <<sourceVars, known, plan, scan, settle, finished, left>>

(***************************************************************************)
(* Listings.                                                                *)
(***************************************************************************)
Page(W, n) ==
    {f \in W : LET before == Cardinality({g \in W : Before(g, f)})
               IN  (n - 1) * PageSize <= before /\ before < n * PageSize}

\* _retained_pass: the files that begin until now.  Its slices are one listing.
BeginScan ==
    /\ scan.at = "idle" /\ thread["scan"].at = "idle" /\ now > 0
    /\ scan' = [at |-> "page", end |-> now, page |-> 1, received |-> 0]
    /\ UNCHANGED <<sourceVars, known, state, plan, thread, settle, finished, left>>

\* One page; the listing is at its end when it has received as many rows as there are now.
ScanPage ==
    /\ scan.at = "page" /\ thread["scan"].at = "idle"
    /\ LET W == {f \in shown : f.begin <= scan.end}
           got == Page(W, scan.page)
           received == scan.received + Cardinality(got)
       IN  /\ Listed("scan", got)
           /\ scan' = IF received >= Cardinality(W)
                      THEN [scan EXCEPT !.at = "last", !.received = received]
                      ELSE [scan EXCEPT !.page = @ + 1, !.received = received]
    /\ UNCHANGED <<sourceVars, known, state, plan, settle, finished, left>>

EndScan ==
    /\ scan.at = "last" /\ thread["scan"].at = "idle"
    /\ scan' = IdleScan /\ finished' = TRUE
    /\ UNCHANGED <<sourceVars, known, state, plan, thread, settle, left>>

\* _live_refresh: the newest files, by the job's thread.
ListLive(f) ==
    /\ thread["job"].at = "idle" /\ settle = {}
    /\ f \in shown /\ f.end + LiveLookback >= now /\ state[f] = "absent"
    /\ Listed("job", {f})
    /\ UNCHANGED <<sourceVars, known, state, plan, scan, settle, finished, left>>

(***************************************************************************)
(* pending(): former primaries' files that the primary's cover are settled. *)
(***************************************************************************)
\* The plan is taken in hand, then the rows are read.
BeginPending ==
    /\ thread["job"].at = "idle" /\ settle = {} /\ finished
    /\ thread' = [thread EXCEPT !["job"].at = "pending"]
    /\ UNCHANGED <<sourceVars, known, state, plan, scan, settle, finished, left>>

\* Those of them that have no local bytes.
Decide ==
    /\ thread["job"].at = "pending"
    /\ settle' \in SUBSET {f \in Live : f.host # known /\ Spare(InHand("job"), f)}
    /\ thread' = [thread EXCEPT !["job"] = IdleThread]
    /\ UNCHANGED <<sourceVars, known, state, plan, scan, finished, left>>

\* mark_files_state: rows that are still waiting.
Skip ==
    /\ settle # {} /\ settle' = {}
    /\ state' = [f \in Files |-> IF f \in settle /\ state[f] = "discovered" THEN "skipped" ELSE state[f]]
    /\ UNCHANGED <<sourceVars, known, plan, scan, thread, finished, left>>

\* The job ends, by a failed call or with its process, and the next one begins.
NextJob ==
    /\ Spend("end")
    /\ known' = primary /\ plan' = Fresh(primary)
    /\ scan' = IdleScan /\ thread' = [t \in Threads |-> IdleThread] /\ settle' = {} /\ finished' = FALSE
    /\ UNCHANGED <<sourceVars, state>>

Scan == BeginScan \/ ScanPage \/ EndScan \/ Choose("scan") \/ Register("scan") \/ RefreshPrimary

Job == Choose("job") \/ Register("job") \/ BeginPending \/ Decide \/ Skip

Next ==
    \/ Tick \/ Scan \/ Job \/ Reload \/ NextJob
    \/ \E f \in closed : Upload(f)
    \/ \E f \in shown : Expire(f) \/ ListLive(f)
    \/ \E h \in Hosts : Switch(h)

Spec == Init /\ [][Next]_vars

\* Jobs run on and on: the retained scan is repeated, the primary is read again between
\* two passes and the plan every five minutes.
FairSpec ==
    Spec /\ WF_vars(Scan) /\ SF_vars(RefreshPrimary) /\ WF_vars(Reload) /\ WF_vars(Job)

(***************************************************************************)
(* Properties.                                                              *)
(***************************************************************************)
Hands ==
    [at : {"idle", "listed", "chosen", "pending"}, files : SUBSET Files, new : SUBSET Files, old : Plans]

\* What a thread has in its hands at each place.
InPlace(d) ==
    /\ d.at = "idle" => d = IdleThread
    /\ d.at # "listed" => d.files = {}
    /\ d.at # "chosen" => d.new = {}

ThreadsOK ==
    /\ thread \in [Threads -> Hands]
    /\ \A t \in Threads : InPlace(thread[t])
    /\ thread["scan"].at # "pending"

TypeOK ==
    /\ now \in 0..MaxTime /\ open \in [Hosts -> 0..MaxTime] /\ \A h \in Hosts : open[h] <= now
    /\ closed \subseteq Files /\ shown \subseteq Files
    /\ primary \in Hosts /\ known \in Hosts
    /\ state \in [Files -> {"absent", "discovered", "skipped"}]
    /\ plan \in Plans
    /\ scan \in [at : {"idle", "page", "last"}, end : Nat, page : Nat, received : Nat]
    /\ ThreadsOK
    /\ settle \subseteq Files /\ finished \in BOOLEAN
    /\ left \in [switch : Nat, expire : Nat, end : Nat]

\* "no hole at a primary switch" (HostPlan, sync_discovery.py): what a settled file held
\* is held by a row of the timeline, by a row about to be written, or by a listed file
\* that a plan read from the rows takes.
SkippedIsHeld ==
    \A f \in Files : state[f] = "skipped" =>
        \A m \in f.begin..f.end - 1 :
            Holds(Live \cup UNION {thread[t].new : t \in Threads}
                       \cup {g \in shown : state[g] = "absent" /\ Accepts(Fresh(primary), g)}, m)

\* A job that ends leaves no file behind that was chosen and has no row.
ChoicesGetRows == NextJob => \A t \in Threads : thread[t].new = {}

\* The primary is not read again between the moment pending() takes its plan in hand and
\* the commit of what it settles.
DecisionsAreCurrent == RefreshPrimary => thread["job"].at # "pending" /\ settle = {}

\* Every moment that a file of the primary holds, for as long as it is listed, gets into
\* the timeline and stays there, whatever the pages of a listing repeat or leave out.
EventuallyHeld ==
    \A m \in 0..MaxTime - 1 :
        []<>(~Holds({f \in shown : f.host = primary}, m)) \/ <>[]Holds(Live, m)
=============================================================================
