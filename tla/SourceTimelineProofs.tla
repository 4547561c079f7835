------------------------- MODULE SourceTimelineProofs -------------------------
(***************************************************************************)
(* Theorems about SourceTimeline, for all hosts, lengths of the timeline and *)
(* page sizes, and any number of switches, expired files and jobs.          *)
(***************************************************************************)
EXTENDS SourceTimeline, FiniteSetTheorems, TLAPS

-----------------------------------------------------------------------------
(* Type correctness.                                                        *)

\* There are finitely many files.
LEMMA FilesAreFinite == IsFiniteSet(Files)
<1> DEFINE Times == 0..MaxTime
           Triples == Hosts \X (Times \X Times)
           place == [f \in Files |-> <<f.host, <<f.begin, f.end>>>>]
<1>1. IsFiniteSet(Times)
      BY LimitsAssumption, FS_Interval DEF LimitsAssumption
<1>2. IsFiniteSet(Times \X Times)
      BY <1>1, FS_Product
<1>3. IsFiniteSet(Triples)
      BY <1>2, HostsAssumption, FS_Product DEF HostsAssumption
<1>4. place \in [Files -> Triples]
      BY DEF Files
<1>5. ASSUME NEW f \in Files, NEW g \in Files, place[f] = place[g] PROVE f = g
  <2>1. f.host = g.host /\ f.begin = g.begin /\ f.end = g.end
        BY <1>5
  <2>2. QED BY <2>1 DEF Files
<1>6. place \in Injection(Files, Triples)
      BY <1>4, <1>5 DEF Injection, IsInjective
<1>7. QED BY <1>3, <1>6, FS_Injection

\* A set of files has a number of members.
LEMMA FilesAreCounted ==
    ASSUME NEW fs, fs \subseteq Files
    PROVE  Cardinality(fs) \in Nat
BY FilesAreFinite, FS_Subset, FS_CardinalityType

\* The constants of the state.
LEMMA Constants ==
    /\ MaxTime \in Nat /\ 0 \notin Hosts /\ FirstPrimary \in Hosts
    /\ NoPlan \in Plans
    /\ IdleThread \in Hands /\ InPlace(IdleThread)
    /\ IdleScan \in [at : {"idle", "page", "last"}, end : Nat, page : Nat, received : Nat]
BY LimitsAssumption, HostsAssumption
   DEF LimitsAssumption, HostsAssumption, NoPlan, Plans, IdleThread, IdleScan, Hands, InPlace

\* The initial states are well typed.
LEMMA TypeInit == Init => TypeOK
<1> SUFFICES ASSUME Init PROVE TypeOK
    OBVIOUS
<1>1. left \in [switch : Nat, expire : Nat, end : Nat]
      BY BudgetsAssumption DEF Init, BudgetsAssumption
<1>2. plan \in Plans
      BY Constants DEF Init, Plans
<1>3. \A t \in Threads : thread[t] = IdleThread
      BY DEF Init
<1>4. thread \in [Threads -> Hands]
      BY Constants DEF Init
<1>5. \A t \in Threads : InPlace(thread[t])
      BY <1>3 DEF InPlace, IdleThread
<1>6. thread["scan"].at # "pending"
      BY <1>3 DEF IdleThread, Threads
<1>7. /\ now \in 0..MaxTime /\ open \in [Hosts -> 0..MaxTime] /\ \A h \in Hosts : open[h] <= now
      BY Constants DEF Init
<1>8. state \in [Files -> {"absent", "discovered", "skipped"}]
      BY DEF Init
<1>9. scan \in [at : {"idle", "page", "last"}, end : Nat, page : Nat, received : Nat]
      BY Constants DEF Init
<1>10. /\ closed \subseteq Files /\ shown \subseteq Files /\ primary \in Hosts /\ known \in Hosts
       /\ settle \subseteq Files /\ finished \in BOOLEAN
      BY Constants DEF Init
<1>11. QED BY <1>1, <1>2, <1>4, <1>5, <1>6, <1>7, <1>8, <1>9, <1>10 DEF TypeOK, ThreadsOK

\* What the rows say is a plan.
LEMMA FreshIsPlan ==
    ASSUME NEW p \in Hosts
    PROVE  Fresh(p) \in Plans
BY DEF Fresh, Plans, Live

\* A plan that is read again, and the old one in the hands of the threads.
LEMMA RenewTypes ==
    ASSUME TypeOK, NEW p \in Hosts, Renew(p)
    PROVE  plan' \in Plans /\ ThreadsOK'
<1>1. plan' \in Plans
      BY FreshIsPlan DEF Renew
<1>2. ASSUME NEW t \in Threads PROVE thread'[t] \in Hands /\ InPlace(thread'[t]) /\ thread'[t].at = thread[t].at
  <2>1. thread[t] \in Hands /\ InPlace(thread[t]) /\ plan \in Plans
        BY DEF TypeOK, ThreadsOK
  <2>2. \/ thread'[t] = thread[t]
        \/ thread'[t] = [thread[t] EXCEPT !.old = plan] /\ thread[t].at \in {"listed", "pending"}
        BY DEF Renew
  <2>3. QED BY <2>1, <2>2 DEF Hands, InPlace
<1>3. thread' = [t \in Threads |-> thread'[t]]
      BY DEF Renew
<1>4. QED BY <1>1, <1>2, <1>3 DEF ThreadsOK, TypeOK, Threads

\* One thread puts something else into its hands.
LEMMA HandTypes ==
    ASSUME TypeOK, NEW t \in Threads, NEW d \in Hands, InPlace(d), t = "scan" => d.at # "pending",
           thread' = [thread EXCEPT ![t] = d]
    PROVE  ThreadsOK'
<1>1. thread \in [Threads -> Hands]
      BY DEF TypeOK, ThreadsOK
<1>2. thread' \in [Threads -> Hands]
      BY <1>1
<1>3. \A u \in Threads : thread'[u] = IF u = t THEN d ELSE thread[u]
      BY <1>1
<1>4. QED BY <1>2, <1>3 DEF TypeOK, ThreadsOK, Threads

\* Files that are listed.
LEMMA ListedTypes ==
    ASSUME TypeOK, NEW t \in Threads, NEW fs, fs \subseteq Files, Listed(t, fs)
    PROVE  ThreadsOK'
<1> DEFINE unknown == {f \in fs : state[f] = "absent"}
           d == IF unknown = {} THEN IdleThread ELSE [IdleThread EXCEPT !.at = "listed", !.files = unknown]
<1>1. d \in Hands /\ InPlace(d) /\ d.at # "pending"
  <2>1. CASE unknown = {}
        BY <2>1, Constants DEF IdleThread
  <2>2. CASE unknown # {}
    <3>1. d = [at |-> "listed", files |-> unknown, new |-> {}, old |-> NoPlan]
          BY <2>2 DEF IdleThread
    <3>2. NoPlan \in Plans /\ unknown \subseteq Files
          BY Constants
    <3> HIDE DEF d, unknown
    <3>3. QED BY <3>1, <3>2 DEF Hands, InPlace
  <2>3. QED BY <2>1, <2>2
<1>2. thread' = [thread EXCEPT ![t] = d]
      BY DEF Listed
<1> HIDE DEF d
<1>3. QED BY <1>1, <1>2, HandTypes

\* What is left of a budget is a number.
LEMMA SpendTypes ==
    ASSUME left \in [switch : Nat, expire : Nat, end : Nat], NEW what \in {"switch", "expire", "end"}, Spend(what)
    PROVE  left' \in [switch : Nat, expire : Nat, end : Nat]
BY DEF Spend

\* Every step keeps the types.
LEMMA TypeStep == TypeOK /\ [Next]_vars => TypeOK'
<1> SUFFICES ASSUME TypeOK, [Next]_vars PROVE TypeOK'
    OBVIOUS
<1> USE DEF sourceVars
<1>1. CASE Tick
  <2>1. PICK hs \in SUBSET Hosts \ {{}} :
          /\ closed' = closed \cup {[host |-> h, begin |-> open[h], end |-> now + 1] : h \in hs}
          /\ open' = [h \in Hosts |-> IF h \in hs THEN now + 1 ELSE open[h]]
        BY <1>1 DEF Tick
  <2>2. now' = now + 1 /\ now' \in 0..MaxTime /\ now \in Nat
        BY <1>1, Constants DEF Tick, TypeOK
  <2>3. \A h \in Hosts : open[h] \in 0..MaxTime /\ open[h] <= now
        BY DEF TypeOK
  <2>4. open' \in [Hosts -> 0..MaxTime] /\ \A h \in Hosts : open'[h] <= now'
        BY <2>1, <2>2, <2>3, Constants
  <2>5. \A h \in hs : [host |-> h, begin |-> open[h], end |-> now + 1] \in Files
        BY <2>2, <2>3, Constants DEF Files
  <2>6. closed' \subseteq Files
        BY <2>1, <2>5 DEF TypeOK
  <2>7. QED BY <1>1, <2>2, <2>4, <2>6 DEF Tick, TypeOK, ThreadsOK
<1>2. ASSUME NEW f \in closed, Upload(f) PROVE TypeOK'
      BY <1>2 DEF Upload, TypeOK, ThreadsOK
<1>3. ASSUME NEW f \in shown, Expire(f) PROVE TypeOK'
  <2>1. left' \in [switch : Nat, expire : Nat, end : Nat]
        BY <1>3, SpendTypes DEF Expire, TypeOK
  <2>2. QED BY <1>3, <2>1 DEF Expire, TypeOK, ThreadsOK
<1>4. ASSUME NEW h \in Hosts, Switch(h) PROVE TypeOK'
  <2>1. left' \in [switch : Nat, expire : Nat, end : Nat]
        BY <1>4, SpendTypes DEF Switch, TypeOK
  <2>2. QED BY <1>4, <2>1 DEF Switch, TypeOK, ThreadsOK
<1>5. CASE Reload
  <2>1. plan' \in Plans /\ ThreadsOK'
        BY <1>5, RenewTypes DEF Reload, TypeOK
  <2>2. QED BY <1>5, <2>1 DEF Reload, TypeOK
<1>6. CASE RefreshPrimary
  <2>1. plan' \in Plans /\ ThreadsOK'
        BY <1>6, RenewTypes DEF RefreshPrimary, TypeOK
  <2>2. QED BY <1>6, <2>1 DEF RefreshPrimary, TypeOK
<1>7. ASSUME NEW t \in Threads, Choose(t) PROVE TypeOK'
  <2>1. PICK new \in SUBSET thread[t].files : Add(t, new)
        BY <1>7 DEF Choose
  <2>2. new \subseteq Files
        BY DEF TypeOK, ThreadsOK, Hands
  <2>3. plan' \in Plans
        BY <2>1, <2>2 DEF Add, TypeOK, With, Plans
  <2> DEFINE d == IF new = {} THEN IdleThread ELSE [IdleThread EXCEPT !.at = "chosen", !.new = new]
  <2>4. d \in Hands /\ InPlace(d) /\ d.at # "pending"
    <3>1. CASE new = {}
          BY <3>1, Constants DEF IdleThread
    <3>2. CASE new # {}
      <4>1. d = [at |-> "chosen", files |-> {}, new |-> new, old |-> NoPlan]
            BY <3>2 DEF IdleThread
      <4>2. NoPlan \in Plans
            BY Constants
      <4> HIDE DEF d
      <4>3. QED BY <2>2, <4>1, <4>2 DEF Hands, InPlace
    <3>3. QED BY <3>1, <3>2
  <2>5. thread' = [thread EXCEPT ![t] = d]
        BY <2>1 DEF Add
  <2> HIDE DEF d
  <2>6. ThreadsOK'
        BY <2>4, <2>5, HandTypes
  <2>7. QED BY <1>7, <2>3, <2>6 DEF Choose, TypeOK
<1>8. ASSUME NEW t \in Threads, Register(t) PROVE TypeOK'
  <2>1. ThreadsOK'
    <3>1. IdleThread.at # "pending"
          BY DEF IdleThread
    <3>2. QED BY <1>8, <3>1, HandTypes, Constants DEF Register
  <2>2. state' \in [Files -> {"absent", "discovered", "skipped"}]
        BY <1>8 DEF Register, TypeOK
  <2>3. QED BY <1>8, <2>1, <2>2 DEF Register, TypeOK
<1>9. CASE BeginScan
  <2>1. now \in Nat
        BY Constants DEF TypeOK
  <2>2. scan' \in [at : {"idle", "page", "last"}, end : Nat, page : Nat, received : Nat]
        BY <1>9, <2>1 DEF BeginScan
  <2>3. QED BY <1>9, <2>2 DEF BeginScan, TypeOK, ThreadsOK
<1>10. CASE ScanPage
  <2> DEFINE W == {f \in shown : f.begin <= scan.end}
             got == Page(W, scan.page)
             received == scan.received + Cardinality(got)
  <2>1. W \subseteq Files
        BY DEF TypeOK
  <2>2. got \subseteq Files
        BY <2>1 DEF Page
  <2>3. received \in Nat
    <3>1. Cardinality(got) \in Nat
          BY <2>2, FilesAreCounted
    <3> HIDE DEF got
    <3>2. QED BY <3>1 DEF TypeOK
  <2>4. /\ Listed("scan", got)
        /\ scan' = IF received >= Cardinality(W)
                   THEN [scan EXCEPT !.at = "last", !.received = received]
                   ELSE [scan EXCEPT !.page = @ + 1, !.received = received]
        BY <1>10 DEF ScanPage
  <2> HIDE DEF W, got, received
  <2>5. scan' \in [at : {"idle", "page", "last"}, end : Nat, page : Nat, received : Nat]
    <3>1. \/ scan' = [scan EXCEPT !.at = "last", !.received = received]
          \/ scan' = [scan EXCEPT !.page = @ + 1, !.received = received]
          BY <2>4
    <3>2. scan \in [at : {"idle", "page", "last"}, end : Nat, page : Nat, received : Nat]
          BY DEF TypeOK
    <3>3. CASE scan' = [scan EXCEPT !.at = "last", !.received = received]
          BY <2>3, <3>2, <3>3
    <3>4. CASE scan' = [scan EXCEPT !.page = @ + 1, !.received = received]
      <4>1. scan.page + 1 \in Nat
            BY <3>2
      <4>2. QED BY <2>3, <3>2, <3>4, <4>1
    <3>5. QED BY <3>1, <3>3, <3>4
  <2>6. ThreadsOK'
        BY <2>2, <2>4, ListedTypes DEF Threads
  <2>7. QED BY <1>10, <2>5, <2>6 DEF ScanPage, TypeOK
<1>11. CASE EndScan
      BY <1>11, Constants DEF EndScan, TypeOK, ThreadsOK
<1>12. ASSUME NEW f \in shown, ListLive(f) PROVE TypeOK'
  <2>1. {f} \subseteq Files
        BY DEF TypeOK
  <2>2. ThreadsOK'
        BY <1>12, <2>1, ListedTypes DEF ListLive, Threads
  <2>3. QED BY <1>12, <2>2 DEF ListLive, TypeOK
<1>13. CASE BeginPending
  <2> DEFINE d == [thread["job"] EXCEPT !.at = "pending"]
  <2>1. thread["job"] = IdleThread /\ thread["job"] \in Hands
        BY <1>13 DEF BeginPending, TypeOK, ThreadsOK, InPlace, Threads
  <2>2. d \in Hands /\ InPlace(d)
        BY <2>1 DEF Hands, InPlace, IdleThread
  <2>3. thread' = [thread EXCEPT !["job"] = d]
        BY <1>13 DEF BeginPending
  <2> HIDE DEF d
  <2>4. ThreadsOK'
        BY <2>2, <2>3, HandTypes DEF Threads
  <2>5. QED BY <1>13, <2>4 DEF BeginPending, TypeOK
<1>14. CASE Decide
  <2>1. ThreadsOK'
        BY <1>14, HandTypes, Constants DEF Decide, Threads
  <2>2. settle' \subseteq Files
        BY <1>14 DEF Decide, Live
  <2>3. QED BY <1>14, <2>1, <2>2 DEF Decide, TypeOK
<1>15. CASE Skip
  <2>1. state' \in [Files -> {"absent", "discovered", "skipped"}]
        BY <1>15 DEF Skip, TypeOK
  <2>2. QED BY <1>15, <2>1 DEF Skip, TypeOK, ThreadsOK
<1>16. CASE NextJob
  <2>1. left' \in [switch : Nat, expire : Nat, end : Nat]
        BY <1>16, SpendTypes DEF NextJob, TypeOK
  <2>2. plan' \in Plans
        BY <1>16, FreshIsPlan DEF NextJob, TypeOK
  <2>3. ThreadsOK'
    <3>1. IdleThread.at # "pending"
          BY DEF IdleThread
    <3>2. QED BY <1>16, <3>1, Constants DEF NextJob, ThreadsOK, Threads
  <2>4. QED BY <1>16, <2>1, <2>2, <2>3, Constants DEF NextJob, TypeOK
<1>17. CASE UNCHANGED vars
      BY <1>17 DEF vars, TypeOK, ThreadsOK
<1>18. QED
  <2>1. CASE Scan
        BY <2>1, <1>6, <1>7, <1>8, <1>9, <1>10, <1>11 DEF Scan, Threads
  <2>2. CASE Job
        BY <2>2, <1>7, <1>8, <1>13, <1>14, <1>15 DEF Job, Threads
  <2>3. QED BY <2>1, <2>2, <1>1, <1>2, <1>3, <1>4, <1>5, <1>12, <1>16, <1>17 DEF Next

\* The type invariant of the discovery: the rows, the plan in force and the plans in the
\* hands of the two threads, the scan and the files of each place.
THEOREM TimelineTypeCorrect == Spec => []TypeOK
BY TypeInit, TypeStep, PTL DEF Spec

-----------------------------------------------------------------------------
(* No hole at a primary switch.                                             *)

\* Files whose rows are in the timeline, or will be when the thread that took them
\* goes on.
Held == {g \in Files : \/ state[g] = "discovered"
                       \/ state[g] = "absent" /\ \E t \in Threads : g \in thread[t].new}

\* What a settled file held is held.
SkippedFilesAreHeld ==
    \A f \in Files : state[f] = "skipped" => \A m \in f.begin..f.end - 1 : Holds(Held, m)

\* A plan of the known primary that names none of its files in vain.
PlanIsHeld(p) == p.primary = known /\ \A g \in p.files : g.host = known => g \in Held

PlansAreHeld ==
    /\ PlanIsHeld(plan)
    /\ thread["job"].at = "pending" => PlanIsHeld(InHand("job"))

\* The job's thread settles what it has decided before it lists or decides again.
SettlesAlone == settle # {} => thread["job"].at = "idle"

\* A thread that took a file for unknown may find it settled by now, the scan only, and
\* never a file of the primary.
UnknownStays ==
    \A t \in Threads : \A g \in thread[t].files \cup thread[t].new :
        state[g] = "skipped" => t = "scan" /\ g.host # known

\* Files of the primary, which are never settled, hold what is about to be settled.
SettledIsCovered ==
    \A f \in settle : /\ f.host # known
                      /\ \A m \in f.begin..f.end - 1 : Holds({g \in Held : g.host = known}, m)

TimelineInv ==
    SkippedFilesAreHeld /\ PlansAreHeld /\ SettlesAlone /\ UnknownStays /\ SettledIsCovered

\* The initial states: nothing is registered yet.
LEMMA TimelineInit == Init => TimelineInv
<1> SUFFICES ASSUME Init PROVE TimelineInv
    OBVIOUS
<1>1. SkippedFilesAreHeld
      BY DEF Init, SkippedFilesAreHeld
<1>2. PlansAreHeld
  <2>1. thread["job"].at # "pending"
        BY DEF Init, IdleThread, Threads
  <2>2. PlanIsHeld(plan)
        BY DEF Init, PlanIsHeld
  <2>3. QED BY <2>1, <2>2 DEF PlansAreHeld
<1>3. UnknownStays
      BY DEF Init, UnknownStays, IdleThread
<1>4. SettlesAlone /\ SettledIsCovered
      BY DEF Init, SettlesAlone, SettledIsCovered
<1>5. QED BY <1>1, <1>2, <1>3, <1>4 DEF TimelineInv

\* As long as nothing that is held is given up and nothing is settled, what depends on
\* the held files alone stays.
LEMMA HeldStays ==
    ASSUME TimelineInv, Held \subseteq Held', known' = known, settle' = settle,
           \A f \in Files : state'[f] = "skipped" => state[f] = "skipped"
    PROVE  /\ SkippedFilesAreHeld' /\ SettledIsCovered'
           /\ \A p : PlanIsHeld(p) => PlanIsHeld(p)'
<1>1. ASSUME NEW m, Holds(Held, m) PROVE Holds(Held, m)'
      BY <1>1 DEF Holds
<1>2. ASSUME NEW m, Holds({g \in Held : g.host = known}, m) PROVE Holds({g \in Held : g.host = known}, m)'
      BY <1>2 DEF Holds
<1>3. SkippedFilesAreHeld'
      BY <1>1 DEF TimelineInv, SkippedFilesAreHeld
<1>4. SettledIsCovered'
      BY <1>2 DEF TimelineInv, SettledIsCovered
<1>5. ASSUME NEW p, PlanIsHeld(p) PROVE PlanIsHeld(p)'
      BY <1>5 DEF PlanIsHeld
<1>6. QED BY <1>3, <1>4, <1>5

\* Reading the plan again leaves the threads where they are, with the plan they have
\* taken in hand.
LEMMA RenewKeeps ==
    ASSUME TypeOK, NEW p, Renew(p), NEW t \in Threads
    PROVE  /\ thread'[t].at = thread[t].at
           /\ thread'[t].files = thread[t].files /\ thread'[t].new = thread[t].new
           /\ \/ thread'[t].old = thread[t].old
              \/ thread'[t].old = plan /\ thread[t].old = NoPlan
<1>1. thread[t] \in Hands
      BY DEF TypeOK, ThreadsOK
<1>2. \/ thread'[t] = thread[t]
      \/ thread'[t] = [thread[t] EXCEPT !.old = plan] /\ thread[t].old = NoPlan
      BY DEF Renew
<1>3. QED BY <1>1, <1>2 DEF Hands

\* A thread that is idle, or reads the rows to settle them, has no files in its hands.
LEMMA EmptyHands ==
    ASSUME TypeOK, NEW t \in Threads, thread[t].at \in {"idle", "pending"}
    PROVE  thread[t].files = {} /\ thread[t].new = {}
BY DEF TypeOK, ThreadsOK, InPlace

\* A listing: files whose rows are unknown get into the hands of a thread that was idle.
LEMMA ListedHeld ==
    ASSUME TypeOK, TimelineInv, NEW t \in Threads, NEW fs, Listed(t, fs), thread[t].at = "idle",
           t = "job" => settle = {}, UNCHANGED <<known, state, plan, settle>>
    PROVE  TimelineInv'
<1> DEFINE unknown == {f \in fs : state[f] = "absent"}
           d == IF unknown = {} THEN IdleThread ELSE [IdleThread EXCEPT !.at = "listed", !.files = unknown]
<1>1. thread \in [Threads -> Hands] /\ thread' = [thread EXCEPT ![t] = d]
      BY DEF Listed, TypeOK, ThreadsOK
<1>2. d.new = {} /\ d.files \subseteq unknown /\ d.at # "pending" /\ d.old = NoPlan
      BY DEF IdleThread
<1> HIDE DEF d
<1>3. \A u \in Threads : thread'[u] = IF u = t THEN d ELSE thread[u]
      BY <1>1
<1>4. thread[t].new = {}
      BY EmptyHands
<1>5. \A u \in Threads : thread'[u].new = thread[u].new
      BY <1>2, <1>3, <1>4
<1>6. Held' = Held
      BY <1>5 DEF Held
<1>7. SkippedFilesAreHeld' /\ SettledIsCovered' /\ \A p : PlanIsHeld(p) => PlanIsHeld(p)'
      BY <1>6, HeldStays
<1>8. PlansAreHeld'
  <2>1. PICK p : p = plan
        OBVIOUS
  <2>2. PlanIsHeld(plan)'
        BY <1>7, <2>1 DEF TimelineInv, PlansAreHeld, PlanIsHeld
  <2>3. ASSUME thread'["job"].at = "pending" PROVE PlanIsHeld(InHand("job"))'
    <3>1. t # "job" /\ thread'["job"] = thread["job"]
          BY <1>2, <1>3, <2>3 DEF Threads
    <3>2. PICK q : q = InHand("job")
          OBVIOUS
    <3>3. InHand("job")' = q
          BY <3>1, <3>2 DEF InHand
    <3>4. PlanIsHeld(q)
          BY <2>3, <3>1, <3>2 DEF TimelineInv, PlansAreHeld
    <3>5. PlanIsHeld(q)'
          BY <1>7, <3>4
    <3>6. QED BY <3>3, <3>5 DEF PlanIsHeld
  <2>4. QED BY <2>2, <2>3 DEF PlansAreHeld
<1>9. SettlesAlone'
  <2>1. CASE t = "job"
        BY <2>1 DEF SettlesAlone
  <2>2. CASE t # "job"
        BY <2>2, <1>3 DEF TimelineInv, SettlesAlone, Threads
  <2>3. QED BY <2>1, <2>2
<1>10. UnknownStays'
  <2>1. ASSUME NEW u \in Threads, NEW g \in thread'[u].files \cup thread'[u].new, state'[g] = "skipped"
        PROVE  u = "scan" /\ g.host # known'
    <3>1. CASE u = t
          BY <1>2, <1>3, <2>1, <3>1
    <3>2. CASE u # t
          BY <1>3, <2>1, <3>2 DEF TimelineInv, UnknownStays
    <3>3. QED BY <3>1, <3>2
  <2>2. QED BY <2>1 DEF UnknownStays
<1>11. QED BY <1>7, <1>8, <1>9, <1>10 DEF TimelineInv

\* A plan read again while the known primary stays.
LEMMA ReloadHeld ==
    ASSUME TypeOK, TimelineInv, Reload
    PROVE  TimelineInv'
<1>1. known \in Hosts /\ Renew(known) /\ UNCHANGED <<known, state, settle>>
      BY DEF Reload, TypeOK
<1>2. \A t \in Threads : thread'[t].at = thread[t].at /\ thread'[t].files = thread[t].files
                         /\ thread'[t].new = thread[t].new
      BY <1>1, RenewKeeps
<1>3. Held' = Held
      BY <1>1, <1>2 DEF Held
<1>4. SkippedFilesAreHeld' /\ SettledIsCovered' /\ \A p : PlanIsHeld(p) => PlanIsHeld(p)'
      BY <1>1, <1>3, HeldStays
<1>5. PlanIsHeld(plan)'
      BY <1>1, <1>3 DEF Renew, Fresh, Live, PlanIsHeld, Held
<1>6. ASSUME thread'["job"].at = "pending" PROVE PlanIsHeld(InHand("job"))'
  <2>1. PlanIsHeld(plan) /\ PlanIsHeld(InHand("job"))
        BY <1>2, <1>6 DEF TimelineInv, PlansAreHeld, Threads
  <2>2. PICK q : q = InHand("job")'
        OBVIOUS
  <2>3. CASE q = plan'
        BY <1>5, <2>2, <2>3 DEF PlanIsHeld
  <2>4. CASE q # plan'
    <3>1. thread'["job"].old = q
          BY <2>2, <2>4 DEF InHand
    <3>2. q = plan \/ q = InHand("job")
          BY <1>1, <2>2, <2>4, <3>1, RenewKeeps DEF InHand, Threads
    <3>3. PlanIsHeld(q)
          BY <2>1, <3>2
    <3>4. PlanIsHeld(q)'
          BY <1>4, <3>3
    <3>5. QED BY <2>2, <3>4 DEF PlanIsHeld
  <2>5. QED BY <2>3, <2>4
<1>7. SettlesAlone' /\ UnknownStays'
      BY <1>1, <1>2 DEF TimelineInv, SettlesAlone, UnknownStays, Threads
<1>8. QED BY <1>4, <1>5, <1>6, <1>7 DEF TimelineInv, PlansAreHeld

\* The primary is read again: no decision is under way, and the scan has no files in its
\* hands.
LEMMA RefreshHeld ==
    ASSUME TypeOK, TimelineInv, RefreshPrimary, DecisionsAreCurrent
    PROVE  TimelineInv'
<1>1. /\ primary \in Hosts /\ Renew(primary) /\ known' = primary /\ UNCHANGED <<state, settle>>
      /\ thread["scan"].at = "idle" /\ thread["job"].at # "pending" /\ settle = {}
      BY DEF RefreshPrimary, DecisionsAreCurrent, TypeOK
<1>2. \A t \in Threads : thread'[t].at = thread[t].at /\ thread'[t].files = thread[t].files
                         /\ thread'[t].new = thread[t].new
      BY <1>1, RenewKeeps
<1>3. Held' = Held
      BY <1>1, <1>2 DEF Held
<1>4. SkippedFilesAreHeld'
      BY <1>1, <1>3 DEF TimelineInv, SkippedFilesAreHeld, Holds
<1>5. PlanIsHeld(plan)'
      BY <1>1, <1>3 DEF Renew, Fresh, Live, PlanIsHeld, Held
<1>6. PlansAreHeld'
      BY <1>1, <1>2, <1>5 DEF PlansAreHeld, Threads
<1>7. thread["scan"].files = {} /\ thread["scan"].new = {}
      BY <1>1, EmptyHands DEF Threads
<1>8. UnknownStays'
      BY <1>1, <1>2, <1>7 DEF TimelineInv, UnknownStays, Threads
<1>9. SettlesAlone' /\ SettledIsCovered'
      BY <1>1 DEF SettlesAlone, SettledIsCovered
<1>10. QED BY <1>4, <1>6, <1>8, <1>9 DEF TimelineInv

\* Files are chosen: what the plan gets is in the hands of the thread.
LEMMA ChooseHeld ==
    ASSUME TypeOK, TimelineInv, NEW t \in Threads, Choose(t)
    PROVE  TimelineInv'
<1>1. PICK new \in SUBSET thread[t].files : Add(t, new)
      BY DEF Choose
<1>2. UNCHANGED <<known, state, settle>> /\ thread[t].at = "listed"
      BY DEF Choose
<1> DEFINE d == IF new = {} THEN IdleThread ELSE [IdleThread EXCEPT !.at = "chosen", !.new = new]
<1>3. d.new = new /\ d.files = {} /\ d.at \in {"idle", "chosen"}
      BY DEF IdleThread
<1>4. thread \in [Threads -> Hands] /\ thread' = [thread EXCEPT ![t] = d]
      BY <1>1 DEF Add, TypeOK, ThreadsOK
<1> HIDE DEF d
<1>5. \A u \in Threads : thread'[u] = IF u = t THEN d ELSE thread[u]
      BY <1>4
<1>6. thread[t].new = {} /\ new \subseteq Files
      BY <1>2 DEF TypeOK, ThreadsOK, InPlace, Hands
<1>7. \A u \in Threads : thread[u].new \subseteq thread'[u].new
      BY <1>3, <1>5, <1>6
<1>8. Held \subseteq Held'
      BY <1>2, <1>7 DEF Held
<1>9. SkippedFilesAreHeld' /\ SettledIsCovered' /\ \A p : PlanIsHeld(p) => PlanIsHeld(p)'
      BY <1>2, <1>8, HeldStays
<1>10. \A g \in new : g.host = known => g \in Held'
  <2>1. SUFFICES ASSUME NEW g \in new, g.host = known PROVE g \in Held'
        OBVIOUS
  <2>2. state[g] # "skipped"
        BY <2>1 DEF TimelineInv, UnknownStays
  <2>3. g \in Files /\ state[g] \in {"absent", "discovered"}
        BY <1>6, <2>2 DEF TypeOK
  <2>4. g \in thread'[t].new
        BY <1>3, <1>5
  <2>5. QED BY <1>2, <2>3, <2>4 DEF Held
<1>11. PlanIsHeld(plan)'
  <2>1. PICK p : p = plan
        OBVIOUS
  <2>2. PlanIsHeld(p)'
        BY <1>9, <2>1 DEF TimelineInv, PlansAreHeld
  <2>3. CASE plan' = plan
        BY <2>1, <2>2, <2>3 DEF PlanIsHeld
  <2>4. CASE plan' = With(plan, new)
    <3>1. plan'.primary = p.primary /\ plan'.files = p.files \cup new
          BY <2>1, <2>4 DEF With, TypeOK, Plans
    <3>2. QED BY <1>2, <1>10, <2>2, <3>1 DEF PlanIsHeld
  <2>5. QED BY <1>1, <2>3, <2>4 DEF Add
<1>12. ASSUME thread'["job"].at = "pending" PROVE PlanIsHeld(InHand("job"))'
  <2>1. thread'["job"] = thread["job"]
        BY <1>3, <1>5, <1>12 DEF Threads
  <2>2. CASE thread["job"].old = NoPlan
        BY <1>11, <2>1, <2>2 DEF InHand, PlanIsHeld
  <2>3. CASE thread["job"].old # NoPlan
    <3>1. PICK q : q = thread["job"].old
          OBVIOUS
    <3>2. PlanIsHeld(q)'
          BY <1>9, <1>12, <2>1, <2>3, <3>1 DEF TimelineInv, PlansAreHeld, InHand
    <3>3. InHand("job")' = q
          BY <2>1, <2>3, <3>1 DEF InHand
    <3>4. QED BY <3>2, <3>3 DEF PlanIsHeld
  <2>4. QED BY <2>2, <2>3
<1>13. SettlesAlone'
      BY <1>2, <1>5 DEF TimelineInv, SettlesAlone, Threads
<1>14. UnknownStays'
  <2>1. ASSUME NEW u \in Threads, NEW g \in thread'[u].files \cup thread'[u].new, state'[g] = "skipped"
        PROVE  u = "scan" /\ g.host # known'
    <3>1. g \in thread[u].files \cup thread[u].new
          BY <1>3, <1>5
    <3>2. QED BY <1>2, <2>1, <3>1 DEF TimelineInv, UnknownStays
  <2>2. QED BY <2>1 DEF UnknownStays
<1>15. QED BY <1>9, <1>11, <1>12, <1>13, <1>14 DEF TimelineInv, PlansAreHeld

\* Rows are written for what was chosen.
LEMMA RegisterHeld ==
    ASSUME TypeOK, TimelineInv, NEW t \in Threads, Register(t)
    PROVE  TimelineInv'
<1>1. UNCHANGED <<known, plan, settle>> /\ thread[t].at = "chosen"
      BY DEF Register
<1>2. thread \in [Threads -> Hands]
      BY DEF TypeOK, ThreadsOK
<1>3. \A u \in Threads : thread'[u] = IF u = t THEN IdleThread ELSE thread[u]
      BY <1>2 DEF Register
<1>4. \A f \in Files : state'[f] = IF f \in thread[t].new /\ state[f] = "absent" THEN "discovered" ELSE state[f]
      BY DEF Register
<1>5. Held \subseteq Held'
  <2>1. SUFFICES ASSUME NEW g \in Held PROVE g \in Held'
        OBVIOUS
  <2>2. g \in Files
        BY DEF Held
  <2>3. CASE state'[g] = "discovered"
        BY <2>2, <2>3 DEF Held
  <2>4. CASE state'[g] # "discovered"
    <3>1. state[g] # "discovered" /\ ~(g \in thread[t].new /\ state[g] = "absent")
          BY <1>4, <2>2, <2>4
    <3>2. state[g] = "absent" /\ state'[g] = "absent"
          BY <1>4, <2>2, <3>1 DEF Held
    <3>3. PICK u \in Threads : g \in thread[u].new
          BY <3>1, <3>2 DEF Held
    <3>4. thread'[u] = thread[u]
          BY <1>3, <3>1, <3>2, <3>3
    <3>5. QED BY <2>2, <3>2, <3>3, <3>4 DEF Held
  <2>5. QED BY <2>3, <2>4
<1>6. SkippedFilesAreHeld' /\ SettledIsCovered' /\ \A p : PlanIsHeld(p) => PlanIsHeld(p)'
      BY <1>1, <1>4, <1>5, HeldStays
<1>7. PlansAreHeld'
  <2>1. PICK p : p = plan
        OBVIOUS
  <2>2. PlanIsHeld(plan)'
        BY <1>1, <1>6, <2>1 DEF TimelineInv, PlansAreHeld, PlanIsHeld
  <2>3. ASSUME thread'["job"].at = "pending" PROVE PlanIsHeld(InHand("job"))'
    <3>1. thread'["job"] = thread["job"]
          BY <1>3, <2>3 DEF Threads, IdleThread
    <3>2. PICK q : q = InHand("job")
          OBVIOUS
    <3>3. InHand("job")' = q
          BY <1>1, <3>1, <3>2 DEF InHand
    <3>4. PlanIsHeld(q)'
          BY <1>6, <2>3, <3>1, <3>2 DEF TimelineInv, PlansAreHeld
    <3>5. QED BY <3>3, <3>4 DEF PlanIsHeld
  <2>4. QED BY <2>2, <2>3 DEF PlansAreHeld
<1>8. SettlesAlone'
      BY <1>1, <1>3 DEF TimelineInv, SettlesAlone, Threads, IdleThread
<1>9. UnknownStays'
  <2>1. ASSUME NEW u \in Threads, NEW g \in thread'[u].files \cup thread'[u].new, state'[g] = "skipped"
        PROVE  u = "scan" /\ g.host # known'
    <3>1. thread'[u] = thread[u]
          BY <1>3, <2>1 DEF IdleThread
    <3>2. g \in Files
          BY <1>2, <3>1 DEF Hands
    <3>3. state[g] = "skipped"
          BY <1>4, <2>1, <3>2
    <3>4. QED BY <1>1, <3>1, <3>3 DEF TimelineInv, UnknownStays
  <2>2. QED BY <2>1 DEF UnknownStays
<1>10. QED BY <1>6, <1>7, <1>8, <1>9 DEF TimelineInv

\* pending() takes the plan in hand.
LEMMA BeginPendingHeld ==
    ASSUME TypeOK, TimelineInv, BeginPending
    PROVE  TimelineInv'
<1>1. UNCHANGED <<known, plan, state, settle>> /\ settle = {} /\ thread["job"] = IdleThread
      BY DEF BeginPending, TypeOK, ThreadsOK, InPlace, Threads
<1>2. thread \in [Threads -> Hands] /\ thread' = [thread EXCEPT !["job"] = [IdleThread EXCEPT !.at = "pending"]]
      BY <1>1 DEF BeginPending, TypeOK, ThreadsOK
<1>3. \A t \in Threads : /\ thread'[t].files = thread[t].files
                         /\ thread'[t].new = thread[t].new
                         /\ thread'[t].old = thread[t].old
      BY <1>1, <1>2 DEF Hands, IdleThread
<1>4. Held' = Held
      BY <1>1, <1>3 DEF Held
<1>5. SkippedFilesAreHeld' /\ SettledIsCovered' /\ \A p : PlanIsHeld(p) => PlanIsHeld(p)'
      BY <1>1, <1>4, HeldStays
<1>6. PlansAreHeld'
  <2>1. PICK p : p = plan
        OBVIOUS
  <2>2. PlanIsHeld(p)'
        BY <1>5, <2>1 DEF TimelineInv, PlansAreHeld
  <2>3. InHand("job")' = p
        BY <1>1, <1>3, <2>1 DEF InHand, IdleThread, Threads
  <2>4. QED BY <1>1, <2>1, <2>2, <2>3 DEF PlansAreHeld, PlanIsHeld
<1>7. SettlesAlone' /\ UnknownStays'
      BY <1>1, <1>3 DEF TimelineInv, SettlesAlone, UnknownStays
<1>8. QED BY <1>5, <1>6, <1>7 DEF TimelineInv

\* Files of former primaries that the plan in hand covers are to be settled.
LEMMA DecideHeld ==
    ASSUME TypeOK, TimelineInv, Decide
    PROVE  TimelineInv'
<1>1. UNCHANGED <<known, plan, state>> /\ thread["job"].at = "pending"
      BY DEF Decide
<1>2. thread \in [Threads -> Hands]
      BY DEF TypeOK, ThreadsOK
<1>3. \A u \in Threads : thread'[u] = IF u = "job" THEN IdleThread ELSE thread[u]
      BY <1>2 DEF Decide
<1>4. thread["job"].new = {}
      BY <1>1, EmptyHands DEF Threads
<1>5. ASSUME NEW u \in Threads PROVE thread'[u].new = thread[u].new
  <2>1. CASE u = "job"
        BY <1>3, <1>4, <2>1 DEF IdleThread
  <2>2. CASE u # "job"
        BY <1>3, <2>2
  <2>3. QED BY <2>1, <2>2
<1>6. Held' = Held
      BY <1>1, <1>5 DEF Held
<1>7. SkippedFilesAreHeld'
      BY <1>1, <1>6 DEF TimelineInv, SkippedFilesAreHeld, Holds
<1>8. PlansAreHeld'
      BY <1>1, <1>3, <1>6 DEF TimelineInv, PlansAreHeld, PlanIsHeld, IdleThread, Threads
<1>9. SettlesAlone'
      BY <1>3 DEF SettlesAlone, IdleThread, Threads
<1>10. UnknownStays'
  <2>1. ASSUME NEW u \in Threads, NEW g \in thread'[u].files \cup thread'[u].new, state'[g] = "skipped"
        PROVE  u = "scan" /\ g.host # known'
    <3>1. thread'[u] = thread[u]
          BY <1>3, <2>1 DEF IdleThread
    <3>2. QED BY <1>1, <2>1, <3>1 DEF TimelineInv, UnknownStays
  <2>2. QED BY <2>1 DEF UnknownStays
<1>11. SettledIsCovered'
  <2>1. PICK p : p = InHand("job")
        OBVIOUS
  <2>2. p.primary = known /\ \A g \in p.files : g.host = known => g \in Held
        BY <1>1, <2>1 DEF TimelineInv, PlansAreHeld, PlanIsHeld
  <2>3. ASSUME NEW f \in settle' PROVE f.host # known /\ Spare(p, f)
        BY <2>1 DEF Decide
  <2>4. ASSUME NEW f \in settle', NEW m \in f.begin..f.end - 1
        PROVE  Holds({g \in Held : g.host = known}, m)
    <3>1. Holds({g \in p.files : g.host = known}, m)
          BY <2>2, <2>3 DEF Spare, Covered
    <3>2. QED BY <2>2, <3>1 DEF Holds
  <2>5. QED BY <1>1, <1>6, <2>3, <2>4 DEF SettledIsCovered, Holds
<1>12. QED BY <1>7, <1>8, <1>9, <1>10, <1>11 DEF TimelineInv

\* The decided files are settled: what they held, and what they held for others that
\* had been settled before, is held by files of the primary.
LEMMA SkipHeld ==
    ASSUME TypeOK, TimelineInv, Skip
    PROVE  TimelineInv'
<1>1. UNCHANGED <<known, plan, thread>> /\ settle' = {} /\ thread["job"].at = "idle"
      BY DEF Skip, TimelineInv, SettlesAlone
<1>2. \A f \in Files : state'[f] = IF f \in settle /\ state[f] = "discovered" THEN "skipped" ELSE state[f]
      BY DEF Skip
<1>3. \A g \in Held : g \notin settle => g \in Held'
      BY <1>1, <1>2 DEF Held
<1>4. \A f \in settle : f.host # known
      BY DEF TimelineInv, SettledIsCovered
<1>5. ASSUME NEW m, Holds({g \in Held : g.host = known}, m) PROVE Holds(Held, m)'
      BY <1>3, <1>4, <1>5 DEF Holds
<1>6. ASSUME NEW m, m \in Int, Holds(Held, m) PROVE Holds(Held, m)'
  <2>1. PICK g \in Held : g.begin <= m /\ m < g.end
        BY <1>6 DEF Holds
  <2>2. CASE g \notin settle
        BY <1>3, <2>1, <2>2 DEF Holds
  <2>3. CASE g \in settle
    <3>1. m \in g.begin..g.end - 1
          BY <1>6, <2>1, Constants DEF Held, Files
    <3>2. QED BY <1>5, <2>3, <3>1 DEF TimelineInv, SettledIsCovered
  <2>4. QED BY <2>2, <2>3
<1>7. SkippedFilesAreHeld'
  <2>1. SUFFICES ASSUME NEW f \in Files, state'[f] = "skipped", NEW m \in f.begin..f.end - 1
                 PROVE  Holds(Held, m)'
        BY DEF SkippedFilesAreHeld
  <2>2. m \in Int
        BY Constants DEF Files
  <2>3. CASE state[f] = "skipped"
        BY <1>6, <2>2, <2>3 DEF TimelineInv, SkippedFilesAreHeld
  <2>4. CASE f \in settle
        BY <1>5, <2>4 DEF TimelineInv, SettledIsCovered
  <2>5. QED BY <1>2, <2>1, <2>3, <2>4
<1>8. PlansAreHeld'
  <2>1. PlanIsHeld(plan)'
        BY <1>1, <1>3, <1>4 DEF TimelineInv, PlansAreHeld, PlanIsHeld
  <2>2. QED BY <1>1, <2>1 DEF PlansAreHeld
<1>9. SettlesAlone' /\ SettledIsCovered'
      BY <1>1 DEF SettlesAlone, SettledIsCovered
<1>10. UnknownStays'
  <2>1. ASSUME NEW u \in Threads, NEW g \in thread[u].files \cup thread[u].new, state'[g] = "skipped"
        PROVE  u = "scan" /\ g.host # known
    <3>1. g \in Files
          BY DEF TypeOK, ThreadsOK, Hands
    <3>2. CASE state[g] = "skipped"
          BY <3>2 DEF TimelineInv, UnknownStays
    <3>3. CASE g \in settle
      <4>1. thread["job"].files = {} /\ thread["job"].new = {}
            BY <1>1, EmptyHands DEF Threads
      <4>2. QED BY <1>4, <3>3, <4>1 DEF Threads
    <3>4. QED BY <1>2, <2>1, <3>1, <3>2, <3>3
  <2>2. QED BY <1>1, <2>1 DEF UnknownStays
<1>11. QED BY <1>7, <1>8, <1>9, <1>10 DEF TimelineInv

\* The next job begins with nothing in its hands; the one before left no file without
\* its row.
LEMMA NextJobHeld ==
    ASSUME TypeOK, TimelineInv, NextJob, ChoicesGetRows
    PROVE  TimelineInv'
<1>1. /\ state' = state /\ known' = primary /\ plan' = Fresh(primary)
      /\ settle' = {} /\ thread' = [t \in Threads |-> IdleThread]
      BY DEF NextJob
<1>2. \A t \in Threads : thread[t].new = {} /\ thread'[t] = IdleThread
      BY <1>1 DEF NextJob, ChoicesGetRows
<1>3. Held' = Held
      BY <1>1, <1>2 DEF Held, IdleThread
<1>4. SkippedFilesAreHeld'
      BY <1>1, <1>3 DEF TimelineInv, SkippedFilesAreHeld, Holds
<1>5. PlanIsHeld(plan)'
      BY <1>1, <1>3 DEF Fresh, Live, PlanIsHeld, Held
<1>6. PlansAreHeld'
      BY <1>2, <1>5 DEF PlansAreHeld, IdleThread, Threads
<1>7. UnknownStays'
      BY <1>2 DEF UnknownStays, IdleThread
<1>8. SettlesAlone' /\ SettledIsCovered'
      BY <1>1 DEF SettlesAlone, SettledIsCovered
<1>9. QED BY <1>4, <1>6, <1>7, <1>8 DEF TimelineInv

\* Every step keeps the invariant.
LEMMA TimelineStep ==
    ASSUME TypeOK, TimelineInv, [Next]_vars, [ChoicesGetRows /\ DecisionsAreCurrent]_vars
    PROVE  TimelineInv'
<1>1. ASSUME UNCHANGED <<state, known, settle, plan, thread>> PROVE TimelineInv'
  <2>1. Held' = Held
        BY <1>1 DEF Held
  <2>2. SkippedFilesAreHeld' /\ SettledIsCovered'
        BY <1>1, <2>1 DEF TimelineInv, SkippedFilesAreHeld, SettledIsCovered, Holds
  <2>3. PlansAreHeld' /\ SettlesAlone' /\ UnknownStays'
        BY <1>1, <2>1 DEF TimelineInv, PlansAreHeld, PlanIsHeld, InHand, SettlesAlone, UnknownStays
  <2>4. QED BY <2>2, <2>3 DEF TimelineInv
<1>2. CASE Tick
      BY <1>1, <1>2 DEF Tick
<1>3. ASSUME NEW f \in closed, Upload(f) PROVE TimelineInv'
      BY <1>1, <1>3 DEF Upload
<1>4. ASSUME NEW f \in shown, Expire(f) PROVE TimelineInv'
      BY <1>1, <1>4 DEF Expire
<1>5. ASSUME NEW h \in Hosts, Switch(h) PROVE TimelineInv'
      BY <1>1, <1>5 DEF Switch
<1>6. CASE BeginScan
      BY <1>1, <1>6 DEF BeginScan
<1>7. CASE EndScan
      BY <1>1, <1>7 DEF EndScan
<1>8. CASE ScanPage
  <2>1. PICK fs : Listed("scan", fs)
        BY <1>8 DEF ScanPage
  <2>2. thread["scan"].at = "idle" /\ UNCHANGED <<known, state, plan, settle>>
        BY <1>8 DEF ScanPage
  <2>3. QED BY <2>1, <2>2, ListedHeld DEF Threads
<1>9. ASSUME NEW f \in shown, ListLive(f) PROVE TimelineInv'
      BY <1>9, ListedHeld DEF ListLive, Threads
<1>10. ASSUME NextJob PROVE TimelineInv'
  <2>1. CASE vars' = vars
        BY <1>1, <2>1 DEF vars
  <2>2. CASE ChoicesGetRows
        BY <1>10, <2>2, NextJobHeld
  <2>3. QED BY <2>1, <2>2
<1>11. ASSUME RefreshPrimary PROVE TimelineInv'
  <2>1. CASE vars' = vars
        BY <1>1, <2>1 DEF vars
  <2>2. CASE DecisionsAreCurrent
        BY <1>11, <2>2, RefreshHeld
  <2>3. QED BY <2>1, <2>2
<1>12. CASE Scan
  <2>1. "scan" \in Threads
        BY DEF Threads
  <2>2. QED BY <1>6, <1>7, <1>8, <1>11, <1>12, <2>1, ChooseHeld, RegisterHeld DEF Scan
<1>13. CASE Job
  <2>1. "job" \in Threads
        BY DEF Threads
  <2>2. QED BY <1>13, <2>1, ChooseHeld, RegisterHeld, BeginPendingHeld, DecideHeld, SkipHeld DEF Job
<1>14. CASE UNCHANGED vars
      BY <1>1, <1>14 DEF vars
<1>15. QED
      BY <1>2, <1>3, <1>4, <1>5, <1>9, <1>10, <1>12, <1>13, <1>14, ReloadHeld DEF Next

\* "no hole at a primary switch", whatever the order of listings, uploads, expiries,
\* decisions and switches, and however many: while no job ends with chosen files that
\* have no rows and the primary is not read again in the middle of a decision.  TLC
\* finds a hole without either (README).
THEOREM NoHoleAtASwitch ==
    Spec /\ [][ChoicesGetRows /\ DecisionsAreCurrent]_vars => []SkippedIsHeld
<1>1. TimelineInv => SkippedIsHeld
  <2>1. Held \subseteq Live \cup UNION {thread[t].new : t \in Threads}
        BY DEF Held, Live
  <2>2. QED BY <2>1 DEF TimelineInv, SkippedFilesAreHeld, SkippedIsHeld, Holds
<1>2. QED BY <1>1, TypeInit, TypeStep, TimelineInit, TimelineStep, PTL DEF Spec
=============================================================================
