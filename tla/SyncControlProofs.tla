--------------------------- MODULE SyncControlProofs ---------------------------
(***************************************************************************)
(* What SyncControl keeps for every value of its bounds.  FlagMirrorsPause  *)
(* is inductive as it stands; the type invariant only needs itself.         *)
(***************************************************************************)
EXTENDS SyncControl, TLAPS

\* A budget that is spent was positive.
LEMMA SpendKeepsType ==
    ASSUME left \in [{"order", "stall", "hang", "freeze", "fault", "crash"} -> Nat],
           NEW events, Spend(events)
    PROVE  left' \in [{"order", "stall", "hang", "freeze", "fault", "crash"} -> Nat]
<1>1. \A e \in DOMAIN left : (IF e \in events THEN left[e] - 1 ELSE left[e]) \in Nat
  <2>1. \A e \in events \cap DOMAIN left : left[e] > 0 /\ left[e] \in Nat
    BY DEF Spend
  <2>2. \A n \in Nat : n > 0 => n - 1 \in Nat
    BY SMT
  <2> QED BY <2>1, <2>2
<1> QED BY <1>1 DEF Spend

Budgets == [{"order", "stall", "hang", "freeze", "fault", "crash"} -> Nat]
Rounds  == [at : {"wait", "lock", "decide", "start", "hung"}, auto : BOOLEAN, running : BOOLEAN]

\* The initial states are well typed.
LEMMA ControlTypeInit == Init => TypeOK
<1> SUFFICES ASSUME Init PROVE TypeOK
  OBVIOUS
<1>1. left \in Budgets
  BY BoundsAssumption DEF Init, Budgets, BoundsAssumption
<1>2. sched \in Rounds
  BY DEF Init, Waiting, Rounds
<1> QED BY <1>1, <1>2 DEF Init, TypeOK, Budgets, Rounds

\* The budgets stay natural numbers: nothing is spent that is not left.
LEMMA BudgetStep == left \in Budgets /\ [Next]_vars => left' \in Budgets
<1> SUFFICES ASSUME left \in Budgets, [Next]_vars PROVE left' \in Budgets
  OBVIOUS
<1>1. CASE \E events : Spend(events)
  BY <1>1, SpendKeepsType DEF Budgets
<1>2. CASE UNCHANGED left
  BY <1>2
<1>3. (\E events : Spend(events)) \/ UNCHANGED left
  <2>1. CASE Operator
    BY <2>1 DEF Operator, Request, RequestPause, SetAutoSync
  <2>2. CASE Scheduler
    BY <2>2 DEF Scheduler, ReadSettings, ReadControl, Decide, AutoStart, RoundFails, unscheduled
  <2>3. CASE JobThread
    BY <2>3 DEF JobThread, StopAtBoundary, FinishJob, EndUnrecorded, ThreadEnds, StopProgress,
                ResumeProgress
  <2>4. CASE Watchdog
    BY <2>4 DEF Watchdog, CheckJob, CheckScheduler, RequestAbort, GracePasses
  <2>5. CASE Process
    BY <2>5 DEF Process, Exit, Crash, Boot, Reconcile
  <2>6. CASE DeadlinePasses \/ IntervalPasses \/ SchedulerHangs \/ UNCHANGED vars
    BY <2>6 DEF DeadlinePasses, IntervalPasses, SchedulerHangs, unscheduled, vars
  <2> QED BY <2>1, <2>2, <2>3, <2>4, <2>5, <2>6 DEF Next
<1> QED BY <1>1, <1>2, <1>3

\* The scheduler's position and what it has read keep their ranges.
LEMMA RoundStep == sched \in Rounds /\ auto \in BOOLEAN /\ [Next]_vars => sched' \in Rounds
<1> SUFFICES ASSUME sched \in Rounds, auto \in BOOLEAN, [Next]_vars PROVE sched' \in Rounds
  OBVIOUS
<1>1. Waiting \in Rounds
  BY DEF Waiting, Rounds
<1>2. Running \in BOOLEAN
  BY DEF Running
<1>3. \A at \in {"lock", "decide", "start", "hung"} : [sched EXCEPT !.at = at] \in Rounds
  BY DEF Rounds
<1>4. [sched EXCEPT !.at = "lock", !.auto = auto] \in Rounds
  BY DEF Rounds
<1>5. [sched EXCEPT !.at = "decide", !.running = Running] \in Rounds
  BY <1>2 DEF Rounds
<1>6. CASE Scheduler \/ SchedulerHangs
  <2>1. CASE ReadSettings
    BY <2>1, <1>4 DEF ReadSettings
  <2>2. CASE ReadControl
    BY <2>2, <1>1, <1>5 DEF ReadControl
  <2>3. CASE Decide
    BY <2>3, <1>1, <1>3 DEF Decide
  <2>4. CASE AutoStart \/ RoundFails
    BY <2>4, <1>1 DEF AutoStart, RoundFails
  <2>5. CASE SchedulerHangs
    BY <2>5, <1>3 DEF SchedulerHangs
  <2> QED BY <1>6, <2>1, <2>2, <2>3, <2>4, <2>5 DEF Scheduler
<1>7. CASE Process
  BY <1>7, <1>1 DEF Process, Exit, Crash, Down, Boot, Reconcile, threads
<1>8. CASE Operator \/ DeadlinePasses \/ IntervalPasses \/ UNCHANGED vars
  BY <1>8 DEF Operator, Request, RequestPause, SetAutoSync, DeadlinePasses, IntervalPasses, threads, vars
<1>9. CASE JobThread \/ Watchdog
  BY <1>9 DEF JobThread, StopAtBoundary, FinishJob, EndUnrecorded, ThreadEnds, StopProgress,
              ResumeProgress, Watchdog, CheckJob, CheckScheduler, RequestAbort, GracePasses,
              unworked, unwatched, threads
<1> QED BY <1>6, <1>7, <1>8, <1>9 DEF Next

\* The remaining variables hold one of a few values each.
Flags  == due \in BOOLEAN /\ auto \in BOOLEAN /\ flag \in BOOLEAN /\ abort \in BOOLEAN
          /\ grace \in BOOLEAN /\ elapsed \in BOOLEAN
Labels == /\ mode \in {"none", "manual", "maintenance"} /\ up \in {"down", "boot", "up"}
          /\ worker \in {"none", "working", "stalled", "hung", "ending"}
          /\ status \in {"none", "running", "success", "warning", "failed", "paused"}
          /\ by \in {"none", "auto", "query", "manual"} /\ dog \in {"idle", "abort", "exit"}

\* Boolean variables stay Boolean.
LEMMA FlagsStep == Flags /\ [Next]_vars => Flags'
<1> SUFFICES ASSUME Flags, [Next]_vars PROVE Flags'
  OBVIOUS
<1> USE DEF Flags, pause, threads, job, unscheduled, unworked, unwatched
<1>1. CASE Operator
  BY <1>1 DEF Operator, Request, Start, StartFails, ClearRequests, RequestPause, SetAutoSync
<1>2. CASE ReadSettings \/ ReadControl \/ Decide
  BY <1>2 DEF ReadSettings, ReadControl, Decide
<1>3. CASE AutoStart \/ RoundFails
  BY <1>3 DEF AutoStart, RoundFails, Start, StartFails, ClearRequests
<1>4. CASE JobThread
  BY <1>4 DEF JobThread, StopAtBoundary, FinishJob, EndUnrecorded, ThreadEnds, StopProgress,
              ResumeProgress
<1>5. CASE Watchdog
  BY <1>5 DEF Watchdog, CheckJob, CheckScheduler, RequestAbort, GracePasses
<1>6. CASE Process
  BY <1>6 DEF Process, Exit, Crash, Down, Boot, Reconcile
<1>7. CASE DeadlinePasses \/ IntervalPasses \/ SchedulerHangs \/ UNCHANGED vars
  BY <1>7 DEF DeadlinePasses, IntervalPasses, SchedulerHangs, vars
<1> QED BY <1>1, <1>2, <1>3, <1>4, <1>5, <1>6, <1>7 DEF Next, Scheduler

\* Named states stay among those the code knows.
LEMMA LabelsStep == Labels /\ [Next]_vars => Labels'
<1> SUFFICES ASSUME Labels, [Next]_vars PROVE Labels'
  OBVIOUS
<1> USE DEF Labels, pause, threads, job, unscheduled, unworked, unwatched
<1>1. CASE Operator
  BY <1>1 DEF Operator, Request, Start, StartFails, ClearRequests, RequestPause, SetAutoSync
<1>2. CASE ReadSettings \/ ReadControl \/ Decide
  BY <1>2 DEF ReadSettings, ReadControl, Decide
<1>3. CASE AutoStart \/ RoundFails
  BY <1>3 DEF AutoStart, RoundFails, Start, StartFails, ClearRequests
<1>4. CASE JobThread
  BY <1>4 DEF JobThread, StopAtBoundary, FinishJob, EndUnrecorded, ThreadEnds, StopProgress,
              ResumeProgress
<1>5. CASE Watchdog
  BY <1>5 DEF Watchdog, CheckJob, CheckScheduler, RequestAbort, GracePasses
<1>6. CASE Process
  BY <1>6 DEF Process, Exit, Crash, Down, Boot, Reconcile
<1>7. CASE DeadlinePasses \/ IntervalPasses \/ SchedulerHangs \/ UNCHANGED vars
  BY <1>7 DEF DeadlinePasses, IntervalPasses, SchedulerHangs, vars
<1> QED BY <1>1, <1>2, <1>3, <1>4, <1>5, <1>6, <1>7 DEF Next, Scheduler

\* Every variable keeps its range (TypeOK).
THEOREM ControlTypeCorrect == Spec => []TypeOK
<1>1. TypeOK <=> Labels /\ Flags /\ sched \in Rounds /\ left \in Budgets
  BY DEF TypeOK, Labels, Flags, Rounds, Budgets
<1>2. TypeOK' <=> Labels' /\ Flags' /\ sched' \in Rounds /\ left' \in Budgets
  BY DEF TypeOK, Labels, Flags, Rounds, Budgets
<1>3. TypeOK /\ [Next]_vars => TypeOK'
  <2> SUFFICES ASSUME TypeOK, [Next]_vars PROVE TypeOK'
    OBVIOUS
  <2>1. auto \in BOOLEAN
    BY DEF TypeOK
  <2> QED BY <1>1, <1>2, <2>1, LabelsStep, FlagsStep, RoundStep, BudgetStep
<1> QED BY <1>3, ControlTypeInit, PTL DEF Spec

\* The event and the pause file agree in every running process (FlagMirrorsPause):
\* each step that writes one writes both, and a new process reads the file first.
THEOREM FlagIsPauseFile == Spec => []FlagMirrorsPause
<1>1. Init => FlagMirrorsPause
  BY DEF Init, FlagMirrorsPause
<1>2. FlagMirrorsPause /\ [Next]_vars => FlagMirrorsPause'
  <2> SUFFICES ASSUME FlagMirrorsPause, [Next]_vars PROVE FlagMirrorsPause'
    OBVIOUS
  <2> USE DEF FlagMirrorsPause, pause, threads, job, unscheduled, unworked, unwatched
  <2>1. ASSUME NEW reason, Request(reason) PROVE FlagMirrorsPause'
    BY <2>1 DEF Request, Start, StartFails, ClearRequests
  <2>2. ASSUME NEW timed \in BOOLEAN, RequestPause(timed) PROVE FlagMirrorsPause'
    BY <2>2 DEF RequestPause
  <2>3. CASE SetAutoSync \/ DeadlinePasses
    BY <2>3 DEF SetAutoSync, DeadlinePasses
  <2>4. CASE Scheduler
    BY <2>4 DEF Scheduler, ReadSettings, ReadControl, Decide, AutoStart, RoundFails,
                Start, StartFails, ClearRequests
  <2>5. CASE IntervalPasses \/ SchedulerHangs
    BY <2>5 DEF IntervalPasses, SchedulerHangs
  <2>6. CASE JobThread
    BY <2>6 DEF JobThread, StopAtBoundary, FinishJob, EndUnrecorded, ThreadEnds, StopProgress,
                ResumeProgress
  <2>7. CASE Watchdog
    BY <2>7 DEF Watchdog, CheckJob, CheckScheduler, RequestAbort, GracePasses
  <2>8. CASE Process
    BY <2>8 DEF Process, Exit, Crash, Down, Boot, Reconcile
  <2>9. CASE UNCHANGED vars
    BY <2>9 DEF vars
  <2> QED
    BY <2>1, <2>2, <2>3, <2>4, <2>5, <2>6, <2>7, <2>8, <2>9 DEF Next, Operator
<1> QED BY <1>1, <1>2, PTL DEF Spec

\* Only its deadline or a manual start ends a pause (PauseEndsOnPurpose).
THEOREM PausesEndOnPurpose == Spec => PauseEndsOnPurpose
<1> DEFINE Purpose == mode # "none" /\ mode' = "none" =>
                          (mode = "maintenance" /\ due) \/ Request("manual")
<1>1. [Next]_vars => Purpose
  <2> SUFFICES ASSUME [Next]_vars, mode # "none", mode' = "none"
               PROVE  (mode = "maintenance" /\ due) \/ Request("manual")
    OBVIOUS
  <2> USE DEF pause, threads, job, unscheduled, unworked, unwatched
  <2>1. CASE Operator
    BY <2>1 DEF Operator, Request, Start, StartFails, MayStart, RequestPause, SetAutoSync
  <2>2. CASE Scheduler
    BY <2>2 DEF Scheduler, ReadSettings, ReadControl, Decide, AutoStart, RoundFails, Start, MayStart
  <2>3. CASE JobThread
    BY <2>3 DEF JobThread, StopAtBoundary, FinishJob, EndUnrecorded, ThreadEnds, StopProgress,
                ResumeProgress
  <2>4. CASE Watchdog
    BY <2>4 DEF Watchdog, CheckJob, CheckScheduler, RequestAbort, GracePasses
  <2>5. CASE Process
    BY <2>5 DEF Process, Exit, Crash, Down, Boot, Reconcile
  <2>6. CASE DeadlinePasses \/ IntervalPasses \/ SchedulerHangs \/ UNCHANGED vars
    BY <2>6 DEF DeadlinePasses, IntervalPasses, SchedulerHangs, vars
  <2> QED BY <2>1, <2>2, <2>3, <2>4, <2>5, <2>6 DEF Next
<1>2. [Next]_vars => [Purpose]_vars
  BY <1>1
<1> QED BY <1>2, PTL DEF Spec, PauseEndsOnPurpose, Purpose
=============================================================================
