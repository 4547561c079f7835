--------------------------- MODULE QueryTasksProofs ---------------------------
(***************************************************************************)
(* What QueryTasks keeps for any set of tasks, any number of workers and    *)
(* any bounds.  Neither property is inductive alone: that a published       *)
(* result stays and that an ended task stays ended both rest on which rows  *)
(* a thread at a given place can still own (Bookkeeping).                   *)
(***************************************************************************)
EXTENDS QueryTasks, TLAPS

Budgets  == [{"fault", "crash"} -> Nat]
Statuses == Active \cup Terminal \cup {"none", "pruned"}

\* A budget that is spent was positive.
LEMMA SpendKeepsType == ASSUME left \in Budgets, NEW e \in {"fault", "crash"}, Spend(e)
                        PROVE  left' \in Budgets
<1>1. left[e] \in Nat /\ left[e] > 0
  BY DEF Spend, Budgets
<1>2. left[e] - 1 \in Nat
  BY <1>1
<1> QED BY <1>2 DEF Spend, Budgets

\* The initial states are well typed.
LEMMA TypeInit == Init => TypeOK
BY TaskAssumption DEF Init, TypeOK, Active, Terminal, Places, TaskAssumption

\* A thread's step writes statuses and places of the model only.
LEMMA TypeOfRun == ASSUME TypeOK, NEW t \in Tasks, Run(t) PROVE TypeOK'
<1> USE DEF TypeOK, Goto, SetRow, table, memory
<1>1. Statuses = Active \cup Terminal \cup {"none", "pruned"}
  BY DEF Statuses
<1>2. CASE BeginTask(t)
  BY <1>2 DEF BeginTask, Active, Places
<1>3. CASE Query(t) \/ WriteResult(t) \/ Recheck(t) \/ DiscardResult(t)
  BY <1>3 DEF Query, WriteResult, Recheck, DiscardResult, Places
<1>4. CASE Publish(t) \/ EndAs(t, "cancel", "cancelled") \/ EndAs(t, "fail", "failed")
  BY <1>4 DEF Publish, EndAs, Terminal, Places
<1>5. CASE PruneRows(t)
  BY <1>5 DEF PruneRows, Prune, Surplus, Places
<1>6. CASE UnlinkPruned(t) \/ PopControl(t)
  BY <1>6 DEF UnlinkPruned, PopControl, Places
<1> QED BY <1>2, <1>3, <1>4, <1>5, <1>6 DEF Run

\* So do all other steps.
LEMMA TypeStep == TypeOK /\ [Next]_vars => TypeOK'
<1> SUFFICES ASSUME TypeOK, [Next]_vars PROVE TypeOK'
  OBVIOUS
<1>1. ASSUME NEW t \in Tasks, NEW indexedOnly \in BOOLEAN, Submit(t, indexedOnly) PROVE TypeOK'
  BY <1>1 DEF TypeOK, Submit, SetRow, Active, Places
<1>2. ASSUME NEW t \in Tasks, RequestCancel(t) PROVE TypeOK'
  <2>1. row' \in [Tasks -> Statuses]
    BY <1>2 DEF TypeOK, RequestCancel, SetRow, Active, Terminal, Statuses
  <2> QED BY <1>2, <2>1 DEF TypeOK, RequestCancel, Statuses
<1>3. ASSUME NEW t \in Tasks, SignalCancel(t) PROVE TypeOK'
  BY <1>3 DEF TypeOK, SignalCancel, table, Places
<1>4. ASSUME NEW t \in Tasks, Run(t) PROVE TypeOK'
  BY <1>4, TypeOfRun
<1>5. ASSUME NEW t \in Tasks, EndFails(t) \/ PruneFails(t) PROVE TypeOK'
  <2>1. left' \in Budgets
    BY <1>5, SpendKeepsType DEF TypeOK, EndFails, PruneFails, Budgets
  <2> QED BY <1>5, <2>1 DEF TypeOK, EndFails, PruneFails, Goto, table, memory, Places, Budgets
<1>6. CASE Close \/ Crash
  <2>1. left' \in Budgets
    BY <1>6, SpendKeepsType DEF TypeOK, Close, Crash, Budgets
  <2> QED BY <1>6, <2>1 DEF TypeOK, Close, Crash, table, Places, Budgets
<1>7. CASE Exit
  BY <1>7 DEF TypeOK, Exit, table, Places
<1>8. CASE Restart
  BY <1>8 DEF TypeOK, Restart, Terminal
<1>9. CASE UNCHANGED vars
  BY <1>9 DEF TypeOK, vars
<1> QED BY <1>1, <1>2, <1>3, <1>4, <1>5, <1>6, <1>7, <1>8, <1>9 DEF Next

\* The type invariant (TypeOK).
THEOREM TasksTypeCorrect == Spec => []TypeOK
<1> QED BY TypeInit, TypeStep, PTL DEF Spec

(***************************************************************************)
(* Which rows and files the threads own.                                    *)
(***************************************************************************)
\* Between start_query_task and finish_query_task.
Owning == {"work", "write", "recheck", "discard", "publish", "cancel", "fail"}

Bookkeeping ==
    /\ \A t \in Tasks : pc[t] \in Owning => row[t] \in {"running", "cancelling"}
    /\ up = "down" => \A t \in Tasks : pc[t] = "none"
    /\ \A t \in Tasks : pc[t] \in {"recheck", "publish"} => t \in files
    /\ \A t \in result : row[t] = "succeeded"
    /\ \A t \in Tasks : \A u \in doomed[t] : row[u] = "pruned"
    /\ PublishedHasResult

\* A thread that owns its row is the only one to end it, and what is unlinked is
\* named by no row any more.
LEMMA BookkeepingOfRun ==
    ASSUME TypeOK, Bookkeeping, NEW t \in Tasks, Run(t) PROVE Bookkeeping'
<1> USE DEF TypeOK, Bookkeeping, PublishedHasResult, Goto, SetRow, table, memory, Owning
<1>1. CASE BeginTask(t)
  BY <1>1 DEF BeginTask
<1>2. CASE Query(t) \/ WriteResult(t) \/ Recheck(t)
  BY <1>2 DEF Query, WriteResult, Recheck
<1>3. CASE DiscardResult(t)
  BY <1>3 DEF DiscardResult
<1>4. CASE Publish(t)
  BY <1>4 DEF Publish
<1>5. CASE EndAs(t, "cancel", "cancelled") \/ EndAs(t, "fail", "failed")
  BY <1>5 DEF EndAs
<1>6. CASE PruneRows(t)
  <2> DEFINE old == Surplus
  <2>1. \A u \in old : row[u] \in Terminal /\ u \in Tasks
    BY DEF Surplus
  <2>2. \A u \in Tasks : pc[u] \in Owning => u \notin old
    BY <2>1 DEF Terminal
  <2> HIDE DEF old
  <2>3. Prune(t, old)
    BY <1>6 DEF PruneRows, old
  <2> QED BY <2>1, <2>2, <2>3 DEF Prune
<1>7. CASE UnlinkPruned(t)
  BY <1>7 DEF UnlinkPruned
<1>8. CASE PopControl(t)
  BY <1>8 DEF PopControl
<1> QED BY <1>1, <1>2, <1>3, <1>4, <1>5, <1>6, <1>7, <1>8 DEF Run

\* Bookkeeping is inductive: requests, faults, crashes and restarts keep it too.
LEMMA BookkeepingStep == TypeOK /\ Bookkeeping /\ [Next]_vars => Bookkeeping'
<1> SUFFICES ASSUME TypeOK, Bookkeeping, [Next]_vars PROVE Bookkeeping'
  OBVIOUS
<1> USE DEF TypeOK, Bookkeeping, PublishedHasResult, Goto, SetRow, table, memory, Owning
<1>1. ASSUME NEW t \in Tasks, NEW indexedOnly \in BOOLEAN, Submit(t, indexedOnly) PROVE Bookkeeping'
  BY <1>1 DEF Submit
<1>2. ASSUME NEW t \in Tasks, RequestCancel(t) PROVE Bookkeeping'
  BY <1>2 DEF RequestCancel
<1>3. ASSUME NEW t \in Tasks, SignalCancel(t) PROVE Bookkeeping'
  BY <1>3 DEF SignalCancel
<1>4. ASSUME NEW t \in Tasks, Run(t) PROVE Bookkeeping'
  BY <1>4, BookkeepingOfRun
<1>5. ASSUME NEW t \in Tasks, EndFails(t) \/ PruneFails(t) PROVE Bookkeeping'
  BY <1>5 DEF EndFails, PruneFails
<1>6. CASE Close \/ Exit \/ Crash
  BY <1>6 DEF Close, Exit, Crash
<1>7. CASE Restart
  BY <1>7 DEF Restart, Active
<1>8. CASE UNCHANGED vars
  BY <1>8 DEF vars
<1> QED BY <1>1, <1>2, <1>3, <1>4, <1>5, <1>6, <1>7, <1>8 DEF Next

\* Every row that names a result has its file (PublishedHasResult).
THEOREM PublishedResultsExist == Spec => []PublishedHasResult
<1>1. Init => Bookkeeping
  BY DEF Init, Bookkeeping, PublishedHasResult, Owning
<1>2. Bookkeeping => PublishedHasResult
  BY DEF Bookkeeping
<1> QED BY <1>1, <1>2, TypeInit, TypeStep, BookkeepingStep, PTL DEF Spec

\* A task that has ended is only ever pruned (FinalTaskStays).
THEOREM EndedTasksStayEnded == Spec => FinalTaskStays
<1> DEFINE Stays == \A t \in Tasks : row[t] \in Terminal => row'[t] \in {row[t], "pruned"}
<1>1. TypeOK /\ Bookkeeping /\ [Next]_vars => Stays
  <2> SUFFICES ASSUME TypeOK, Bookkeeping, [Next]_vars, NEW u \in Tasks, row[u] \in Terminal
               PROVE  row'[u] \in {row[u], "pruned"}
    OBVIOUS
  <2> USE DEF TypeOK, Goto, SetRow, table, memory, Terminal
  <2>1. ASSUME NEW t \in Tasks, NEW indexedOnly \in BOOLEAN, Submit(t, indexedOnly)
        PROVE row'[u] \in {row[u], "pruned"}
    BY <2>1 DEF Submit
  <2>2. ASSUME NEW t \in Tasks, RequestCancel(t) \/ SignalCancel(t)
        PROVE row'[u] \in {row[u], "pruned"}
    BY <2>2 DEF RequestCancel, SignalCancel
  <2>3. ASSUME NEW t \in Tasks, Run(t) PROVE row'[u] \in {row[u], "pruned"}
    <3>1. pc[t] \in Owning => row[t] \in {"running", "cancelling"}
      BY DEF Bookkeeping
    <3>2. CASE BeginTask(t)
      BY <3>2 DEF BeginTask
    <3>3. CASE Query(t) \/ WriteResult(t) \/ Recheck(t) \/ DiscardResult(t)
      BY <3>3 DEF Query, WriteResult, Recheck, DiscardResult
    <3>4. CASE Publish(t) \/ EndAs(t, "cancel", "cancelled") \/ EndAs(t, "fail", "failed")
      BY <3>1, <3>4 DEF Publish, EndAs, Owning
    <3>5. CASE PruneRows(t)
      BY <3>5 DEF PruneRows, Prune
    <3>6. CASE UnlinkPruned(t) \/ PopControl(t)
      BY <3>6 DEF UnlinkPruned, PopControl
    <3> QED BY <2>3, <3>2, <3>3, <3>4, <3>5, <3>6 DEF Run
  <2>4. ASSUME NEW t \in Tasks, EndFails(t) \/ PruneFails(t) PROVE row'[u] \in {row[u], "pruned"}
    BY <2>4 DEF EndFails, PruneFails
  <2>5. CASE Close \/ Exit \/ Crash
    BY <2>5 DEF Close, Exit, Crash
  <2>6. CASE Restart
    BY <2>6 DEF Restart, Active
  <2>7. CASE UNCHANGED vars
    BY <2>7 DEF vars
  <2> QED BY <2>1, <2>2, <2>3, <2>4, <2>5, <2>6, <2>7 DEF Next
<1>2. Init => Bookkeeping
  BY DEF Init, Bookkeeping, PublishedHasResult, Owning
<1>3. TypeOK /\ Bookkeeping /\ [Next]_vars => [Stays]_vars
  BY <1>1
<1> QED BY <1>2, <1>3, TypeInit, TypeStep, BookkeepingStep, PTL DEF Spec, FinalTaskStays, Stays

(***************************************************************************)
(* Rows that say a task is queued or running have a thread.                 *)
(***************************************************************************)
Threads ==
    /\ left.fault <= MaxFaults
    /\ \A t \in Tasks : pc[t] = "queued" => row[t] \in {"queued", "cancelled", "pruned"}
    /\ \A t \in signals : row[t] \notin {"none", "queued"}
    /\ up = "up" /\ left.fault = MaxFaults =>
         \A t \in Tasks : row[t] \in Active => pc[t] \in {"queued"} \cup Owning

\* A cancelled task is never taken off the executor with its row still queued, and
\* a thread leaves its task only with the row ended or a statement failed.
LEMMA ThreadsStep == TypeOK /\ Bookkeeping /\ Threads /\ [Next]_vars => Threads'
<1> SUFFICES ASSUME TypeOK, Bookkeeping, Threads, [Next]_vars PROVE Threads'
  OBVIOUS
<1> USE DEF TypeOK, Threads, Goto, SetRow, table, memory, Owning, Active
<1>1. ASSUME NEW t \in Tasks, NEW indexedOnly \in BOOLEAN, Submit(t, indexedOnly) PROVE Threads'
  BY <1>1 DEF Submit
<1>2. ASSUME NEW t \in Tasks, RequestCancel(t) PROVE Threads'
  BY <1>2 DEF RequestCancel, Bookkeeping
<1>3. ASSUME NEW t \in Tasks, SignalCancel(t) PROVE Threads'
  BY <1>3 DEF SignalCancel
<1>4. ASSUME NEW t \in Tasks, BeginTask(t) PROVE Threads'
  BY <1>4 DEF BeginTask
<1>5. ASSUME NEW t \in Tasks, Query(t) \/ WriteResult(t) \/ Recheck(t) \/ DiscardResult(t) PROVE Threads'
  BY <1>5 DEF Query, WriteResult, Recheck, DiscardResult
<1>6. ASSUME NEW t \in Tasks, Publish(t) \/ EndAs(t, "cancel", "cancelled") \/ EndAs(t, "fail", "failed")
      PROVE Threads'
  BY <1>6 DEF Publish, EndAs, Bookkeeping
<1>7. ASSUME NEW t \in Tasks, PruneRows(t) PROVE Threads'
  BY <1>7 DEF PruneRows, Prune, Surplus, Terminal
<1>8. ASSUME NEW t \in Tasks, UnlinkPruned(t) \/ PopControl(t) PROVE Threads'
  BY <1>8 DEF UnlinkPruned, PopControl
<1>9. ASSUME NEW t \in Tasks, EndFails(t) \/ PruneFails(t) PROVE Threads'
  <2>1. left'.fault <= MaxFaults /\ left'.fault # MaxFaults
    <3>1. left' = [left EXCEPT !["fault"] = @ - 1]
      BY <1>9 DEF EndFails, PruneFails, Spend
    <3>2. left.fault \in Nat /\ left'.fault = left.fault - 1
      BY <3>1
    <3> QED BY <3>2, TaskAssumption DEF TaskAssumption
  <2> QED BY <1>9, <2>1 DEF EndFails, PruneFails
<1>10. CASE Close \/ Exit \/ Crash
  <2>1. left'.fault <= left.fault /\ up' # "up"
    BY <1>10 DEF Close, Exit, Crash, Spend
  <2>2. left'.fault <= MaxFaults
    BY <1>10, <2>1, TaskAssumption DEF Close, Exit, Crash, Spend, TaskAssumption
  <2> QED BY <1>10, <2>1, <2>2 DEF Close, Exit, Crash
<1>11. CASE Restart
  BY <1>11 DEF Restart, Bookkeeping
<1>12. CASE UNCHANGED vars
  BY <1>12 DEF vars
<1> QED BY <1>1, <1>2, <1>3, <1>4, <1>5, <1>6, <1>7, <1>8, <1>9, <1>10, <1>11, <1>12 DEF Next, Run

\* No row claims to be queued or running without a thread (NoFalseRunning).
THEOREM RunningRowsHaveThreads == Spec => []NoFalseRunning
<1>1. Init => Bookkeeping /\ Threads
  BY TaskAssumption DEF Init, Bookkeeping, PublishedHasResult, Owning, Threads, Active, TaskAssumption
<1>2. Threads => NoFalseRunning
  BY DEF Threads, NoFalseRunning, Owning
<1> QED BY <1>1, <1>2, TypeInit, TypeStep, BookkeepingStep, ThreadsStep, PTL DEF Spec
=============================================================================
