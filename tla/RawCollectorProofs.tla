-------------------------- MODULE RawCollectorProofs --------------------------
(***************************************************************************)
(* Theorems about RawCollector, for every set of files and every bound;     *)
(* the last part: RawCollector implements BinlogLedger, and what follows.   *)
(***************************************************************************)
EXTENDS RawCollector, FiniteSetTheorems, TLAPS

-----------------------------------------------------------------------------
(* Type correctness.                                                        *)

\* The breaker fires before a running job has counted past it.
BelowBreaker == job \in {"check", "listing", "confirm", "round"} => fails < Breaker

TypeInv == TypeOK /\ BelowBreaker

\* The initial states are well typed.
LEMMA TypeInit == Init => TypeInv
<1> SUFFICES ASSUME Init PROVE TypeInv
    OBVIOUS
<1>1. left \in [Events -> Nat]
    BY LimitsAssumption DEF Init, Events, LimitsAssumption
<1>2. fails \in 0..Breaker /\ BelowBreaker
    BY LimitsAssumption DEF Init, BelowBreaker, LimitsAssumption
<1>3. pc \in [Files -> Lanes] /\ err \in [Files -> Codes] /\ job \in Jobs /\ state \in [Files -> Rows]
    BY DEF Init, Lanes, Codes, Jobs, Rows
<1>4. source \in [Files -> {"listed", "hidden", "gone"}]
    BY DEF Init
<1>5. settle \in [at : {"idle", "stat", "mark"}, files : SUBSET Files]
    BY DEF Init
<1>6. /\ age \in [Files -> 0..2] /\ role \in [Files -> {"primary", "former", "covered"}]
      /\ local \in [Files -> {"none", "part", "full"}]
      /\ backoff \in [Files -> {"none", "wait", "due"}]
    BY DEF Init
<1>7. oss \in [Files -> SUBSET {"raw", "index"}]
    BY DEF Init
<1>8. /\ descr \subseteq Files /\ entries \subseteq Files /\ retired \subseteq Files
      /\ scanned \subseteq Files /\ leftover \subseteq Files
      /\ sweep \in SUBSET (Files \X {"part", "full"})
      /\ lost \in BOOLEAN /\ stop \in {"no", "pause", "abort"}
      /\ result \in {"none", "running", "success", "warning", "paused", "stalled", "failed"}
    BY DEF Init
<1> QED
    BY <1>1, <1>2, <1>3, <1>4, <1>5, <1>6, <1>7, <1>8 DEF TypeInv, TypeOK


\* Every step, of whatever thread, keeps the types and the breaker bound.
LEMMA TypeStep ==
    ASSUME TypeInv, [Next]_vars
    PROVE  TypeInv'
<1> USE DEF disk, lanes, remote, control, queue, sweeps, unlaned, unswept
<1>0. UNCHANGED <<state, source, age, role, local, oss, descr, pc, err, job, stop, result, entries, retired, backoff, fails, scanned, lost, leftover, settle, sweep, left>> => TypeInv'
      BY DEF TypeInv, TypeOK, BelowBreaker
<1>1. CASE Environment
  <2>1. ASSUME NEW f \in Files, Hide(f) PROVE TypeInv'
       BY <2>1 DEF Hide, Spend, TypeInv, TypeOK, BelowBreaker, Events
  <2>2. ASSUME NEW f \in Files, List(f) PROVE TypeInv'
       BY <2>2 DEF List, TypeInv, TypeOK, BelowBreaker
  <2>3. ASSUME NEW f \in Files, Expire(f) PROVE TypeInv'
       BY <2>3 DEF Expire, TypeInv, TypeOK, BelowBreaker
  <2>4. ASSUME NEW f \in Files, Delete(f) PROVE TypeInv'
       BY <2>4 DEF Delete, TypeInv, TypeOK, BelowBreaker
  <2>5. ASSUME NEW f \in Files, Rename(f) PROVE TypeInv'
       BY <2>5 DEF Rename, TypeInv, TypeOK, BelowBreaker
  <2>6. ASSUME NEW f \in Files, Switch(f) PROVE TypeInv'
       BY <2>6 DEF Switch, Spend, TypeInv, TypeOK, BelowBreaker, Events
  <2> QED
       BY <1>1, <2>1, <2>2, <2>3, <2>4, <2>5, <2>6 DEF Environment
<1>2. CASE JobThread
  <2>1. CASE StartJob
       <3>1. fails' \in 0..Breaker /\ BelowBreaker'
             BY <2>1, LimitsAssumption DEF StartJob, BelowBreaker, LimitsAssumption
       <3>2. /\ entries' \subseteq Files /\ retired' \subseteq Files /\ scanned' \subseteq Files
             /\ leftover' \subseteq Files /\ lost' \in BOOLEAN
             BY <2>1 DEF StartJob
       <3> QED
             BY <2>1, <3>1, <3>2 DEF StartJob, TypeInv, TypeOK, Jobs
  <2>2. CASE RequestStop
       BY <2>2 DEF RequestStop, Stopping, Spend, TypeInv, TypeOK, BelowBreaker, Events
  <2>3. CASE CheckStop
       BY <2>3 DEF CheckStop, Stopping, StoppedResult, TypeInv, TypeOK, BelowBreaker, Jobs
  <2>4. CASE Relist
       BY <2>4 DEF Relist, Stopping, Skip, MarkFilesState, Pending, Unfinished, Recoverable,
          BeginRound, TypeInv, TypeOK, BelowBreaker, Jobs, Rows, Settled
  <2>5. CASE Confirm
       BY <2>5 DEF Confirm, Leftover, Stopping, Skip, MarkFilesState, Pending, Unfinished, Recoverable,
          BeginRound, TypeInv, TypeOK, BelowBreaker, Jobs, Rows, Settled
  <2>6. CASE CloseJob
       BY <2>6 DEF CloseJob, TypeInv, TypeOK, BelowBreaker, Jobs
  <2>7. CASE FailJob
       BY <2>7 DEF FailJob, Spend, TypeInv, TypeOK, BelowBreaker, Events, Jobs
  <2>8. CASE RefreshEntries
       BY <2>8 DEF RefreshEntries, Stopping, Skip, MarkFilesState, Pending, Unfinished, Recoverable,
          TypeInv, TypeOK, BelowBreaker, Rows, Settled
  <2>9. CASE RoundEnds
       BY <2>9 DEF RoundEnds, Stopping, TypeInv, TypeOK, BelowBreaker, Jobs
  <2>10. CASE StopRound
       BY <2>10 DEF StopRound, Stopping, Processing, Archiving, StoppedResult, Downloading, TypeInv,
          TypeOK, BelowBreaker, Codes, Jobs, Lanes
  <2>11. CASE JobExits
       BY <2>11 DEF JobExits, Downloading, Archiving, TypeInv, TypeOK, BelowBreaker, Codes, Jobs,
          Lanes, Processing
  <2>12. ASSUME NEW f \in Files, Admit(f) PROVE TypeInv'
       BY <2>12 DEF Admit, Stopping, Spend, TypeInv, TypeOK, BelowBreaker, Archiving, Downloading,
          Events, Lanes, Processing
  <2>13. ASSUME NEW f \in Files, Submit(f) PROVE TypeInv'
       BY <2>13 DEF Submit, Stopping, Processing, Archiving, TypeInv, TypeOK, BelowBreaker,
          Downloading, Lanes
  <2>14. ASSUME NEW f \in Files, Retire(f) PROVE TypeInv'
       BY <2>14, LimitsAssumption DEF Retire, TypeInv, TypeOK, BelowBreaker, Archiving, Downloading,
          Lanes, Processing, LimitsAssumption
  <2>15. ASSUME NEW f \in Files, FileFailed(f) PROVE TypeInv'
       <3>1. CASE Unavailable(f)
             BY <2>15, <3>1 DEF FileFailed, Unavailable, SetFileState, TypeInv, TypeOK, BelowBreaker, Rows,
                Settled, Lanes, Codes
       <3>2. CASE Systemic(f)
             BY <2>15, <3>2 DEF FileFailed, Systemic, Failed, SetFileState, TypeInv, TypeOK, BelowBreaker,
                Rows, Unfinished, Recoverable, Lanes, Codes, Jobs
       <3>3. CASE Superseded(f)
             BY <2>15, <3>3 DEF FileFailed, Superseded, MarkFilesState, TypeInv, TypeOK, BelowBreaker, Rows,
                Settled, Lanes, Codes
       <3>4. CASE Deferred(f)
         <4>1. fails' \in 0..Breaker /\ job' \in Jobs /\ BelowBreaker'
               BY <2>15, <3>4, LimitsAssumption DEF FileFailed, Deferred, TypeInv, TypeOK, BelowBreaker, Jobs,
                  LimitsAssumption
         <4>2. state' \in [Files -> Rows] /\ backoff' \in [Files -> {"none", "wait", "due"}]
               BY <2>15, <3>4 DEF FileFailed, Deferred, Failed, SetFileState, TypeInv, TypeOK, Rows,
                  Unfinished, Recoverable
         <4> QED
               BY <2>15, <3>4, <4>1, <4>2 DEF FileFailed, Deferred, TypeInv, TypeOK, Lanes, Codes
       <3> QED
             BY <2>15, <3>1, <3>2, <3>3, <3>4 DEF FileFailed
  <2> QED
       BY <1>2, <2>1, <2>2, <2>3, <2>4, <2>5, <2>6, <2>7, <2>8, <2>9, <2>10, <2>11, <2>12, <2>13,
          <2>14, <2>15 DEF JobThread
<1>3. CASE Settle
  <2>1. CASE SettleRead
       BY <2>1 DEF SettleRead, TypeInv, TypeOK, BelowBreaker
  <2>2. CASE SettleStat
       BY <2>2 DEF SettleStat, TypeInv, TypeOK, BelowBreaker
  <2>3. CASE SettleMark
       BY <2>3 DEF SettleMark, MarkFilesState, TypeInv, TypeOK, BelowBreaker, Recoverable, Rows,
          Settled, Unfinished
  <2> QED
       BY <1>3, <2>1, <2>2, <2>3 DEF Settle
<1>4. CASE Sweep
  <2>1. ASSUME NEW f \in Files, SweepRead(f) PROVE TypeInv'
       BY <2>1 DEF SweepRead, TypeInv, TypeOK, BelowBreaker
  <2>2. ASSUME NEW f \in Files, SweepUnlink(f) PROVE TypeInv'
       BY <2>2 DEF SweepUnlink, TypeInv, TypeOK, BelowBreaker
  <2> QED
       BY <1>4, <2>1, <2>2 DEF Sweep
<1>5. CASE Crash
  <2>1. fails' \in 0..Breaker /\ BelowBreaker'
       BY <1>5, LimitsAssumption DEF Crash, BelowBreaker, LimitsAssumption
  <2>2. /\ entries' \subseteq Files /\ retired' \subseteq Files /\ scanned' \subseteq Files
       /\ leftover' \subseteq Files /\ lost' \in BOOLEAN
       /\ sweep' \in SUBSET (Files \X {"part", "full"})
       BY <1>5 DEF Crash
  <2>3. settle' \in [at : {"idle", "stat", "mark"}, files : SUBSET Files]
       BY <1>5 DEF Crash
  <2>4. /\ pc' \in [Files -> Lanes] /\ err' \in [Files -> Codes] /\ job' \in Jobs
       /\ backoff' \in [Files -> {"none", "wait", "due"}] /\ left' \in [Events -> Nat]
       BY <1>5 DEF Crash, Spend, TypeInv, TypeOK, Lanes, Codes, Jobs, Events
  <2> QED
       BY <1>5, <2>1, <2>2, <2>3, <2>4 DEF Crash, TypeInv, TypeOK
<1>6. ASSUME NEW f \in Files, Download(f) \/ Archive(f) \/ LaneFault(f) PROVE TypeInv'
  <2>1. CASE BeginDownload(f)
       BY <2>1 DEF BeginDownload, Step, SetFileState, TypeInv, TypeOK, BelowBreaker, Archiving,
          Downloading, Lanes, Processing, Recoverable, Rows, Settled, Unfinished
  <2>2. CASE VerifyExisting(f)
       BY <2>2 DEF VerifyExisting, Hashed, TypeInv, TypeOK, BelowBreaker, Archiving, Downloading,
          Lanes, Processing
  <2>3. CASE OpenStream(f)
       BY <2>3 DEF OpenStream, Step, TypeInv, TypeOK, BelowBreaker, Archiving, Downloading, Lanes,
          Processing
  <2>4. CASE LinkRefused(f)
       BY <2>4 DEF LinkRefused, Spend, Step, Raise, TypeInv, TypeOK, BelowBreaker, Archiving, Codes,
          Downloading, Events, Lanes, Processing
  <2>5. CASE RefreshLink(f)
       BY <2>5, SuccessorAssumption DEF RefreshLink, Step, UpsertRemote, Raise, UpsertRemotes,
          TypeInv, TypeOK, BelowBreaker, Archiving, Codes, Downloading, Lanes, Processing,
          Recoverable, Rows, Settled, Unfinished, SuccessorAssumption
  <2>6. CASE FinishStream(f)
       BY <2>6 DEF FinishStream, Step, Raise, TypeInv, TypeOK, BelowBreaker, Archiving, Codes,
          Downloading, Lanes, Processing
  <2>7. CASE EndDownload(f)
       BY <2>7 DEF EndDownload, Step, SetFileState, TypeInv, TypeOK, BelowBreaker, Archiving,
          Downloading, Lanes, Processing, Recoverable, Rows, Settled, Unfinished
  <2>8. CASE BeginParsing(f)
       BY <2>8 DEF BeginParsing, Step, SetFileState, TypeInv, TypeOK, BelowBreaker, Archiving,
          Downloading, Lanes, Processing, Recoverable, Rows, Settled, Unfinished
  <2>9. CASE PutRaw(f)
       BY <2>9 DEF PutRaw, Step, Raise, TypeInv, TypeOK, BelowBreaker, Archiving, Codes,
          Downloading, Lanes, Processing
  <2>10. CASE PutIndex(f)
       BY <2>10 DEF PutIndex, Step, TypeInv, TypeOK, BelowBreaker, Archiving, Downloading, Lanes,
          Processing
  <2>11. CASE CommitRow(f)
       BY <2>11 DEF CommitRow, Step, TypeInv, TypeOK, BelowBreaker, Archiving, Downloading, Lanes,
          Processing
  <2>12. CASE MarkStored(f)
       BY <2>12 DEF MarkStored, Step, SetFileState, TypeInv, TypeOK, BelowBreaker, Archiving,
          Downloading, Lanes, Processing, Recoverable, Rows, Settled, Unfinished
  <2>13. CASE VerifyStored(f)
       BY <2>13 DEF VerifyStored, Step, TypeInv, TypeOK, BelowBreaker, Archiving, Downloading,
          Lanes, Processing
  <2>14. CASE UnlinkOriginal(f)
       BY <2>14 DEF UnlinkOriginal, Step, TypeInv, TypeOK, BelowBreaker, Archiving, Downloading,
          Lanes, Processing
  <2>15. CASE MarkDone(f)
       BY <2>15 DEF MarkDone, Step, SetFileState, TypeInv, TypeOK, BelowBreaker, Archiving,
          Downloading, Lanes, Processing, Recoverable, Rows, Settled, Unfinished
  <2>16. CASE DiscardCorrupt(f)
       BY <2>16 DEF DiscardCorrupt, Hashed, Spend, TypeInv, TypeOK, BelowBreaker, Events
  <2>17. CASE RetryStream(f)
       BY <2>17 DEF RetryStream, SetAside, Spend, Step, TypeInv, TypeOK, BelowBreaker, Archiving, Downloading,
          Events, Lanes, Processing
  <2>18. CASE DownloadFails(f)
       BY <2>18 DEF DownloadFails, SetAside, Downloading, Spend, Raise, Step, TypeInv, TypeOK, BelowBreaker,
          Archiving, Codes, Events, Lanes, Processing
  <2>19. CASE ArchiveFails(f)
       BY <2>19 DEF ArchiveFails, Archiving, Spend, Raise, Step, TypeInv, TypeOK, BelowBreaker,
          Codes, Downloading, Events, Lanes, Processing
  <2> QED
       BY <1>6, <2>1, <2>2, <2>3, <2>4, <2>5, <2>6, <2>7, <2>8, <2>9, <2>10, <2>11, <2>12, <2>13,
          <2>14, <2>15, <2>16, <2>17, <2>18, <2>19 DEF Download, Archive, LaneFault
<1>7. ASSUME NEW f \in Files, Ingest(f) \/ BackoffElapses(f) PROVE TypeInv'
  <2>1. CASE Ingest(f)
       BY <2>1 DEF Ingest, Stopping, UpsertRemotes, TypeInv, TypeOK, BelowBreaker, Recoverable,
          Rows, Settled, Unfinished
  <2>2. CASE BackoffElapses(f)
       BY <2>2 DEF BackoffElapses, TypeInv, TypeOK, BelowBreaker
  <2> QED
       BY <1>7, <2>1, <2>2
<1>8. CASE UNCHANGED vars
      BY <1>0, <1>8 DEF vars
<1> QED
    BY <1>1, <1>2, <1>3, <1>4, <1>5, <1>6, <1>7, <1>8 DEF Next

\* Every variable keeps its type, and the failure counter its bound (TypeOK).
THEOREM TypeCorrect == Spec => []TypeOK
<1>1. Init => TypeInv
    BY TypeInit
<1>2. TypeInv /\ [Next]_vars => TypeInv'
    BY TypeStep
<1>3. TypeInv => TypeOK
    BY DEF TypeInv
<1> QED
    BY <1>1, <1>2, <1>3, PTL DEF Spec

\* ... hence they hold throughout.
LEMMA TypeInvariant == Spec => []TypeInv
BY TypeInit, TypeStep, PTL DEF Spec

-----------------------------------------------------------------------------
(* The queue and the lanes.                                                 *)

\* Lanes exist only while a round runs or drains; a waiting file has none.
QueueInv ==
    /\ job \notin {"round", "stopDrain", "failDrain"} => Admitted = {}
    /\ entries \cap Admitted = {}

\* A collected or replaced file is neither waiting nor in a working lane.
FinalInv == \A f \in Files :
    state[f] \in {"done", "superseded"} => f \notin entries /\ pc[f] \in {"none", "success"}

\* Every step keeps the queue and the lanes apart.
LEMMA QueueStep ==
    ASSUME TypeInv, QueueInv, [Next]_vars
    PROVE  QueueInv'
<1> USE DEF disk, lanes, remote, control, queue, sweeps, unlaned, unswept
<1>0. UNCHANGED <<pc, entries, job>> => QueueInv'
      BY DEF QueueInv, Admitted
<1>1. CASE Environment
      BY <1>0, <1>1 DEF Environment, Hide, List, Expire, Delete, Rename, Switch
<1>2. CASE JobThread
  <2>1. CASE RequestStop
       BY <1>0, <2>1 DEF RequestStop
  <2>2. CASE StartJob
       BY <2>2 DEF StartJob, TypeInv, TypeOK, QueueInv, Admitted
  <2>3. CASE CheckStop
       BY <2>3 DEF CheckStop, Stopping, StoppedResult, TypeInv, TypeOK, QueueInv, Admitted
  <2>4. CASE Relist
       BY <2>4 DEF Relist, Stopping, Skip, MarkFilesState, BeginRound, TypeInv, TypeOK, QueueInv,
          Admitted
  <2>5. CASE Confirm
       BY <2>5 DEF Confirm, Leftover, Stopping, Skip, MarkFilesState, BeginRound, TypeInv, TypeOK, QueueInv,
          Admitted
  <2>6. CASE CloseJob
       BY <2>6 DEF CloseJob, TypeInv, TypeOK, QueueInv, Admitted
  <2>7. CASE FailJob
       BY <2>7 DEF FailJob, Spend, TypeInv, TypeOK, QueueInv, Admitted
  <2>8. CASE RefreshEntries
       BY <2>8 DEF RefreshEntries, Stopping, Skip, MarkFilesState, TypeInv, TypeOK, QueueInv,
          Admitted
  <2>9. CASE RoundEnds
       BY <2>9 DEF RoundEnds, Stopping, TypeInv, TypeOK, QueueInv, Admitted
  <2>10. CASE StopRound
       BY <2>10 DEF StopRound, Stopping, Processing, Archiving, StoppedResult, Downloading, TypeInv,
          TypeOK, QueueInv, Admitted, Lanes
  <2>11. CASE JobExits
       BY <2>11 DEF JobExits, Downloading, Archiving, TypeInv, TypeOK, QueueInv, Admitted, Lanes,
          Processing
  <2>12. ASSUME NEW f \in Files, Admit(f) PROVE QueueInv'
       BY <2>12 DEF Admit, Stopping, Spend, TypeInv, TypeOK, QueueInv, Admitted
  <2>13. ASSUME NEW f \in Files, Submit(f) PROVE QueueInv'
       BY <2>13 DEF Submit, Stopping, Processing, Archiving, TypeInv, TypeOK, QueueInv, Admitted,
          Lanes, Downloading
  <2>14. ASSUME NEW f \in Files, Retire(f) PROVE QueueInv'
       BY <2>14 DEF Retire, TypeInv, TypeOK, QueueInv, Admitted
  <2>15. ASSUME NEW f \in Files, FileFailed(f) PROVE QueueInv'
       BY <2>15 DEF FileFailed, Unavailable, SetFileState, Systemic, Failed, Superseded,
          MarkFilesState, Deferred, TypeInv, TypeOK, QueueInv, Admitted
  <2> QED
       BY <1>2, <2>1, <2>2, <2>3, <2>4, <2>5, <2>6, <2>7, <2>8, <2>9, <2>10, <2>11, <2>12, <2>13,
          <2>14, <2>15 DEF JobThread
<1>3. CASE Settle
      BY <1>0, <1>3 DEF Settle, SettleRead, SettleStat, SettleMark
<1>4. CASE Sweep
      BY <1>0, <1>4 DEF Sweep, SweepRead, SweepUnlink
<1>5. CASE Crash
      BY <1>5 DEF Crash, Spend, TypeInv, TypeOK, QueueInv, Admitted
<1>6. ASSUME NEW f \in Files, Download(f) \/ Archive(f) \/ LaneFault(f) PROVE QueueInv'
  <2>1. CASE DiscardCorrupt(f)
       BY <1>0, <2>1 DEF DiscardCorrupt
  <2>2. CASE BeginDownload(f)
       BY <2>2 DEF BeginDownload, Step, SetFileState, TypeInv, TypeOK, QueueInv, Admitted
  <2>3. CASE VerifyExisting(f)
       BY <2>3 DEF VerifyExisting, Hashed, TypeInv, TypeOK, QueueInv, Admitted
  <2>4. CASE OpenStream(f)
       BY <2>4 DEF OpenStream, Step, TypeInv, TypeOK, QueueInv, Admitted
  <2>5. CASE LinkRefused(f)
       BY <2>5 DEF LinkRefused, Spend, Step, Raise, TypeInv, TypeOK, QueueInv, Admitted
  <2>6. CASE RefreshLink(f)
       BY <2>6, SuccessorAssumption DEF RefreshLink, Step, UpsertRemote, Raise, UpsertRemotes,
          TypeInv, TypeOK, QueueInv, Admitted, SuccessorAssumption
  <2>7. CASE FinishStream(f)
       BY <2>7 DEF FinishStream, Step, Raise, TypeInv, TypeOK, QueueInv, Admitted
  <2>8. CASE EndDownload(f)
       BY <2>8 DEF EndDownload, Step, SetFileState, TypeInv, TypeOK, QueueInv, Admitted
  <2>9. CASE BeginParsing(f)
       BY <2>9 DEF BeginParsing, Step, SetFileState, TypeInv, TypeOK, QueueInv, Admitted
  <2>10. CASE PutRaw(f)
       BY <2>10 DEF PutRaw, Step, Raise, TypeInv, TypeOK, QueueInv, Admitted
  <2>11. CASE PutIndex(f)
       BY <2>11 DEF PutIndex, Step, TypeInv, TypeOK, QueueInv, Admitted
  <2>12. CASE CommitRow(f)
       BY <2>12 DEF CommitRow, Step, TypeInv, TypeOK, QueueInv, Admitted
  <2>13. CASE MarkStored(f)
       BY <2>13 DEF MarkStored, Step, SetFileState, TypeInv, TypeOK, QueueInv, Admitted
  <2>14. CASE VerifyStored(f)
       BY <2>14 DEF VerifyStored, Step, TypeInv, TypeOK, QueueInv, Admitted
  <2>15. CASE UnlinkOriginal(f)
       BY <2>15 DEF UnlinkOriginal, Step, TypeInv, TypeOK, QueueInv, Admitted
  <2>16. CASE MarkDone(f)
       BY <2>16 DEF MarkDone, Step, SetFileState, TypeInv, TypeOK, QueueInv, Admitted
  <2>17. CASE RetryStream(f)
       BY <2>17 DEF RetryStream, SetAside, Spend, Step, TypeInv, TypeOK, QueueInv, Admitted
  <2>18. CASE DownloadFails(f)
       BY <2>18 DEF DownloadFails, SetAside, Downloading, Spend, Raise, Step, TypeInv, TypeOK, QueueInv,
          Admitted
  <2>19. CASE ArchiveFails(f)
       BY <2>19 DEF ArchiveFails, Archiving, Spend, Raise, Step, TypeInv, TypeOK, QueueInv, Admitted
  <2> QED
       BY <1>6, <2>1, <2>2, <2>3, <2>4, <2>5, <2>6, <2>7, <2>8, <2>9, <2>10, <2>11, <2>12, <2>13,
          <2>14, <2>15, <2>16, <2>17, <2>18, <2>19 DEF Download, Archive, LaneFault
<1>7. ASSUME NEW f \in Files, Ingest(f) \/ BackoffElapses(f) PROVE QueueInv'
      BY <1>0, <1>7 DEF Ingest, BackoffElapses
<1>8. CASE UNCHANGED vars
      BY <1>0, <1>8 DEF vars
<1> QED
    BY <1>1, <1>2, <1>3, <1>4, <1>5, <1>6, <1>7, <1>8 DEF Next

\* No step puts a collected or replaced file back to work.
LEMMA FinalStep ==
    ASSUME TypeInv, QueueInv, FinalInv, [Next]_vars
    PROVE  FinalInv'
<1> USE DEF disk, lanes, remote, control, queue, sweeps, unlaned, unswept
<1>0. UNCHANGED <<state, pc, entries>> => FinalInv'
      BY DEF FinalInv
<1>1. CASE Environment
      BY <1>0, <1>1 DEF Environment, Hide, List, Expire, Delete, Rename, Switch
<1>2. CASE JobThread
  <2>1. CASE RequestStop \/ CheckStop \/ CloseJob \/ FailJob \/ RoundEnds
       BY <1>0, <2>1 DEF RequestStop, CheckStop, CloseJob, FailJob, RoundEnds
  <2>2. CASE StartJob
       BY <2>2 DEF StartJob, TypeInv, TypeOK, FinalInv, Recoverable, Settled, Unfinished
  <2>3. CASE Relist
       BY <2>3 DEF Relist, Stopping, Skip, MarkFilesState, Pending, Unfinished, Recoverable,
          BeginRound, TypeInv, TypeOK, FinalInv, QueueInv, Admitted, Lanes, Processing, Downloading,
          Archiving, Settled
  <2>4. CASE Confirm
       BY <2>4 DEF Confirm, Stopping, Skip, MarkFilesState, Pending, Unfinished, Recoverable,
          BeginRound, TypeInv, TypeOK, FinalInv, QueueInv, Admitted, Lanes, Processing, Downloading,
          Archiving, Settled
  <2>5. CASE RefreshEntries
       BY <2>5 DEF RefreshEntries, Stopping, Skip, MarkFilesState, Pending, Unfinished, Recoverable,
          Admitted, TypeInv, TypeOK, FinalInv, QueueInv, Lanes, Processing, Downloading, Archiving,
          Settled
  <2>6. CASE StopRound
       BY <2>6 DEF StopRound, Stopping, Processing, Archiving, StoppedResult, Downloading, TypeInv,
          TypeOK, FinalInv, QueueInv, Admitted, Lanes, Pending, Recoverable, Settled, Unfinished
  <2>7. CASE JobExits
       BY <2>7 DEF JobExits, Downloading, Archiving, TypeInv, TypeOK, FinalInv, QueueInv, Admitted,
          Lanes, Processing, Pending, Recoverable, Settled, Unfinished
  <2>8. ASSUME NEW f \in Files, Admit(f) PROVE FinalInv'
       BY <2>8 DEF Admit, Stopping, Admitted, Spend, TypeInv, TypeOK, FinalInv, QueueInv, Lanes,
          Processing, Downloading, Archiving, Pending, Recoverable, Settled, Unfinished
  <2>9. ASSUME NEW f \in Files, Submit(f) PROVE FinalInv'
       BY <2>9 DEF Submit, Stopping, Processing, Archiving, TypeInv, TypeOK, FinalInv, QueueInv,
          Admitted, Lanes, Downloading, Pending, Recoverable, Settled, Unfinished
  <2>10. ASSUME NEW f \in Files, Retire(f) PROVE FinalInv'
       BY <2>10 DEF Retire, TypeInv, TypeOK, FinalInv, QueueInv, Admitted, Lanes, Processing,
          Downloading, Archiving, Pending, Recoverable, Settled, Unfinished
  <2>11. ASSUME NEW f \in Files, FileFailed(f) PROVE FinalInv'
       BY <2>11 DEF FileFailed, Unavailable, SetFileState, Systemic, Failed, Superseded,
          MarkFilesState, Deferred, TypeInv, TypeOK, FinalInv, QueueInv, Admitted, Lanes,
          Processing, Downloading, Archiving, Pending, Recoverable, Settled, Unfinished
  <2> QED
       BY <1>2, <2>1, <2>2, <2>3, <2>4, <2>5, <2>6, <2>7, <2>8, <2>9, <2>10, <2>11 DEF JobThread
<1>3. CASE Settle
  <2>1. CASE SettleRead \/ SettleStat
       BY <1>0, <2>1 DEF SettleRead, SettleStat
  <2>2. CASE SettleMark
       BY <2>2 DEF SettleMark, MarkFilesState, Expirable, TypeInv, TypeOK, FinalInv, Recoverable,
          Settled, Unfinished
  <2> QED
       BY <1>3, <2>1, <2>2 DEF Settle
<1>4. CASE Sweep
      BY <1>0, <1>4 DEF Sweep, SweepRead, SweepUnlink
<1>5. CASE Crash
      BY <1>5 DEF Crash, Spend, TypeInv, TypeOK, FinalInv, QueueInv, Admitted, Lanes, Processing,
         Downloading, Archiving, Pending, Recoverable, Settled, Unfinished
<1>6. ASSUME NEW f \in Files, Download(f) \/ Archive(f) \/ LaneFault(f) PROVE FinalInv'
  <2>1. CASE DiscardCorrupt(f)
       BY <1>0, <2>1 DEF DiscardCorrupt
  <2>2. CASE BeginDownload(f)
       BY <2>2 DEF BeginDownload, Step, SetFileState, TypeInv, TypeOK, FinalInv, Recoverable,
          Settled, Unfinished
  <2>3. CASE VerifyExisting(f)
       BY <2>3 DEF VerifyExisting, Hashed, TypeInv, TypeOK, FinalInv, Recoverable, Settled,
          Unfinished
  <2>4. CASE OpenStream(f)
       BY <2>4 DEF OpenStream, Step, TypeInv, TypeOK, FinalInv, Recoverable, Settled, Unfinished
  <2>5. CASE LinkRefused(f)
       BY <2>5 DEF LinkRefused, Spend, Step, Raise, TypeInv, TypeOK, FinalInv, Recoverable, Settled,
          Unfinished
  <2>6. CASE RefreshLink(f)
       BY <2>6, SuccessorAssumption DEF RefreshLink, Step, UpsertRemote, Raise, UpsertRemotes,
          TypeInv, TypeOK, FinalInv, Recoverable, Settled, Unfinished, SuccessorAssumption
  <2>7. CASE FinishStream(f)
       BY <2>7 DEF FinishStream, Step, Raise, TypeInv, TypeOK, FinalInv, Recoverable, Settled,
          Unfinished
  <2>8. CASE EndDownload(f)
       BY <2>8 DEF EndDownload, Step, SetFileState, TypeInv, TypeOK, FinalInv, Recoverable, Settled,
          Unfinished
  <2>9. CASE BeginParsing(f)
       BY <2>9 DEF BeginParsing, Step, SetFileState, TypeInv, TypeOK, FinalInv, Recoverable,
          Settled, Unfinished
  <2>10. CASE PutRaw(f)
       BY <2>10 DEF PutRaw, Step, Raise, TypeInv, TypeOK, FinalInv, Recoverable, Settled, Unfinished
  <2>11. CASE PutIndex(f)
       BY <2>11 DEF PutIndex, Step, TypeInv, TypeOK, FinalInv, Recoverable, Settled, Unfinished
  <2>12. CASE CommitRow(f)
       BY <2>12 DEF CommitRow, Step, TypeInv, TypeOK, FinalInv, Recoverable, Settled, Unfinished
  <2>13. CASE MarkStored(f)
       BY <2>13 DEF MarkStored, Step, SetFileState, TypeInv, TypeOK, FinalInv, Recoverable, Settled,
          Unfinished
  <2>14. CASE VerifyStored(f)
       BY <2>14 DEF VerifyStored, Step, TypeInv, TypeOK, FinalInv, Recoverable, Settled, Unfinished
  <2>15. CASE UnlinkOriginal(f)
       BY <2>15 DEF UnlinkOriginal, Step, TypeInv, TypeOK, FinalInv, Recoverable, Settled,
          Unfinished
  <2>16. CASE MarkDone(f)
       BY <2>16 DEF MarkDone, Step, SetFileState, TypeInv, TypeOK, FinalInv, QueueInv, Admitted,
          Lanes, Processing, Downloading, Archiving, Pending, Recoverable, Settled, Unfinished
  <2>17. CASE RetryStream(f)
       BY <2>17 DEF RetryStream, SetAside, Spend, Step, TypeInv, TypeOK, FinalInv, QueueInv, Admitted, Lanes,
          Processing, Downloading, Archiving, Pending, Recoverable, Settled, Unfinished
  <2>18. CASE DownloadFails(f)
       BY <2>18 DEF DownloadFails, SetAside, Downloading, Spend, Raise, Step, TypeInv, TypeOK, FinalInv,
          QueueInv, Admitted, Lanes, Processing, Archiving, Pending, Recoverable, Settled,
          Unfinished
  <2>19. CASE ArchiveFails(f)
       BY <2>19 DEF ArchiveFails, Archiving, Spend, Raise, Step, TypeInv, TypeOK, FinalInv,
          QueueInv, Admitted, Lanes, Processing, Downloading, Pending, Recoverable, Settled,
          Unfinished
  <2> QED
       BY <1>6, <2>1, <2>2, <2>3, <2>4, <2>5, <2>6, <2>7, <2>8, <2>9, <2>10, <2>11, <2>12, <2>13,
          <2>14, <2>15, <2>16, <2>17, <2>18, <2>19 DEF Download, Archive, LaneFault
<1>7. ASSUME NEW f \in Files, Ingest(f) \/ BackoffElapses(f) PROVE FinalInv'
  <2>1. CASE BackoffElapses(f)
       BY <1>0, <2>1 DEF BackoffElapses
  <2>2. CASE Ingest(f)
       BY <2>2 DEF Ingest, Stopping, UpsertRemotes, TypeInv, TypeOK, FinalInv, Recoverable, Settled,
          Unfinished
  <2> QED
       BY <1>7, <2>1, <2>2
<1>8. CASE UNCHANGED vars
      BY <1>0, <1>8 DEF vars
<1> QED
    BY <1>1, <1>2, <1>3, <1>4, <1>5, <1>6, <1>7, <1>8 DEF Next

-----------------------------------------------------------------------------
(* What is archived.                                                        *)

\* A lane that has passed a step of archiving has that step's object or row.
ArchiveInv == \A f \in Files :
    /\ state[f] \in {"stored", "done"} => f \in descr
    /\ f \in descr => Archived(f)
    /\ pc[f] = "index" => "raw" \in oss[f]
    /\ pc[f] = "row" => oss[f] = {"raw", "index"}
    /\ pc[f] \in {"resume", "mark", "verify", "unlink", "finish", "success"} => f \in descr

\* Every step, the crash included, keeps rows, archive rows and objects in step.
LEMMA ArchiveStep ==
    ASSUME TypeInv, ArchiveInv, [Next]_vars
    PROVE  ArchiveInv'
<1> USE DEF disk, lanes, remote, control, queue, sweeps, unlaned, unswept
<1>0. UNCHANGED <<state, descr, oss, pc>> => ArchiveInv'
      BY DEF ArchiveInv, Archived
<1>1. CASE Environment
      BY <1>0, <1>1 DEF Environment, Hide, List, Expire, Delete, Rename, Switch
<1>2. CASE JobThread
  <2>1. CASE StartJob \/ RequestStop \/ CheckStop \/ CloseJob \/ FailJob \/ RoundEnds
       BY <1>0, <2>1 DEF StartJob, RequestStop, CheckStop, CloseJob, FailJob, RoundEnds
  <2>2. CASE Relist
       BY <2>2 DEF Relist, Stopping, Skip, MarkFilesState, BeginRound, TypeInv, TypeOK, ArchiveInv,
          Archived
  <2>3. CASE Confirm
       BY <2>3 DEF Confirm, Stopping, Skip, MarkFilesState, BeginRound, TypeInv, TypeOK, ArchiveInv,
          Archived
  <2>4. CASE RefreshEntries
       BY <2>4 DEF RefreshEntries, Stopping, Skip, MarkFilesState, TypeInv, TypeOK, ArchiveInv,
          Archived
  <2>5. CASE StopRound
       BY <2>5 DEF StopRound, Stopping, Processing, Archiving, StoppedResult, Downloading, TypeInv,
          TypeOK, ArchiveInv, Archived
  <2>6. CASE JobExits
       BY <2>6 DEF JobExits, TypeInv, TypeOK, ArchiveInv, Archived
  <2>7. ASSUME NEW f \in Files, Admit(f) PROVE ArchiveInv'
       BY <2>7 DEF Admit, Stopping, Spend, TypeInv, TypeOK, ArchiveInv, Archived
  <2>8. ASSUME NEW f \in Files, Submit(f) PROVE ArchiveInv'
       BY <2>8 DEF Submit, Stopping, TypeInv, TypeOK, ArchiveInv, Archived
  <2>9. ASSUME NEW f \in Files, Retire(f) PROVE ArchiveInv'
       BY <2>9 DEF Retire, TypeInv, TypeOK, ArchiveInv, Archived
  <2>10. ASSUME NEW f \in Files, FileFailed(f) PROVE ArchiveInv'
       BY <2>10 DEF FileFailed, Unavailable, SetFileState, Systemic, Failed, Superseded,
          MarkFilesState, Deferred, TypeInv, TypeOK, ArchiveInv, Archived
  <2> QED
       BY <1>2, <2>1, <2>2, <2>3, <2>4, <2>5, <2>6, <2>7, <2>8, <2>9, <2>10 DEF JobThread
<1>3. CASE Settle
  <2>1. CASE SettleRead \/ SettleStat
       BY <1>0, <2>1 DEF SettleRead, SettleStat
  <2>2. CASE SettleMark
       BY <2>2 DEF SettleMark, MarkFilesState, Expirable, TypeInv, TypeOK, ArchiveInv, Archived
  <2> QED
       BY <1>3, <2>1, <2>2 DEF Settle
<1>4. CASE Sweep
      BY <1>0, <1>4 DEF Sweep, SweepRead, SweepUnlink
<1>5. CASE Crash
      BY <1>5 DEF Crash, Spend, TypeInv, TypeOK, ArchiveInv, Archived
<1>6. ASSUME NEW f \in Files, Download(f) \/ Archive(f) \/ LaneFault(f) PROVE ArchiveInv'
  <2>1. CASE DiscardCorrupt(f)
       BY <1>0, <2>1 DEF DiscardCorrupt
  <2>2. CASE BeginDownload(f)
       BY <2>2 DEF BeginDownload, Step, SetFileState, TypeInv, TypeOK, ArchiveInv, Archived
  <2>3. CASE VerifyExisting(f)
       BY <2>3 DEF VerifyExisting, Hashed, TypeInv, TypeOK, ArchiveInv, Archived
  <2>4. CASE OpenStream(f)
       BY <2>4 DEF OpenStream, Step, TypeInv, TypeOK, ArchiveInv, Archived
  <2>5. CASE LinkRefused(f)
       BY <2>5 DEF LinkRefused, Spend, Step, Raise, TypeInv, TypeOK, ArchiveInv, Archived
  <2>6. CASE RefreshLink(f)
       BY <2>6, SuccessorAssumption DEF RefreshLink, Step, UpsertRemote, Raise, UpsertRemotes,
          TypeInv, TypeOK, ArchiveInv, Archived, SuccessorAssumption
  <2>7. CASE FinishStream(f)
       BY <2>7 DEF FinishStream, Step, Raise, TypeInv, TypeOK, ArchiveInv, Archived
  <2>8. CASE EndDownload(f)
       BY <2>8 DEF EndDownload, Step, SetFileState, TypeInv, TypeOK, ArchiveInv, Archived
  <2>9. CASE BeginParsing(f)
       BY <2>9 DEF BeginParsing, Step, SetFileState, TypeInv, TypeOK, ArchiveInv, Archived
  <2>10. CASE PutRaw(f)
       BY <2>10 DEF PutRaw, Step, Raise, TypeInv, TypeOK, ArchiveInv, Archived
  <2>11. CASE PutIndex(f)
       BY <2>11 DEF PutIndex, Step, TypeInv, TypeOK, ArchiveInv, Archived
  <2>12. CASE CommitRow(f)
       BY <2>12 DEF CommitRow, Step, TypeInv, TypeOK, ArchiveInv, Archived
  <2>13. CASE MarkStored(f)
       BY <2>13 DEF MarkStored, Step, SetFileState, TypeInv, TypeOK, ArchiveInv, Archived
  <2>14. CASE VerifyStored(f)
       BY <2>14 DEF VerifyStored, Step, TypeInv, TypeOK, ArchiveInv, Archived
  <2>15. CASE UnlinkOriginal(f)
       BY <2>15 DEF UnlinkOriginal, Step, TypeInv, TypeOK, ArchiveInv, Archived
  <2>16. CASE MarkDone(f)
       BY <2>16 DEF MarkDone, Step, SetFileState, TypeInv, TypeOK, ArchiveInv, Archived
  <2>17. CASE RetryStream(f)
       BY <2>17 DEF RetryStream, SetAside, Spend, Step, TypeInv, TypeOK, ArchiveInv, Archived
  <2>18. CASE DownloadFails(f)
       BY <2>18 DEF DownloadFails, SetAside, Downloading, Spend, Raise, Step, TypeInv, TypeOK, ArchiveInv,
          Archived, Archiving, Processing
  <2>19. CASE ArchiveFails(f)
       BY <2>19 DEF ArchiveFails, Archiving, Spend, Raise, Step, TypeInv, TypeOK, ArchiveInv,
          Archived, Downloading, Processing
  <2> QED
       BY <1>6, <2>1, <2>2, <2>3, <2>4, <2>5, <2>6, <2>7, <2>8, <2>9, <2>10, <2>11, <2>12, <2>13,
          <2>14, <2>15, <2>16, <2>17, <2>18, <2>19 DEF Download, Archive, LaneFault
<1>7. ASSUME NEW f \in Files, Ingest(f) \/ BackoffElapses(f) PROVE ArchiveInv'
  <2>1. CASE BackoffElapses(f)
       BY <1>0, <2>1 DEF BackoffElapses
  <2>2. CASE Ingest(f)
       BY <2>2 DEF Ingest, Stopping, UpsertRemotes, TypeInv, TypeOK, ArchiveInv, Archived
  <2> QED
       BY <1>7, <2>1, <2>2
<1>8. CASE UNCHANGED vars
      BY <1>0, <1>8 DEF vars
<1> QED
    BY <1>1, <1>2, <1>3, <1>4, <1>5, <1>6, <1>7, <1>8 DEF Next

\* A row that says stored or done has its archive (DoneIsArchived).
THEOREM DoneFilesAreArchived == Spec => []DoneIsArchived
<1>1. Init => ArchiveInv
    BY DEF Init, ArchiveInv
<1>2. TypeInv /\ ArchiveInv /\ [Next]_vars => ArchiveInv'
    BY ArchiveStep
<1>3. ArchiveInv => DoneIsArchived
    BY DEF ArchiveInv, DoneIsArchived
<1> QED
    BY <1>1, <1>2, <1>3, TypeInvariant, PTL DEF Spec

-----------------------------------------------------------------------------
(* Stops and limits.                                                        *)

\* The job row is final only once no archive runs.
BoundaryInv ==
    /\ result # "running" => job \in {"idle", "stopDrain"}
    /\ job = "stopDrain" => Busy = {}

\* No step closes the job row over a running archive.
LEMMA BoundaryStep ==
    ASSUME TypeInv, QueueInv, BoundaryInv, [Next]_vars
    PROVE  BoundaryInv'
<1> USE DEF disk, lanes, remote, control, queue, sweeps, unlaned, unswept
<1>0. UNCHANGED <<result, job, pc>> => BoundaryInv'
      BY DEF BoundaryInv, Busy
<1>1. CASE Environment
      BY <1>0, <1>1 DEF Environment, Hide, List, Expire, Delete, Rename, Switch
<1>2. CASE JobThread
  <2>1. CASE RequestStop \/ RefreshEntries
       BY <1>0, <2>1 DEF RequestStop, RefreshEntries
  <2>2. CASE StartJob
       BY <2>2 DEF StartJob, TypeInv, TypeOK, BoundaryInv, Busy, Processing, Archiving, Downloading,
          QueueInv, Admitted
  <2>3. CASE CheckStop
       BY <2>3 DEF CheckStop, Stopping, StoppedResult, TypeInv, TypeOK, BoundaryInv, Busy,
          Processing, Archiving, Downloading, QueueInv, Admitted
  <2>4. CASE Relist
       BY <2>4 DEF Relist, Stopping, Skip, MarkFilesState, BeginRound, TypeInv, TypeOK, BoundaryInv,
          Busy, Processing, Archiving, Downloading, QueueInv, Admitted
  <2>5. CASE Confirm
       BY <2>5 DEF Confirm, Leftover, Stopping, Skip, MarkFilesState, BeginRound, TypeInv, TypeOK,
          BoundaryInv, Busy, Processing, Archiving, Downloading, QueueInv, Admitted
  <2>6. CASE CloseJob
       BY <2>6 DEF CloseJob, TypeInv, TypeOK, BoundaryInv, Busy, Processing, Archiving, Downloading,
          QueueInv, Admitted
  <2>7. CASE FailJob
       BY <2>7 DEF FailJob, Spend, TypeInv, TypeOK, BoundaryInv, Busy, Processing, Archiving,
          Downloading, QueueInv, Admitted
  <2>8. CASE RoundEnds
       BY <2>8 DEF RoundEnds, Admitted, Stopping, TypeInv, TypeOK, BoundaryInv, Busy, Processing,
          Archiving, Downloading, QueueInv
  <2>9. CASE StopRound
       BY <2>9 DEF StopRound, Stopping, Processing, Archiving, StoppedResult, Downloading, TypeInv,
          TypeOK, BoundaryInv, Busy, QueueInv, Admitted
  <2>10. CASE JobExits
       BY <2>10 DEF JobExits, Downloading, Archiving, TypeInv, TypeOK, BoundaryInv, Busy,
          Processing, QueueInv, Admitted
  <2>11. ASSUME NEW f \in Files, Admit(f) PROVE BoundaryInv'
       BY <2>11 DEF Admit, Stopping, Admitted, Spend, TypeInv, TypeOK, BoundaryInv, Busy,
          Processing, Archiving, Downloading, QueueInv
  <2>12. ASSUME NEW f \in Files, Submit(f) PROVE BoundaryInv'
       BY <2>12 DEF Submit, Stopping, Processing, Archiving, TypeInv, TypeOK, BoundaryInv, Busy,
          Downloading, QueueInv, Admitted
  <2>13. ASSUME NEW f \in Files, Retire(f) PROVE BoundaryInv'
       BY <2>13 DEF Retire, TypeInv, TypeOK, BoundaryInv, Busy, Processing, Archiving, Downloading,
          QueueInv, Admitted
  <2>14. ASSUME NEW f \in Files, FileFailed(f) PROVE BoundaryInv'
       BY <2>14 DEF FileFailed, Unavailable, SetFileState, Systemic, Failed, Superseded,
          MarkFilesState, Deferred, TypeInv, TypeOK, BoundaryInv, Busy, Processing, Archiving,
          Downloading, QueueInv, Admitted
  <2> QED
       BY <1>2, <2>1, <2>2, <2>3, <2>4, <2>5, <2>6, <2>7, <2>8, <2>9, <2>10, <2>11, <2>12, <2>13,
          <2>14 DEF JobThread
<1>3. CASE Settle
      BY <1>0, <1>3 DEF Settle, SettleRead, SettleStat, SettleMark
<1>4. CASE Sweep
      BY <1>0, <1>4 DEF Sweep, SweepRead, SweepUnlink
<1>5. CASE Crash
      BY <1>5 DEF Crash, Spend, TypeInv, TypeOK, BoundaryInv, Busy, Processing, Archiving,
         Downloading, QueueInv, Admitted
<1>6. ASSUME NEW f \in Files, Download(f) \/ Archive(f) \/ LaneFault(f) PROVE BoundaryInv'
  <2>1. CASE DiscardCorrupt(f)
       BY <1>0, <2>1 DEF DiscardCorrupt
  <2>2. CASE BeginDownload(f)
       BY <2>2 DEF BeginDownload, Step, SetFileState, TypeInv, TypeOK, BoundaryInv, Busy,
          Processing, Archiving, Downloading, QueueInv, Admitted
  <2>3. CASE VerifyExisting(f)
       BY <2>3 DEF VerifyExisting, Hashed, TypeInv, TypeOK, BoundaryInv, Busy, Processing,
          Archiving, Downloading, QueueInv, Admitted
  <2>4. CASE OpenStream(f)
       BY <2>4 DEF OpenStream, Step, TypeInv, TypeOK, BoundaryInv, Busy, Processing, Archiving,
          Downloading, QueueInv, Admitted
  <2>5. CASE LinkRefused(f)
       BY <2>5 DEF LinkRefused, Spend, Step, Raise, TypeInv, TypeOK, BoundaryInv, Busy, Processing,
          Archiving, Downloading, QueueInv, Admitted
  <2>6. CASE RefreshLink(f)
       BY <2>6, SuccessorAssumption DEF RefreshLink, Step, UpsertRemote, Raise, UpsertRemotes,
          TypeInv, TypeOK, BoundaryInv, Busy, Processing, Archiving, Downloading, QueueInv,
          Admitted, SuccessorAssumption
  <2>7. CASE FinishStream(f)
       BY <2>7 DEF FinishStream, Step, Raise, TypeInv, TypeOK, BoundaryInv, Busy, Processing,
          Archiving, Downloading, QueueInv, Admitted
  <2>8. CASE EndDownload(f)
       BY <2>8 DEF EndDownload, Step, SetFileState, TypeInv, TypeOK, BoundaryInv, Busy, Processing,
          Archiving, Downloading, QueueInv, Admitted
  <2>9. CASE BeginParsing(f)
       BY <2>9 DEF BeginParsing, Step, SetFileState, TypeInv, TypeOK, BoundaryInv, Busy, Processing,
          Archiving, Downloading, QueueInv, Admitted
  <2>10. CASE PutRaw(f)
       BY <2>10 DEF PutRaw, Step, Raise, TypeInv, TypeOK, BoundaryInv, Busy, Processing, Archiving,
          Downloading, QueueInv, Admitted
  <2>11. CASE PutIndex(f)
       BY <2>11 DEF PutIndex, Step, TypeInv, TypeOK, BoundaryInv, Busy, Processing, Archiving,
          Downloading, QueueInv, Admitted
  <2>12. CASE CommitRow(f)
       BY <2>12 DEF CommitRow, Step, TypeInv, TypeOK, BoundaryInv, Busy, Processing, Archiving,
          Downloading, QueueInv, Admitted
  <2>13. CASE MarkStored(f)
       BY <2>13 DEF MarkStored, Step, SetFileState, TypeInv, TypeOK, BoundaryInv, Busy, Processing,
          Archiving, Downloading, QueueInv, Admitted
  <2>14. CASE VerifyStored(f)
       BY <2>14 DEF VerifyStored, Step, TypeInv, TypeOK, BoundaryInv, Busy, Processing, Archiving,
          Downloading, QueueInv, Admitted
  <2>15. CASE UnlinkOriginal(f)
       BY <2>15 DEF UnlinkOriginal, Step, TypeInv, TypeOK, BoundaryInv, Busy, Processing, Archiving,
          Downloading, QueueInv, Admitted
  <2>16. CASE MarkDone(f)
       BY <2>16 DEF MarkDone, Step, SetFileState, TypeInv, TypeOK, BoundaryInv, Busy, Processing,
          Archiving, Downloading, QueueInv, Admitted
  <2>17. CASE RetryStream(f)
       BY <2>17 DEF RetryStream, SetAside, Spend, Step, TypeInv, TypeOK, BoundaryInv, Busy, Processing,
          Archiving, Downloading, QueueInv, Admitted
  <2>18. CASE DownloadFails(f)
       BY <2>18 DEF DownloadFails, SetAside, Downloading, Spend, Raise, Step, TypeInv, TypeOK, BoundaryInv,
          Busy, Processing, Archiving, QueueInv, Admitted
  <2>19. CASE ArchiveFails(f)
       BY <2>19 DEF ArchiveFails, Archiving, Spend, Raise, Step, TypeInv, TypeOK, BoundaryInv, Busy,
          Processing, Downloading, QueueInv, Admitted
  <2> QED
       BY <1>6, <2>1, <2>2, <2>3, <2>4, <2>5, <2>6, <2>7, <2>8, <2>9, <2>10, <2>11, <2>12, <2>13,
          <2>14, <2>15, <2>16, <2>17, <2>18, <2>19 DEF Download, Archive, LaneFault
<1>7. ASSUME NEW f \in Files, Ingest(f) \/ BackoffElapses(f) PROVE BoundaryInv'
      BY <1>0, <1>7 DEF Ingest, BackoffElapses
<1>8. CASE UNCHANGED vars
      BY <1>0, <1>8 DEF vars
<1> QED
    BY <1>1, <1>2, <1>3, <1>4, <1>5, <1>6, <1>7, <1>8 DEF Next

\* A job row is final only at a file boundary (StopsAtFileBoundary).
THEOREM StopsWaitForArchives == Spec => []StopsAtFileBoundary
<1>1. Init => QueueInv /\ BoundaryInv
    BY DEF Init, QueueInv, BoundaryInv, Admitted
<1>2. TypeInv /\ QueueInv /\ BoundaryInv /\ [Next]_vars => (QueueInv /\ BoundaryInv)'
    BY QueueStep, BoundaryStep
<1>3. QueueInv /\ BoundaryInv => StopsAtFileBoundary
    BY DEF QueueInv, BoundaryInv, StopsAtFileBoundary, Admitted, Busy, Processing, Archiving
<1> QED
    BY <1>1, <1>2, <1>3, TypeInvariant, PTL DEF Spec

-----------------------------------------------------------------------------
(* The limits on lanes and workers.                                         *)

BoundedInv ==
    /\ IsFiniteSet(Admitted)
    /\ Cardinality(Admitted) <= MaxLanes
    /\ Cardinality(Busy) <= Workers

\* Every step but two only takes files out of lanes.
FewerLanes == Admitted' \subseteq Admitted /\ Busy' \subseteq Busy

\* A running archive occupies a lane.
LEMMA BusyIsAdmitted == Busy \subseteq Admitted
BY DEF Busy, Admitted, Processing, Archiving

\* Taking files out of lanes keeps the limits.
LEMMA FewerStayBounded ==
    ASSUME BoundedInv, FewerLanes
    PROVE  BoundedInv'
<1>1. IsFiniteSet(Busy) /\ Cardinality(Busy) \in Nat /\ Cardinality(Admitted) \in Nat
    BY BusyIsAdmitted, FS_Subset, FS_CardinalityType DEF BoundedInv
<1>2. IsFiniteSet(Admitted') /\ Cardinality(Admitted') <= Cardinality(Admitted)
    BY FS_Subset DEF BoundedInv, FewerLanes
<1>3. IsFiniteSet(Busy') /\ Cardinality(Busy') <= Cardinality(Busy)
    BY <1>1, FS_Subset DEF FewerLanes
<1>4. Cardinality(Admitted') \in Nat /\ Cardinality(Busy') \in Nat
    BY <1>2, <1>3, FS_CardinalityType
<1>5. MaxLanes \in Nat /\ Workers \in Nat
    BY LimitsAssumption DEF LimitsAssumption
<1> QED
    BY <1>1, <1>2, <1>3, <1>4, <1>5 DEF BoundedInv

\* Only Admit and Submit add to the lanes, and both check their limit.
LEMMA BoundedStep ==
    ASSUME TypeInv, BoundedInv, [Next]_vars
    PROVE  BoundedInv'
<1> USE DEF disk, lanes, remote, control, queue, sweeps, unlaned, unswept
<1>0. UNCHANGED pc => BoundedInv'
      BY DEF Admitted, Busy, BoundedInv
<1>1. CASE Environment
      BY <1>0, <1>1 DEF Environment, Hide, List, Expire, Delete, Rename, Switch
<1>2. CASE JobThread
  <2>1. CASE StartJob \/ RequestStop \/ CheckStop \/ Relist \/ Confirm \/ CloseJob \/ FailJob \/
       RefreshEntries \/ RoundEnds
       BY <1>0, <2>1 DEF StartJob, RequestStop, CheckStop, Relist, Confirm, CloseJob, FailJob,
          RefreshEntries, RoundEnds
  <2>2. CASE StopRound
       <3>1. FewerLanes
             BY <2>2 DEF StopRound, StoppedResult, FewerLanes, TypeInv, TypeOK, Admitted, Busy,
                Processing, Archiving, Downloading
       <3> QED
             BY <3>1, FewerStayBounded
  <2>3. CASE JobExits
       <3>1. FewerLanes
             BY <2>3 DEF JobExits, FewerLanes, TypeInv, TypeOK, Admitted, Busy, Processing,
                Archiving, Downloading
       <3> QED
             BY <3>1, FewerStayBounded
  <2>4. ASSUME NEW f \in Files, Admit(f) PROVE BoundedInv'
       <3>1. f \notin Admitted /\ Cardinality(Admitted) < MaxLanes
             BY <2>4 DEF Admit
       <3>2. Admitted' = Admitted \cup {f} /\ Busy' = Busy
             BY <2>4 DEF Admit, TypeInv, TypeOK, Admitted, Busy, Processing, Archiving
       <3>3. Cardinality(Admitted \cup {f}) = Cardinality(Admitted) + 1 /\ IsFiniteSet(Admitted \cup {f})
             BY <3>1, FS_AddElement DEF BoundedInv
       <3>4. Cardinality(Admitted) \in Nat /\ MaxLanes \in Nat
             BY FS_CardinalityType, LimitsAssumption DEF BoundedInv, LimitsAssumption
       <3> QED
             BY <3>1, <3>2, <3>3, <3>4 DEF BoundedInv
  <2>5. ASSUME NEW f \in Files, Submit(f) PROVE BoundedInv'
       <3>1. f \notin Busy /\ Cardinality(Busy) < Workers
             BY <2>5 DEF Submit, Busy, Processing, Archiving
       <3>2. Admitted' = Admitted /\ Busy' = Busy \cup {f}
             BY <2>5 DEF Submit, TypeInv, TypeOK, Admitted, Busy, Processing, Archiving
       <3>3. IsFiniteSet(Busy)
             BY BusyIsAdmitted, FS_Subset DEF BoundedInv
       <3>4. Cardinality(Busy \cup {f}) = Cardinality(Busy) + 1
             BY <3>1, <3>3, FS_AddElement
       <3>5. Cardinality(Busy) \in Nat /\ Workers \in Nat
             BY <3>3, FS_CardinalityType, LimitsAssumption DEF LimitsAssumption
       <3> QED
             BY <3>1, <3>2, <3>4, <3>5 DEF BoundedInv
  <2>6. ASSUME NEW f \in Files, Retire(f) PROVE BoundedInv'
       <3>1. FewerLanes
             BY <2>6 DEF Retire, FewerLanes, TypeInv, TypeOK, Admitted, Busy, Processing, Archiving,
                Downloading
       <3> QED
             BY <3>1, FewerStayBounded
  <2>7. ASSUME NEW f \in Files, FileFailed(f) PROVE BoundedInv'
       <3>1. FewerLanes
             BY <2>7 DEF FileFailed, FewerLanes, TypeInv, TypeOK, Admitted, Busy, Processing,
                Archiving, Downloading
       <3> QED
             BY <3>1, FewerStayBounded
  <2> QED
       BY <1>2, <2>1, <2>2, <2>3, <2>4, <2>5, <2>6, <2>7 DEF JobThread
<1>3. CASE Settle
      BY <1>0, <1>3 DEF Settle, SettleRead, SettleStat, SettleMark
<1>4. CASE Sweep
      BY <1>0, <1>4 DEF Sweep, SweepRead, SweepUnlink
<1>5. CASE Crash
      <2>1. FewerLanes
            BY <1>5 DEF Crash, FewerLanes, TypeInv, TypeOK, Admitted, Busy, Processing, Archiving,
               Downloading
      <2> QED
            BY <2>1, FewerStayBounded
<1>6. ASSUME NEW f \in Files, Download(f) \/ Archive(f) \/ LaneFault(f) PROVE BoundedInv'
  <2>1. CASE DiscardCorrupt(f)
       BY <1>0, <2>1 DEF DiscardCorrupt
  <2>2. CASE BeginDownload(f)
       <3>1. FewerLanes
             BY <2>2 DEF BeginDownload, Step, FewerLanes, TypeInv, TypeOK, Admitted, Busy,
                Processing, Archiving, Downloading
       <3> QED
             BY <3>1, FewerStayBounded
  <2>3. CASE VerifyExisting(f)
       <3>1. FewerLanes
             BY <2>3 DEF VerifyExisting, Hashed, FewerLanes, TypeInv, TypeOK, Admitted, Busy,
                Processing, Archiving, Downloading
       <3> QED
             BY <3>1, FewerStayBounded
  <2>4. CASE OpenStream(f)
       <3>1. FewerLanes
             BY <2>4 DEF OpenStream, Step, FewerLanes, TypeInv, TypeOK, Admitted, Busy, Processing,
                Archiving, Downloading
       <3> QED
             BY <3>1, FewerStayBounded
  <2>5. CASE LinkRefused(f)
       <3>1. FewerLanes
             BY <2>5 DEF LinkRefused, Step, Raise, FewerLanes, TypeInv, TypeOK, Admitted, Busy,
                Processing, Archiving, Downloading
       <3> QED
             BY <3>1, FewerStayBounded
  <2>6. CASE RefreshLink(f)
       <3>1. FewerLanes
             BY <2>6 DEF RefreshLink, Step, Raise, FewerLanes, TypeInv, TypeOK, Admitted, Busy,
                Processing, Archiving, Downloading
       <3> QED
             BY <3>1, FewerStayBounded
  <2>7. CASE FinishStream(f)
       <3>1. FewerLanes
             BY <2>7 DEF FinishStream, Step, Raise, FewerLanes, TypeInv, TypeOK, Admitted, Busy,
                Processing, Archiving, Downloading
       <3> QED
             BY <3>1, FewerStayBounded
  <2>8. CASE EndDownload(f)
       <3>1. FewerLanes
             BY <2>8 DEF EndDownload, Step, FewerLanes, TypeInv, TypeOK, Admitted, Busy, Processing,
                Archiving, Downloading
       <3> QED
             BY <3>1, FewerStayBounded
  <2>9. CASE BeginParsing(f)
       <3>1. FewerLanes
             BY <2>9 DEF BeginParsing, Step, FewerLanes, TypeInv, TypeOK, Admitted, Busy,
                Processing, Archiving, Downloading
       <3> QED
             BY <3>1, FewerStayBounded
  <2>10. CASE PutRaw(f)
       <3>1. FewerLanes
             BY <2>10 DEF PutRaw, Step, Raise, FewerLanes, TypeInv, TypeOK, Admitted, Busy,
                Processing, Archiving, Downloading
       <3> QED
             BY <3>1, FewerStayBounded
  <2>11. CASE PutIndex(f)
       <3>1. FewerLanes
             BY <2>11 DEF PutIndex, Step, FewerLanes, TypeInv, TypeOK, Admitted, Busy, Processing,
                Archiving, Downloading
       <3> QED
             BY <3>1, FewerStayBounded
  <2>12. CASE CommitRow(f)
       <3>1. FewerLanes
             BY <2>12 DEF CommitRow, Step, FewerLanes, TypeInv, TypeOK, Admitted, Busy, Processing,
                Archiving, Downloading
       <3> QED
             BY <3>1, FewerStayBounded
  <2>13. CASE MarkStored(f)
       <3>1. FewerLanes
             BY <2>13 DEF MarkStored, Step, FewerLanes, TypeInv, TypeOK, Admitted, Busy, Processing,
                Archiving, Downloading
       <3> QED
             BY <3>1, FewerStayBounded
  <2>14. CASE VerifyStored(f)
       <3>1. FewerLanes
             BY <2>14 DEF VerifyStored, Step, FewerLanes, TypeInv, TypeOK, Admitted, Busy,
                Processing, Archiving, Downloading
       <3> QED
             BY <3>1, FewerStayBounded
  <2>15. CASE UnlinkOriginal(f)
       <3>1. FewerLanes
             BY <2>15 DEF UnlinkOriginal, Step, FewerLanes, TypeInv, TypeOK, Admitted, Busy,
                Processing, Archiving, Downloading
       <3> QED
             BY <3>1, FewerStayBounded
  <2>16. CASE MarkDone(f)
       <3>1. FewerLanes
             BY <2>16 DEF MarkDone, Step, FewerLanes, TypeInv, TypeOK, Admitted, Busy, Processing,
                Archiving, Downloading
       <3> QED
             BY <3>1, FewerStayBounded
  <2>17. CASE RetryStream(f)
       <3>1. FewerLanes
             BY <2>17 DEF RetryStream, SetAside, Step, FewerLanes, TypeInv, TypeOK, Admitted, Busy,
                Processing, Archiving, Downloading
       <3> QED
             BY <3>1, FewerStayBounded
  <2>18. CASE DownloadFails(f)
       <3>1. FewerLanes
             BY <2>18 DEF DownloadFails, SetAside, Raise, Step, FewerLanes, TypeInv, TypeOK, Admitted, Busy,
                Processing, Archiving, Downloading
       <3> QED
             BY <3>1, FewerStayBounded
  <2>19. CASE ArchiveFails(f)
       <3>1. FewerLanes
             BY <2>19 DEF ArchiveFails, Raise, Step, FewerLanes, TypeInv, TypeOK, Admitted, Busy,
                Processing, Archiving, Downloading
       <3> QED
             BY <3>1, FewerStayBounded
  <2> QED
       BY <1>6, <2>1, <2>2, <2>3, <2>4, <2>5, <2>6, <2>7, <2>8, <2>9, <2>10, <2>11, <2>12, <2>13,
          <2>14, <2>15, <2>16, <2>17, <2>18, <2>19 DEF Download, Archive, LaneFault
<1>7. ASSUME NEW f \in Files, Ingest(f) \/ BackoffElapses(f) PROVE BoundedInv'
      BY <1>0, <1>7 DEF Ingest, BackoffElapses
<1>8. CASE UNCHANGED vars
      BY <1>0, <1>8 DEF vars
<1> QED
    BY <1>1, <1>2, <1>3, <1>4, <1>5, <1>6, <1>7, <1>8 DEF Next

\* Admission limit and worker limit hold, and no file waits for a lane it
\* already has (LanesBounded).
THEOREM LanesStayBounded == Spec => []LanesBounded
<1>1. Init => QueueInv /\ BoundedInv
  <2> SUFFICES ASSUME Init PROVE QueueInv /\ BoundedInv
      OBVIOUS
  <2>1. Admitted = {} /\ Busy = {}
      BY DEF Init, Admitted, Busy, Processing, Archiving
  <2>2. Cardinality({}) = 0 /\ IsFiniteSet({})
      BY FS_EmptySet
  <2> QED
      BY <2>1, <2>2, LimitsAssumption DEF QueueInv, BoundedInv, LimitsAssumption
<1>2. TypeInv /\ QueueInv /\ BoundedInv /\ [Next]_vars => (QueueInv /\ BoundedInv)'
    BY QueueStep, BoundedStep
<1>3. QueueInv /\ BoundedInv => LanesBounded
    BY DEF QueueInv, BoundedInv, LanesBounded
<1> QED
    BY <1>1, <1>2, <1>3, TypeInvariant, PTL DEF Spec

-----------------------------------------------------------------------------
(* What success leaves behind.                                              *)

\* From the moment the job concludes that it has caught up until the next one.
DrainInv ==
    stop = "no" /\ (job = "closing" \/ result = "success") => \A f \in leftover : backoff[f] # "none"

\* Only two steps matter: Confirm, which finds every leftover waiting for its retry,
\* and Retire, which forgets a retry but only in the middle of a round.
LEMMA DrainStep ==
    ASSUME TypeInv, BoundaryInv, DrainInv, [Next]_vars
    PROVE  DrainInv'
<1> USE DEF disk, lanes, remote, control, queue, sweeps, unlaned, unswept
<1>0. /\ UNCHANGED <<stop, leftover, backoff>>
      /\ job' = "closing" => job = "closing"
      /\ result' = "success" => result = "success" \/ job = "closing"
      => DrainInv'
      BY DEF DrainInv
<1>1. CASE Environment
      BY <1>0, <1>1 DEF Environment, Hide, List, Expire, Delete, Rename, Switch
<1>2. CASE JobThread
  <2>1. CASE RefreshEntries \/ CheckStop \/ Relist \/ CloseJob \/ FailJob \/ RoundEnds \/ StopRound \/ JobExits
       BY <1>0, <2>1 DEF RefreshEntries, CheckStop, Relist, BeginRound, CloseJob, FailJob, RoundEnds, StopRound,
          JobExits, StoppedResult
  <2>2. CASE StartJob
       BY <2>2 DEF StartJob, DrainInv
  <2>3. CASE RequestStop
       BY <2>3 DEF RequestStop, DrainInv
  <2>4. CASE Confirm
    <3>1. CASE Stopping
          BY <2>4, <3>1 DEF Confirm, Stopping, DrainInv
    <3>2. CASE ~Stopping /\ Pending # {}
          BY <1>0, <2>4, <3>2 DEF Confirm, BeginRound
    <3>3. CASE Pending = {}
      <4>1. \A f \in Leftover : backoff[f] = "wait"
            BY <3>3, <2>4 DEF Leftover, Pending
      <4>2. CASE ~Stopping
            BY <2>4, <3>3, <4>1, <4>2 DEF Confirm, DrainInv
      <4> QED BY <3>1, <4>2
    <3> QED BY <3>1, <3>2, <3>3
  <2>5. ASSUME NEW f \in Files, Admit(f) \/ Submit(f) PROVE DrainInv'
       BY <1>0, <2>5 DEF Admit, Submit
  <2>6. ASSUME NEW f \in Files, Retire(f) PROVE DrainInv'
       BY <2>6 DEF Retire, BoundaryInv, DrainInv
  <2>7. ASSUME NEW f \in Files, FileFailed(f) PROVE DrainInv'
    <3>1. job' # "closing" /\ result' = result /\ job = "round" /\ stop' = stop
          BY <2>7 DEF FileFailed, Unavailable, Systemic, Superseded, Deferred
    <3> QED BY <3>1 DEF BoundaryInv, DrainInv
  <2> QED
       BY <1>2, <2>1, <2>2, <2>3, <2>4, <2>5, <2>6, <2>7 DEF JobThread
<1>3. CASE Settle
      BY <1>0, <1>3 DEF Settle, SettleRead, SettleStat, SettleMark
<1>4. CASE Sweep
      BY <1>0, <1>4 DEF Sweep, SweepRead, SweepUnlink
<1>5. CASE Crash
      BY <1>5 DEF Crash, DrainInv
<1>6. ASSUME NEW f \in Files, Download(f) \/ Archive(f) \/ LaneFault(f) PROVE DrainInv'
      BY <1>0, <1>6 DEF Download, Archive, LaneFault, DiscardCorrupt, BeginDownload, VerifyExisting, OpenStream,
         LinkRefused, RefreshLink, FinishStream, EndDownload, BeginParsing, PutRaw, PutIndex, CommitRow,
         MarkStored, VerifyStored, UnlinkOriginal, MarkDone, RetryStream, DownloadFails, ArchiveFails, Step
<1>7. ASSUME NEW f \in Files, Ingest(f) PROVE DrainInv'
      BY <1>0, <1>7 DEF Ingest
<1>8. ASSUME NEW f \in Files, BackoffElapses(f) PROVE DrainInv'
      BY <1>8 DEF BackoffElapses, TypeInv, TypeOK, DrainInv
<1>9. CASE UNCHANGED vars
      BY <1>0, <1>9 DEF vars
<1> QED
    BY <1>1, <1>2, <1>3, <1>4, <1>5, <1>6, <1>7, <1>8, <1>9 DEF Next

\* A job that was not asked to stop records success only over files that wait for
\* their retry (SuccessIsDrained).
THEOREM SuccessMeansDrained == Spec => []SuccessIsDrained
<1>1. Init => QueueInv /\ BoundaryInv /\ DrainInv
    BY DEF Init, QueueInv, BoundaryInv, DrainInv, Admitted
<1>2. TypeInv /\ QueueInv /\ BoundaryInv /\ DrainInv /\ [Next]_vars => (QueueInv /\ BoundaryInv /\ DrainInv)'
    BY QueueStep, BoundaryStep, DrainStep
<1>3. DrainInv => SuccessIsDrained
    BY DEF DrainInv, SuccessIsDrained
<1> QED
    BY <1>1, <1>2, <1>3, TypeInvariant, PTL DEF Spec

-----------------------------------------------------------------------------
(* What the ledger needs to know besides.                                   *)

\* Only registered files are worked on, an archive runs under state parsing, and
\* the expiry sweep holds only expired files.
OpenInv ==
    /\ \A f \in Files : state[f] = "absent" => f \notin entries /\ pc[f] = "none"
    /\ \A f \in Files : pc[f] \in {"archive", "index", "row"} => state[f] = "parsing"
    /\ \A f \in settle.files : age[f] = 2

\* Every step keeps these facts.
LEMMA OpenStep ==
    ASSUME TypeInv, QueueInv, OpenInv, [Next]_vars
    PROVE  OpenInv'
<1> USE DEF disk, lanes, remote, control, queue, sweeps, unlaned, unswept
<1>0. UNCHANGED <<state, entries, pc, settle, age>> => OpenInv'
      BY DEF OpenInv
<1>1. CASE Environment
  <2>1. ASSUME NEW f \in Files, Hide(f) \/ List(f) \/ Delete(f) \/ Rename(f) \/ Switch(f) PROVE
       OpenInv'
       BY <1>0, <2>1 DEF Hide, List, Delete, Rename, Switch
  <2>2. ASSUME NEW f \in Files, Expire(f) PROVE OpenInv'
       BY <2>2 DEF Expire, TypeInv, TypeOK, OpenInv
  <2> QED
       BY <1>1, <2>1, <2>2 DEF Environment
<1>2. CASE JobThread
  <2>1. CASE RequestStop \/ CheckStop \/ CloseJob \/ FailJob \/ RoundEnds
       BY <1>0, <2>1 DEF RequestStop, CheckStop, CloseJob, FailJob, RoundEnds
  <2>2. CASE StartJob
       BY <2>2 DEF StartJob, TypeInv, TypeOK, OpenInv
  <2>3. CASE Relist
       BY <2>3 DEF Relist, Stopping, Skip, MarkFilesState, Pending, Unfinished, Recoverable,
          BeginRound, TypeInv, TypeOK, OpenInv, QueueInv, Admitted, Archiving, Downloading,
          Processing, Expirable
  <2>4. CASE Confirm
       BY <2>4 DEF Confirm, Stopping, Skip, MarkFilesState, Pending, Unfinished, Recoverable,
          BeginRound, TypeInv, TypeOK, OpenInv, QueueInv, Admitted, Archiving, Downloading,
          Processing, Expirable
  <2>5. CASE RefreshEntries
       BY <2>5 DEF RefreshEntries, Stopping, Skip, MarkFilesState, Pending, Unfinished, Recoverable,
          Admitted, TypeInv, TypeOK, OpenInv, QueueInv, Archiving, Downloading, Processing,
          Expirable
  <2>6. CASE StopRound
       BY <2>6 DEF StopRound, Stopping, Processing, Archiving, StoppedResult, Downloading, TypeInv,
          TypeOK, OpenInv, QueueInv, Admitted, Pending, Unfinished, Recoverable, Expirable
  <2>7. CASE JobExits
       BY <2>7 DEF JobExits, Downloading, Archiving, TypeInv, TypeOK, OpenInv, QueueInv, Admitted,
          Processing, Pending, Unfinished, Recoverable, Expirable
  <2>8. ASSUME NEW f \in Files, Admit(f) PROVE OpenInv'
       BY <2>8 DEF Admit, Stopping, Spend, TypeInv, TypeOK, OpenInv
  <2>9. ASSUME NEW f \in Files, Submit(f) PROVE OpenInv'
       BY <2>9 DEF Submit, Stopping, Processing, Archiving, TypeInv, TypeOK, OpenInv, QueueInv,
          Admitted, Downloading, Pending, Unfinished, Recoverable, Expirable
  <2>10. ASSUME NEW f \in Files, Retire(f) PROVE OpenInv'
       BY <2>10 DEF Retire, TypeInv, TypeOK, OpenInv
  <2>11. ASSUME NEW f \in Files, FileFailed(f) PROVE OpenInv'
       BY <2>11 DEF FileFailed, Unavailable, SetFileState, Systemic, Failed, Superseded,
          MarkFilesState, Deferred, TypeInv, TypeOK, OpenInv, QueueInv, Admitted, Archiving,
          Downloading, Processing, Pending, Unfinished, Recoverable, Expirable
  <2> QED
       BY <1>2, <2>1, <2>2, <2>3, <2>4, <2>5, <2>6, <2>7, <2>8, <2>9, <2>10, <2>11 DEF JobThread
<1>3. CASE Settle
  <2>1. CASE SettleRead
       BY <2>1 DEF SettleRead, Expirable, TypeInv, TypeOK, OpenInv, QueueInv, Admitted, Archiving,
          Downloading, Processing, Pending, Unfinished, Recoverable
  <2>2. CASE SettleStat
       BY <2>2 DEF SettleStat, TypeInv, TypeOK, OpenInv, QueueInv, Admitted, Archiving, Downloading,
          Processing, Pending, Unfinished, Recoverable, Expirable
  <2>3. CASE SettleMark
       BY <2>3 DEF SettleMark, MarkFilesState, Expirable, TypeInv, TypeOK, OpenInv, QueueInv,
          Admitted, Archiving, Downloading, Processing, Pending, Unfinished, Recoverable
  <2> QED
       BY <1>3, <2>1, <2>2, <2>3 DEF Settle
<1>4. CASE Sweep
      BY <1>0, <1>4 DEF Sweep, SweepRead, SweepUnlink
<1>5. CASE Crash
      BY <1>5 DEF Crash, Spend, TypeInv, TypeOK, OpenInv
<1>6. ASSUME NEW f \in Files, Download(f) \/ Archive(f) \/ LaneFault(f) PROVE OpenInv'
  <2>1. CASE DiscardCorrupt(f)
       BY <1>0, <2>1 DEF DiscardCorrupt
  <2>2. CASE BeginDownload(f)
       BY <2>2 DEF BeginDownload, Step, SetFileState, TypeInv, TypeOK, OpenInv
  <2>3. CASE VerifyExisting(f)
       BY <2>3 DEF VerifyExisting, Hashed, TypeInv, TypeOK, OpenInv
  <2>4. CASE OpenStream(f)
       BY <2>4 DEF OpenStream, Step, TypeInv, TypeOK, OpenInv
  <2>5. CASE LinkRefused(f)
       BY <2>5 DEF LinkRefused, Spend, Step, Raise, TypeInv, TypeOK, OpenInv
  <2>6. CASE RefreshLink(f)
       BY <2>6, SuccessorAssumption DEF RefreshLink, Step, UpsertRemote, Raise, UpsertRemotes,
          TypeInv, TypeOK, OpenInv, QueueInv, Admitted, Archiving, Downloading, Processing, Pending,
          Unfinished, Recoverable, Expirable, SuccessorAssumption
  <2>7. CASE FinishStream(f)
       BY <2>7 DEF FinishStream, Step, Raise, TypeInv, TypeOK, OpenInv
  <2>8. CASE EndDownload(f)
       BY <2>8 DEF EndDownload, Step, SetFileState, TypeInv, TypeOK, OpenInv
  <2>9. CASE BeginParsing(f)
       BY <2>9 DEF BeginParsing, Step, SetFileState, TypeInv, TypeOK, OpenInv
  <2>10. CASE PutRaw(f)
       BY <2>10 DEF PutRaw, Step, Raise, TypeInv, TypeOK, OpenInv
  <2>11. CASE PutIndex(f)
       BY <2>11 DEF PutIndex, Step, TypeInv, TypeOK, OpenInv
  <2>12. CASE CommitRow(f)
       BY <2>12 DEF CommitRow, Step, TypeInv, TypeOK, OpenInv
  <2>13. CASE MarkStored(f)
       BY <2>13 DEF MarkStored, Step, SetFileState, TypeInv, TypeOK, OpenInv
  <2>14. CASE VerifyStored(f)
       BY <2>14 DEF VerifyStored, Step, TypeInv, TypeOK, OpenInv
  <2>15. CASE UnlinkOriginal(f)
       BY <2>15 DEF UnlinkOriginal, Step, TypeInv, TypeOK, OpenInv
  <2>16. CASE MarkDone(f)
       BY <2>16 DEF MarkDone, Step, SetFileState, TypeInv, TypeOK, OpenInv
  <2>17. CASE RetryStream(f)
       BY <2>17 DEF RetryStream, SetAside, Spend, Step, TypeInv, TypeOK, OpenInv
  <2>18. CASE DownloadFails(f)
       BY <2>18 DEF DownloadFails, SetAside, Downloading, Spend, Raise, Step, TypeInv, TypeOK, OpenInv,
          QueueInv, Admitted, Archiving, Processing, Pending, Unfinished, Recoverable, Expirable
  <2>19. CASE ArchiveFails(f)
       BY <2>19 DEF ArchiveFails, Archiving, Spend, Raise, Step, TypeInv, TypeOK, OpenInv, QueueInv,
          Admitted, Downloading, Processing, Pending, Unfinished, Recoverable, Expirable
  <2> QED
       BY <1>6, <2>1, <2>2, <2>3, <2>4, <2>5, <2>6, <2>7, <2>8, <2>9, <2>10, <2>11, <2>12, <2>13,
          <2>14, <2>15, <2>16, <2>17, <2>18, <2>19 DEF Download, Archive, LaneFault
<1>7. ASSUME NEW f \in Files, Ingest(f) \/ BackoffElapses(f) PROVE OpenInv'
  <2>1. CASE BackoffElapses(f)
       BY <1>0, <2>1 DEF BackoffElapses
  <2>2. CASE Ingest(f)
       BY <2>2 DEF Ingest, Stopping, UpsertRemotes, TypeInv, TypeOK, OpenInv, QueueInv, Admitted,
          Archiving, Downloading, Processing, Pending, Unfinished, Recoverable, Expirable
  <2> QED
       BY <1>7, <2>1, <2>2
<1>8. CASE UNCHANGED vars
      BY <1>0, <1>8 DEF vars
<1> QED
    BY <1>1, <1>2, <1>3, <1>4, <1>5, <1>6, <1>7, <1>8 DEF Next

-----------------------------------------------------------------------------
(* RawCollector implements BinlogLedger.                                    *)

LedgerInv == TypeInv /\ QueueInv /\ FinalInv /\ ArchiveInv /\ OpenInv

\* All the refinement needs holds throughout.
LEMMA LedgerInvariant == Spec => []LedgerInv
<1>1. Init => LedgerInv
    BY TypeInit DEF Init, LedgerInv, QueueInv, FinalInv, ArchiveInv, OpenInv, Admitted
<1>2. LedgerInv /\ [Next]_vars => LedgerInv'
    BY TypeStep, QueueStep, FinalStep, ArchiveStep, OpenStep DEF LedgerInv
<1> QED
    BY <1>1, <1>2, PTL DEF Spec

LedgerStep == [Ledger!Next]_(Ledger!ledgerVars)

\* Rows that all change to the same entry are one move of the ledger.
LEMMA MoveEntries ==
    ASSUME NEW fs \in SUBSET Files, NEW from, NEW to,
           \A f \in fs : Entry(state[f]) \in from /\ Entry(state'[f]) = to,
           \A f \in Files \ fs : state'[f] = state[f]
    PROVE  Ledger!Move(fs, from, to)
BY DEF Ledger!Move

\* A row that keeps its entry leaves the ledger alone.
LEMMA SameEntries ==
    ASSUME \A f \in Files : Entry(state'[f]) = Entry(state[f]), UNCHANGED <<descr, age>>
    PROVE  LedgerStep
BY DEF LedgerStep, Ledger!ledgerVars

\* A lane that writes an unfinished state registers the file or stutters.
LEMMA OpenEntry ==
    ASSUME TypeInv, UNCHANGED <<descr, age>>,
           NEW f \in Files, state[f] \notin {"done", "superseded"},
           NEW s \in Unfinished, SetFileState(f, s)
    PROVE  LedgerStep
<1>1. Entry(s) = "open"
    BY DEF Unfinished, Recoverable, Entry
<1>2. state'[f] = s /\ \A g \in Files \ {f} : state'[g] = state[g]
    BY DEF SetFileState, TypeInv, TypeOK
<1>3. CASE Entry(state[f]) = "open"
    BY <1>1, <1>2, <1>3, SameEntries
<1>4. CASE Entry(state[f]) \in {"unknown", "missing", "skipped"}
  <2>1. Ledger!Move({f}, {"unknown", "missing", "skipped"}, "open")
        BY <1>1, <1>2, <1>4, MoveEntries
  <2> QED
        BY <2>1 DEF LedgerStep, Ledger!Next, Ledger!Register
<1> QED
    BY <1>3, <1>4 DEF Entry

\* A listing registers the file or stutters.
LEMMA ListEntry ==
    ASSUME TypeInv, UNCHANGED <<descr, age>>, NEW f \in Files, UpsertRemotes(f) \/ UpsertRemote(f)
    PROVE  LedgerStep
<1>1. CASE state' = state
    BY <1>1, SameEntries
<1>2. CASE state' # state
  <2>1. /\ state[f] \in {"absent", "unavailable"} /\ state'[f] = "discovered"
        /\ \A g \in Files \ {f} : state'[g] = state[g]
        BY <1>2 DEF UpsertRemotes, UpsertRemote, TypeInv, TypeOK
  <2>2. Ledger!Move({f}, {"unknown", "missing", "skipped"}, "open")
        BY <2>1, MoveEntries DEF Entry
  <2> QED
        BY <2>2 DEF LedgerStep, Ledger!Next, Ledger!Register
<1> QED
    BY <1>1, <1>2

\* Leftovers are skipped out of open entries only.
LEMMA SkipEntries ==
    ASSUME TypeInv, UNCHANGED <<descr, age>>, Skip
    PROVE  LedgerStep
<1> DEFINE fs == {f \in CoveredLeftovers : state[f] \in {"discovered", "failed"}}
<1>1. /\ fs \in SUBSET Files
      /\ \A f \in fs : state[f] \in {"discovered", "failed"} /\ state'[f] = "skipped"
      /\ \A f \in Files \ fs : state'[f] = state[f]
    BY DEF Skip, MarkFilesState, CoveredLeftovers
<1>2. Ledger!Move(fs, {"open"}, "skipped")
    <2>1. \A f \in fs : Entry(state[f]) \in {"open"} /\ Entry(state'[f]) = "skipped"
          BY <1>1 DEF Entry
    <2> QED
          BY <1>1, <2>1, MoveEntries
<1>3. Ledger!Skip(fs)
    BY <1>2 DEF Ledger!Skip
<1> QED
    BY <1>1, <1>3 DEF LedgerStep, Ledger!Next

\* Every step of the program is a step of the ledger, or leaves it alone.
LEMMA LedgerNext ==
    ASSUME LedgerInv, [Next]_vars
    PROVE  LedgerStep
<1> USE DEF disk, lanes, remote, control, queue, sweeps, unlaned, unswept
<1>0. UNCHANGED <<state, descr, age>> => LedgerStep
      BY DEF LedgerStep, Ledger!ledgerVars
<1>1. CASE Environment
  <2>1. ASSUME NEW f \in Files, Hide(f) \/ List(f) \/ Delete(f) \/ Rename(f) \/ Switch(f) PROVE
       LedgerStep
       BY <1>0, <2>1 DEF Hide, List, Delete, Rename, Switch
  <2>2. ASSUME NEW f \in Files, Expire(f) PROVE LedgerStep
       <3>1. Ledger!Expire(f)
             BY <2>2 DEF Expire, LedgerInv, TypeInv, TypeOK, Ledger!Expire
       <3> QED
             BY <3>1 DEF LedgerStep, Ledger!Next
  <2> QED
       BY <1>1, <2>1, <2>2 DEF Environment
<1>2. CASE JobThread
  <2>1. CASE StartJob \/ RequestStop \/ CheckStop \/ CloseJob \/ FailJob \/ RoundEnds \/ StopRound
       \/ JobExits
       BY <1>0, <2>1 DEF StartJob, RequestStop, CheckStop, CloseJob, FailJob, RoundEnds, StopRound,
          JobExits
  <2>2. CASE Relist
       <3>1. CASE Skip
             BY <2>2, <3>1, SkipEntries DEF Relist, LedgerInv
       <3>2. CASE UNCHANGED state
             BY <2>2, <3>2, SameEntries DEF Relist
       <3> QED
             BY <2>2, <3>1, <3>2 DEF Relist
  <2>3. CASE Confirm
       <3>1. CASE Skip
             BY <2>3, <3>1, SkipEntries DEF Confirm, LedgerInv
       <3>2. CASE UNCHANGED state
             BY <2>3, <3>2, SameEntries DEF Confirm
       <3> QED
             BY <2>3, <3>1, <3>2 DEF Confirm
  <2>4. CASE RefreshEntries
       BY <2>4, SkipEntries DEF RefreshEntries, LedgerInv
  <2>5. ASSUME NEW f \in Files, Admit(f) \/ Submit(f) \/ Retire(f) PROVE LedgerStep
       BY <1>0, <2>5 DEF Admit, Submit, Retire
  <2>6. ASSUME NEW f \in Files, FileFailed(f) PROVE LedgerStep
       <3>1. state[f] \notin {"absent", "done", "superseded"} /\ UNCHANGED <<descr, age>>
             BY <2>6 DEF FileFailed, LedgerInv, OpenInv, FinalInv
       <3>2. CASE Unavailable(f)
         <4>1. state'[f] = "unavailable" /\ \A g \in Files \ {f} : state'[g] = state[g]
               BY <3>2 DEF Unavailable, SetFileState, LedgerInv, TypeInv, TypeOK
         <4>2. CASE Entry(state[f]) \in {"open", "skipped"}
           <5>1. Ledger!Move({f}, {"open", "skipped"}, "missing")
                 BY <4>1, <4>2, MoveEntries DEF Entry
           <5> QED
                 BY <3>1, <3>2, <5>1 DEF Unavailable, LedgerStep, Ledger!Next, Ledger!GiveUp
         <4>3. CASE Entry(state[f]) = "missing"
               BY <3>1, <4>1, <4>3, SameEntries DEF Entry
         <4> QED
               BY <3>1, <4>2, <4>3 DEF Entry
       <3>3. CASE Superseded(f)
         <4> DEFINE open == {"discovered", "failed", "downloading", "downloaded", "parsing"}
         <4>1. CASE state[f] \in open
           <5>1. state'[f] = "superseded" /\ \A g \in Files \ {f} : state'[g] = state[g]
                 BY <3>3, <4>1 DEF Superseded, MarkFilesState
           <5>2. Ledger!Move({f}, {"open"}, "replaced")
                 BY <4>1, <5>1, MoveEntries DEF Entry
           <5> QED
                 BY <3>1, <5>2 DEF LedgerStep, Ledger!Next, Ledger!Replace
         <4>2. CASE state[f] \notin open
           <5>1. \A g \in Files : state'[g] = state[g]
                 BY <3>3, <4>2 DEF Superseded, MarkFilesState
           <5> QED
                 BY <3>1, <5>1, SameEntries
         <4> QED
               BY <4>1, <4>2
       <3>4. CASE Systemic(f) \/ Deferred(f)
         <4>1. PICK s \in {"stored", "failed"} : SetFileState(f, s)
               BY <3>4 DEF Systemic, Deferred, Failed
         <4> QED
               BY <3>1, <4>1, OpenEntry DEF LedgerInv, Unfinished, Recoverable
       <3> QED
             BY <2>6, <3>2, <3>3, <3>4 DEF FileFailed
  <2> QED
       BY <1>2, <2>1, <2>2, <2>3, <2>4, <2>5, <2>6 DEF JobThread
<1>3. CASE Settle
  <2>1. CASE SettleRead \/ SettleStat
       BY <1>0, <2>1 DEF SettleRead, SettleStat
  <2>2. CASE SettleMark
       <3> DEFINE fs == {f \in settle.files : state[f] \in Expirable}
       <3>1. /\ fs \in SUBSET Files
             /\ \A f \in fs : state[f] \in Expirable /\ state'[f] = "unavailable" /\ age[f] = 2
             /\ \A f \in Files \ fs : state'[f] = state[f]
             BY <2>2 DEF SettleMark, MarkFilesState, LedgerInv, TypeInv, TypeOK, OpenInv
       <3>2. \A f \in fs : Entry(state[f]) \in {"open", "skipped"} /\ Entry(state'[f]) = "missing"
             BY <3>1 DEF Entry, Expirable
       <3>3. Ledger!Move(fs, {"open", "skipped"}, "missing")
             BY <3>1, <3>2, MoveEntries
       <3>4. Ledger!GiveUp(fs)
             BY <2>2, <3>1, <3>3 DEF SettleMark, Ledger!GiveUp
       <3> QED
             BY <3>1, <3>4 DEF LedgerStep, Ledger!Next
  <2> QED
       BY <1>3, <2>1, <2>2 DEF Settle
<1>4. CASE Sweep
      BY <1>0, <1>4 DEF Sweep, SweepRead, SweepUnlink
<1>5. CASE Crash
      BY <1>5 DEF Crash, Spend, LedgerStep, Ledger!ledgerVars
<1>6. ASSUME NEW f \in Files, Download(f) \/ Archive(f) \/ LaneFault(f) PROVE LedgerStep
  <2>1. CASE VerifyExisting(f) \/ OpenStream(f) \/ LinkRefused(f) \/ FinishStream(f) \/ PutRaw(f)
       \/ PutIndex(f) \/ VerifyStored(f) \/ UnlinkOriginal(f) \/ DiscardCorrupt(f) \/
       RetryStream(f) \/ DownloadFails(f) \/ ArchiveFails(f)
       BY <1>0, <2>1 DEF VerifyExisting, OpenStream, LinkRefused, FinishStream, PutRaw, PutIndex,
          VerifyStored, UnlinkOriginal, DiscardCorrupt, RetryStream, DownloadFails, SetAside, ArchiveFails
  <2>2. CASE BeginDownload(f)
       <3>1. state[f] \notin {"done", "superseded"} /\ SetFileState(f, "downloading")
             BY <2>2 DEF BeginDownload, Step, LedgerInv, FinalInv
       <3> QED
             BY <2>2, <3>1, OpenEntry DEF BeginDownload, LedgerInv, Unfinished, Recoverable
  <2>3. CASE RefreshLink(f)
       <3>1. CASE UNCHANGED state
             BY <2>3, <3>1, SameEntries DEF RefreshLink
       <3>2. CASE UpsertRemote(f)
             BY <2>3, <3>2, ListEntry DEF RefreshLink, LedgerInv
       <3>3. CASE f \in DOMAIN Successor /\ UpsertRemotes(Successor[f])
             BY <2>3, <3>3, ListEntry, SuccessorAssumption DEF RefreshLink, LedgerInv, SuccessorAssumption
       <3> QED
             BY <2>3, <3>1, <3>2, <3>3 DEF RefreshLink
  <2>4. CASE EndDownload(f)
       <3>1. state[f] \notin {"done", "superseded"} /\ SetFileState(f, "downloaded")
             BY <2>4 DEF EndDownload, Step, LedgerInv, FinalInv
       <3> QED
             BY <2>4, <3>1, OpenEntry DEF EndDownload, LedgerInv, Unfinished, Recoverable
  <2>5. CASE BeginParsing(f)
       <3>1. state[f] \notin {"done", "superseded"} /\ SetFileState(f, "parsing")
             BY <2>5 DEF BeginParsing, Step, LedgerInv, FinalInv
       <3> QED
             BY <2>5, <3>1, OpenEntry DEF BeginParsing, LedgerInv, Unfinished, Recoverable
  <2>6. CASE CommitRow(f)
       <3>1. Ledger!Secure(f)
             BY <2>6 DEF CommitRow, Step, LedgerInv, OpenInv, Entry, Ledger!Secure
       <3> QED
             BY <3>1 DEF LedgerStep, Ledger!Next
  <2>7. CASE MarkStored(f)
       <3>1. state[f] \notin {"done", "superseded"} /\ SetFileState(f, "stored")
             BY <2>7 DEF MarkStored, Step, LedgerInv, FinalInv
       <3> QED
             BY <2>7, <3>1, OpenEntry DEF MarkStored, LedgerInv, Unfinished, Recoverable
  <2>8. CASE MarkDone(f)
       <3>1. f \in descr /\ state[f] \notin {"absent", "done", "superseded"} /\ UNCHANGED <<descr, age>>
             BY <2>8 DEF MarkDone, Step, LedgerInv, ArchiveInv, OpenInv, FinalInv
       <3>2. state'[f] = "done" /\ \A g \in Files \ {f} : state'[g] = state[g]
             BY <2>8 DEF MarkDone, SetFileState, LedgerInv, TypeInv, TypeOK
       <3>3. Ledger!Move({f}, {"open", "skipped", "missing"}, "collected")
             BY <3>1, <3>2, MoveEntries DEF Entry
       <3> QED
             BY <3>1, <3>3 DEF LedgerStep, Ledger!Next, Ledger!Collect
  <2> QED
       BY <1>6, <2>1, <2>2, <2>3, <2>4, <2>5, <2>6, <2>7, <2>8 DEF Download, Archive, LaneFault
<1>7. ASSUME NEW f \in Files, Ingest(f) \/ BackoffElapses(f) PROVE LedgerStep
  <2>1. CASE BackoffElapses(f)
       BY <1>0, <2>1 DEF BackoffElapses
  <2>2. CASE Ingest(f)
       <3>1. CASE UpsertRemotes(f)
             BY <2>2, <3>1, ListEntry DEF Ingest, LedgerInv
       <3>2. CASE UNCHANGED state
             BY <2>2, <3>2, SameEntries DEF Ingest
       <3> QED
             BY <2>2, <3>1, <3>2 DEF Ingest
  <2> QED
       BY <1>7, <2>1, <2>2
<1>8. CASE UNCHANGED vars
      BY <1>0, <1>8 DEF vars
<1> QED
    BY <1>1, <1>2, <1>3, <1>4, <1>5, <1>6, <1>7, <1>8 DEF Next

\* Whatever the threads, the sweeps, crashes and faults do: what is kept of each
\* file is what the ledger allows (ImplementsLedger).
THEOREM CollectorImplementsLedger == Spec => ImplementsLedger
<1>1. Init => Ledger!Init
    BY DEF Init, Entry, Ledger!Init
<1>2. LedgerInv /\ [Next]_vars => [Ledger!Next]_(Ledger!ledgerVars)
    BY LedgerNext DEF LedgerStep
<1> QED
    BY <1>1, <1>2, LedgerInvariant, PTL DEF Spec, ImplementsLedger, Ledger!Spec

-----------------------------------------------------------------------------
(* Consequences of the ledger.                                              *)

\* A file that is collected or replaced is never reopened (FinalStaysFinal): no
\* step of the ledger leaves these entries.
THEOREM FinalFilesStayFinal == Spec => FinalStaysFinal
<1>1. TypeInv /\ LedgerStep =>
          \A f \in Files : state[f] \in {"done", "superseded"} => state'[f] = state[f]
  <2> SUFFICES ASSUME TypeInv, LedgerStep, NEW f \in Files, state[f] \in {"done", "superseded"}
               PROVE  Entry(state'[f]) = Entry(state[f])
      BY DEF Entry
  <2>1. Entry(state[f]) \in {"collected", "replaced"}
      BY DEF Entry
  <2>2. CASE UNCHANGED Ledger!ledgerVars
      BY <2>2 DEF Ledger!ledgerVars
  <2>3. CASE \E g \in Files : \/ Ledger!Register(g) \/ Ledger!Secure(g) \/ Ledger!Collect(g)
                              \/ Ledger!Replace(g) \/ Ledger!Expire(g)
      BY <2>1, <2>3 DEF Ledger!Register, Ledger!Secure, Ledger!Collect, Ledger!Replace,
         Ledger!Expire, Ledger!Move
  <2>4. CASE \E fs \in SUBSET Files : Ledger!GiveUp(fs) \/ Ledger!Skip(fs)
      BY <2>1, <2>4 DEF Ledger!GiveUp, Ledger!Skip, Ledger!Move
  <2> QED
      BY <2>2, <2>3, <2>4 DEF LedgerStep, Ledger!Next
<1>2. LedgerInv /\ [Next]_vars =>
          [\A f \in Files : state[f] \in {"done", "superseded"} => state'[f] = state[f]]_vars
    BY <1>1, LedgerNext DEF LedgerInv
<1> QED
    BY <1>2, LedgerInvariant, PTL DEF Spec, FinalStaysFinal

\* No file is written off before its retention has passed (LostOnlyWhenExpired).
THEOREM LossNeedsExpiry == Spec => LostOnlyWhenExpired
<1>1. TypeInv /\ LedgerStep =>
          \A f \in Files : state[f] # "unavailable" /\ state'[f] = "unavailable" => age[f] > 0
  <2> SUFFICES ASSUME TypeInv, LedgerStep, NEW f \in Files,
                      state[f] # "unavailable", state'[f] = "unavailable"
               PROVE  age[f] > 0
      OBVIOUS
  <2>1. Entry(state[f]) # "missing" /\ Entry(state'[f]) = "missing"
      BY DEF Entry
  <2>2. CASE UNCHANGED Ledger!ledgerVars
      BY <2>1, <2>2 DEF Ledger!ledgerVars
  <2>3. CASE \E g \in Files : \/ Ledger!Register(g) \/ Ledger!Secure(g) \/ Ledger!Collect(g)
                              \/ Ledger!Replace(g) \/ Ledger!Expire(g)
      BY <2>1, <2>3 DEF Ledger!Register, Ledger!Secure, Ledger!Collect, Ledger!Replace,
         Ledger!Expire, Ledger!Move
  <2>4. CASE \E fs \in SUBSET Files : Ledger!GiveUp(fs) \/ Ledger!Skip(fs)
      BY <2>1, <2>4 DEF Ledger!GiveUp, Ledger!Skip, Ledger!Move
  <2> QED
      BY <2>2, <2>3, <2>4 DEF LedgerStep, Ledger!Next
<1>2. LedgerInv /\ [Next]_vars =>
          [\A f \in Files : state[f] # "unavailable" /\ state'[f] = "unavailable" => age[f] > 0]_vars
    BY <1>1, LedgerNext DEF LedgerInv
<1> QED
    BY <1>2, LedgerInvariant, PTL DEF Spec, LostOnlyWhenExpired

-----------------------------------------------------------------------------
(* The properties that need the invariants themselves.                      *)

\* The verified local copy outlives its archiving (OriginalHeldUntilArchived).
HeldStep == \A f \in Files : local[f] = "full" /\ local'[f] = "none" =>
    \/ Archived(f)
    \/ <<f, "full">> \in sweep
    \/ pc[f] \in {"connect", "again"}

\* No step drops a full local copy but those named in HeldStep.
LEMMA HeldNext ==
    ASSUME LedgerInv, [Next]_vars
    PROVE  HeldStep
<1> USE DEF disk, lanes, remote, control, queue, sweeps, unlaned, unswept
<1>0. UNCHANGED local => HeldStep
      BY DEF HeldStep
<1>1. CASE Environment
      BY <1>0, <1>1 DEF Environment, Hide, List, Expire, Delete, Rename, Switch
<1>2. CASE JobThread
      BY <1>0, <1>2 DEF JobThread, StartJob, RequestStop, CheckStop, Relist, Confirm, CloseJob,
         FailJob, RefreshEntries, RoundEnds, StopRound, JobExits, Admit, Submit, Retire, FileFailed
<1>3. CASE Settle
      BY <1>0, <1>3 DEF Settle, SettleRead, SettleStat, SettleMark
<1>4. CASE Sweep
  <2>1. ASSUME NEW f \in Files, SweepRead(f) PROVE HeldStep
       BY <1>0, <2>1 DEF SweepRead
  <2>2. ASSUME NEW f \in Files, SweepUnlink(f) PROVE HeldStep
       BY <2>2 DEF SweepUnlink, LedgerInv, TypeInv, TypeOK, HeldStep
  <2> QED
       BY <1>4, <2>1, <2>2 DEF Sweep
<1>5. CASE Crash
      BY <1>0, <1>5 DEF Crash
<1>6. ASSUME NEW f \in Files, Download(f) \/ Archive(f) \/ LaneFault(f) PROVE HeldStep
  <2>1. CASE BeginDownload(f) \/ VerifyExisting(f) \/ LinkRefused(f) \/ RefreshLink(f) \/
       EndDownload(f) \/ BeginParsing(f) \/ PutRaw(f) \/ PutIndex(f) \/ CommitRow(f) \/
       MarkStored(f) \/ VerifyStored(f) \/ MarkDone(f) \/ ArchiveFails(f)
       BY <1>0, <2>1 DEF BeginDownload, VerifyExisting, LinkRefused, RefreshLink, EndDownload,
          BeginParsing, PutRaw, PutIndex, CommitRow, MarkStored, VerifyStored, MarkDone,
          ArchiveFails
  <2>2. CASE OpenStream(f)
       BY <2>2 DEF OpenStream, Step, LedgerInv, TypeInv, TypeOK, HeldStep
  <2>3. CASE FinishStream(f)
       BY <2>3 DEF FinishStream, Step, Raise, LedgerInv, TypeInv, TypeOK, HeldStep
  <2>4. CASE UnlinkOriginal(f)
       BY <2>4 DEF UnlinkOriginal, Step, LedgerInv, TypeInv, TypeOK, ArchiveInv, HeldStep
  <2>5. CASE DiscardCorrupt(f)
       BY <2>5 DEF DiscardCorrupt, Hashed, LedgerInv, TypeInv, TypeOK, HeldStep
  <2>6. CASE RetryStream(f) \/ DownloadFails(f)
       BY <2>6 DEF RetryStream, DownloadFails, SetAside, LedgerInv, TypeInv, TypeOK, HeldStep
  <2> QED
       BY <1>6, <2>1, <2>2, <2>3, <2>4, <2>5, <2>6 DEF Download, Archive, LaneFault
<1>7. ASSUME NEW f \in Files, Ingest(f) \/ BackoffElapses(f) PROVE HeldStep
      BY <1>0, <1>7 DEF Ingest, BackoffElapses
<1>8. CASE UNCHANGED vars
      BY <1>0, <1>8 DEF vars
<1> QED
    BY <1>1, <1>2, <1>3, <1>4, <1>5, <1>6, <1>7, <1>8 DEF Next

\* The verified copy of an original leaves the download directory only when its
\* archive is complete (OriginalHeldUntilArchived): every step that clears it does.
THEOREM OriginalsAreHeld == Spec => OriginalHeldUntilArchived
<1>1. LedgerInv /\ [Next]_vars => [HeldStep]_vars
    BY HeldNext
<1> QED
    BY <1>1, LedgerInvariant, PTL DEF Spec, OriginalHeldUntilArchived, HeldStep
=============================================================================
