SPECIFICATION FairSpec
CONSTANTS
  t1 = t1
  t2 = t2
  t3 = t3
  Tasks = {t1, t2}
  MaxWorkers = 1
  Keep = 1
  MaxFaults = 1
  MaxCrashes = 1
INVARIANTS TypeOK PublishedHasResult NoFalseRunning
PROPERTIES FinalTaskStays SubmittedEnds
