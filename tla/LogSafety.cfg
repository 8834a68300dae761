SPECIFICATION MCSpec
CONSTANTS
  MaxRuns = 2
  Chunks = 2
  MaxFaults = 1
  MaxGits = 1
  MaxCrashes = 2
INVARIANTS
  CommittedIsEvaluated
  CommitAccounted
  CheckpointHonest
PROPERTIES
  ClearedWhole
  DiscardsOnlyPrepared
  LedgerKept
  KeepsPromise
  PendingSettles
CHECK_DEADLOCK FALSE
