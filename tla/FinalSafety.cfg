SPECIFICATION Spec
CONSTANTS
  Files = {"a", "b"}
  Histories <- MCHistories
  MaxCommits = 3
  MaxRuns = 2
  MaxChanges = 1
  MaxFaults = 2
INVARIANTS
  CompletionIsBacked
  FailsVisibly
PROPERTIES
  OthersKept
CHECK_DEADLOCK FALSE
