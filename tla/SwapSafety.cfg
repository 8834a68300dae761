SPECIFICATION SwapSpec
CONSTANTS
  N = 3
  MaxDeaths = 2
  MaxFaults = 2
INVARIANTS
  OriginalKept
  ReadyIsWhole
PROPERTIES
  AnswersAreTrue
CHECK_DEADLOCK FALSE
