SPECIFICATION MCSpec
CONSTANTS
  Ids = {1, 2}
  Modes <- MCModes
  Cmds = {c1, c2}
  Slots = {1, 2}
  MaxDeaths = 1
  MaxFaults = 1
SYMMETRY Symmetry
CHECK_DEADLOCK FALSE
INVARIANTS ReleasedMeansStopped
PROPERTIES KeepsPromise
