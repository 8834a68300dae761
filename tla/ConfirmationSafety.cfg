SPECIFICATION Spec
CONSTANTS
  Ids = {1, 2}
  Modes <- MCModes
  Cmds = {c1, c2}
  MaxFaults = 2
SYMMETRY Symmetry
CHECK_DEADLOCK FALSE
INVARIANTS IndependentIsUnseen
PROPERTIES KeepsPromise
