SPECIFICATION FairSpec
CONSTANTS
  Ids = {1, 2}
  Modes <- MCModes
  Cmds = {1}
  Slots = {1, 2}
  MaxDeaths = 2
  MaxFaults = 1
CHECK_DEADLOCK FALSE
PROPERTIES LaunchAnswered
