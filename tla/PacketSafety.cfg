SPECIFICATION MCSpec
CONSTANTS
  MaxTrees = 2
  MaxCrashes = 2
  MaxProbes = 2
  MaxErrors = 1
  MaxGeneration = 3
CHECK_DEADLOCK FALSE
INVARIANTS LivingIsBarred ClosedIsDead
PROPERTIES StagesAlone PacketLeavesTruth RecoveredIsDead CommandsEnd UnprovenClears
