SPECIFICATION MCSpec
CONSTANTS
  Proc = {p1, p2, p3}
  Token = {t1, t2, t3, t4}
  NoToken = NoToken
  MaxDepth = 2
  MaxCrashes = 2
  MaxFaults = 1
INVARIANTS
  MutualExclusion
  HolderOwnsFile
  OneRecoverer
  NoAbandonedClaim
PROPERTIES
  LiveLockStays
  StaleLockReclaimed
