SPECIFICATION FairSpec
CONSTANTS
  Files = {"config", "packet"}
  Deletable = {"packet"}
  Restorable = {"git"}
  Outside = {3}
  Facts = {"f1", "f2"}
  MaxChanges = 3
CHECK_DEADLOCK FALSE
INVARIANTS CoherentMoment RetriesAreEarned RejectionStood
PROPERTY Answers
