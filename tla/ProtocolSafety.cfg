SPECIFICATION Spec
CONSTANTS
  MaxEdits = 2
  MaxDeaths = 2
INVARIANTS
  RefusedIsUntouched
  NoLockOut
PROPERTIES
  PendingIsOwned
