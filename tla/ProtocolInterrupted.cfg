SPECIFICATION Spec
CONSTANTS
  MaxEdits = 0
  MaxDeaths = 1
INVARIANTS InterruptedLogResumes
