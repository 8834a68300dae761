SPECIFICATION LiveSpec
CONSTANTS
  Reqs = {r1, r2}
  NoReq = none
  MaxWrites = 2
  MaxRequests = 3
SYMMETRY Symmetry
CHECK_DEADLOCK FALSE
INVARIANTS AnswerIsOneMoment
