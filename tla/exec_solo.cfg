SPECIFICATION Spec
CONSTANTS
  Clients = {c1, c2}
  Workers = {w1}
  Tasks = {t1, t2}
  MaxRequests = 3
  MaxFaults = 1
  EnvKinds = {"refused", "lostreply"}
SYMMETRY Symmetry
CHECK_DEADLOCK FALSE
INVARIANTS
  TypeOK
  RunningRowNamesItsPytest
  PendingHasMessage
  FailureIsExplained
  OnePytestPerTask
PROPERTIES
  SuccessIsItsOwn
