SPECIFICATION FairSpec
CONSTANTS
  Clients = {c1}
  Workers = {w1, w2}
  Tasks = {t1}
  MaxRequests = 2
  MaxFaults = 1
  EnvKinds = {"dup", "kill", "soft"}
CHECK_DEADLOCK FALSE
INVARIANTS
  KillReachesTheRunner
  OneRunPerAttempt
PROPERTIES
  CancelSticks
  RowsFollowTheDiagram
  EveryAttemptEnds
