SPECIFICATION FairSpec
CONSTANTS
  Clients = {c1, c2}
  Workers = {w1, w2}
  NumOps = 1
  MaxRequests = 2
  MaxFaults = 2
  EnvKinds = {"refused", "lostreply", "soft"}
CHECK_DEADLOCK FALSE
INVARIANTS
  SummaryIsTrue
PROPERTIES
  EveryGenerationEnds
