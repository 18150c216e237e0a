SPECIFICATION FairSpec
CONSTANTS
  Clients = {c1}
  Workers = {w1}
  NumOps = 2
  MaxRequests = 3
  MaxFaults = 2
  EnvKinds = {"crash", "webcrash", "loss", "dup", "age"}
CHECK_DEADLOCK FALSE
INVARIANTS
  SuccessIsComplete
  OneClaimPerAttempt
PROPERTIES
  DraftsBelongToTheAttempt
  RowFollowsTheDiagram
  AgedGenerationIsRecovered
