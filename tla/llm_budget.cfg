SPECIFICATION Spec
CONSTANTS
  NumOps = 3
  Budget = 24
  MaxRetries = 3
  Backoff = 1
  SetupTime = 1
  ReadTimeout = 5
  MinRead = 1
  SdkRetries = 2
  SdkSleep = 2
  Lag = 1
CHECK_DEADLOCK FALSE
INVARIANTS
  EndsNearTheBudget
  GivenUpForTheBudget
