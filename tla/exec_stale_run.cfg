SPECIFICATION Spec
CONSTANTS
  Clients = {c1}
  Workers = {w1}
  Tasks = {t1}
  MaxRequests = 2
  MaxFaults = 0
  EnvKinds = {}
CHECK_DEADLOCK FALSE
PROPERTY
  RunEndsItsOwnAttempt
