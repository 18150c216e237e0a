SPECIFICATION FairSpec
CONSTANTS
  Clients = {c1}
  Workers = {w1}
  Tasks = {t1}
  MaxRequests = 2
  MaxFaults = 2
  EnvKinds = {"crash", "age", "loss", "webcrash"}
CHECK_DEADLOCK FALSE
PROPERTIES
  AgedRunIsRecovered
  RowsFollowTheDiagram
