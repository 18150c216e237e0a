SPECIFICATION Spec
CONSTANTS
  NoContract = NoContract
  Clients = {c1, c2}
  Documents <- MCDocuments
  Labels = {0, 1}
  HashVersions = 2
  ReuseIds = TRUE
  MaxRequests = 3
  MaxFaults = 1
SYMMETRY ClientSymmetry
CHECK_DEADLOCK FALSE
INVARIANTS
  TypeOK
  NoBreakIsMissed
PROPERTIES
  KeepsItsBaseline
