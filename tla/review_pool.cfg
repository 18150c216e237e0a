SPECIFICATION Spec
CONSTANTS
  Clients = {c1, c2, c3}
  Columns = {path}
  Values = {v1, v2}
  BadValues = {bad}
  Reviewers = {alice}
  ReuseIds = FALSE
  MaxCases = 2
SYMMETRY ReviewSymmetry
CHECK_DEADLOCK FALSE
INVARIANTS
  ActiveIsValid
  SignedIfActive
PROPERTIES
  CasesFollowTheLifecycle
