SPECIFICATION Spec
CONSTANTS
  Cases = {k1, k2}
  Regressors = {r1, r2}
  Workers = {w1}
  MaxCaseIds = 2
  MaxAsked = 3
SYMMETRY RegressionSymmetry
CHECK_DEADLOCK FALSE
INVARIANTS
  RegressionIsTraceable
