---------------------------- MODULE MCRegression ----------------------------
(* Instances of Regression.                                                *)
EXTENDS Regression, TLC

\* No property tells the threads or the cases apart.
RegressionSymmetry == Permutations(Regressors) \cup Permutations(Cases)
=============================================================================
