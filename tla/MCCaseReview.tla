---------------------------- MODULE MCCaseReview ----------------------------
(* Instances of CaseReview.                                                *)
EXTENDS CaseReview, TLC

\* No property tells the clients, the columns or the values apart.
ReviewSymmetry ==
  Permutations(Clients) \cup Permutations(Columns) \cup Permutations(Values)
=============================================================================
