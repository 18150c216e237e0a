--------------------------- MODULE MCExecutionTasks ---------------------------
(* Instances of ExecutionTasks for TLC. *)
EXTENDS ExecutionTasks, TLC

\* Safety runs treat web threads, workers and run_ids as interchangeable.
Symmetry == Permutations(Clients) \cup Permutations(Workers) \cup Permutations(Tasks)
=============================================================================
