------------------------- MODULE MCGenerationTasks -------------------------
(* Instances of GenerationTasks.  Both runs check temporal properties, so    *)
(* no symmetry is declared.                                                *)
EXTENDS GenerationTasks
=============================================================================
