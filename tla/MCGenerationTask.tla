--------------------------- MODULE MCGenerationTask ---------------------------
(***************************************************************************)
(* Instances of GenerationTask for TLC.                                    *)
(***************************************************************************)
EXTENDS GenerationTask, TLC

Symmetry == Permutations(Workers) \cup Permutations(Tasks)
=============================================================================
