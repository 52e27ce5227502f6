---------------------------- MODULE MCTaskBilling ----------------------------
(***************************************************************************)
(* Instances of TaskBilling for TLC.                                       *)
(***************************************************************************)
EXTENDS TaskBilling, TLC

Symmetry == Permutations(Workers)
=============================================================================
