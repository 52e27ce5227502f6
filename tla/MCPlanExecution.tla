-------------------------- MODULE MCPlanExecution --------------------------
(***************************************************************************)
(* An instance of PlanExecution for TLC: two reads that share a key, and a *)
(* task step that depends on both.                                         *)
(***************************************************************************)
EXTENDS PlanExecution, TLC

ThreeSteps == 1..3
AfterReads == [s \in Steps |-> IF s = 3 THEN {1, 2} ELSE {}]
SharedKey  == [s \in Steps |-> IF s \in {1, 2} THEN "canvas" ELSE NoKey]
AllJobs    == Calls \X Steps
=============================================================================
