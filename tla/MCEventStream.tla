--------------------------- MODULE MCEventStream ---------------------------
(***************************************************************************)
(* An instance of EventStream for TLC: three handlers, two of one run.     *)
(***************************************************************************)
EXTENDS EventStream, TLC

CONSTANTS w1, w2, w3

TwoRuns == [w \in Writers |-> IF w = w3 THEN "r2" ELSE "r1"]
=============================================================================
