--------------------------- MODULE MCAgentSession ---------------------------
(***************************************************************************)
(* Instances of AgentSession for TLC: message m1 asks for run r1, and m2   *)
(* for run r2, or c2 continues it once the first task of r1 has succeeded. *)
(***************************************************************************)
EXTENDS AgentSession, TLC

CONSTANTS m1, m2, c2, r1, r2

OwnRun     == [q \in Requests |-> IF q = m1 THEN r1 ELSE r2]
FirstTask  == [q \in Continuations |-> <<r1, 1>>]

Symmetry == Permutations(Accepts) \cup Permutations(Callbacks)

\* All but the event log, which no guard reads and no property of that run names.
View == <<status, cancelled, activeRun, turn, cancel, askVars>>
=============================================================================
