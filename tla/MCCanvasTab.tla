---------------------------- MODULE MCCanvasTab ----------------------------
(***************************************************************************)
(* Instances of CanvasTab for TLC: two calls of the services, which may    *)
(* be one command sent twice.                                              *)
(***************************************************************************)
EXTENDS CanvasTab, TLC

CONSTANTS c1, c2, k1, n1, n2

Symmetry == Permutations(Tabs) \cup Permutations(Nodes \ FirstNodes)

OneLink == {<<n1, n2>>}

Send(op, key) == [op |-> op, key |-> key]

\* One command is sent twice or more often; c2 may carry another call instead.
\* ("rename" advances the version as an update does, and is left out.)
Retried ==
    [c \in Calls |-> {Send("create", k1)} \cup
        IF c = c2 THEN {Send(op, NoKey) : op \in {"update", "asset"}} ELSE {}]
=============================================================================
