----------------------------- MODULE CanvasTab -----------------------------
(***************************************************************************)
(* The editors of a canvas: the browser tabs of its owner (CanvasPage.tsx, *)
(* canvasStore.ts), and the services that write nodes (agent-service,      *)
(* generation-service), each against CanvasGraph.                          *)
(*                                                                         *)
(* A tab keeps the detail it has loaded (canvas, with the version it will  *)
(* send) apart from the nodes and edges it shows and will save.            *)
(***************************************************************************)
EXTENDS CanvasGraph

CONSTANTS
    Tabs, Calls,   \* Threads is their union: a tab waits for its answer
    Sends          \* the operations and the key each service call may carry

ASSUME TabAssumption ==
    /\ Threads = Tabs \cup Calls /\ Tabs \cap Calls = {}
    /\ Sends \in [Calls -> SUBSET [op : STRING, key : Keys \cup {NoKey}]]

VARIABLES
    tab   \* what each tab shows and knows

vars == <<graphVars, tab>>

-----------------------------------------------------------------------------
\* stock and seen are history: the server's nodes when it had the tab's version,
\* and every node the tab has ever shown.
Shown(v, N, E, old) ==
    [ver |-> v, nodes |-> N, edges |-> E, stock |-> N, seen |-> old \cup N, todo |-> "edit"]

TabInit ==
    /\ Init
    /\ tab = [t \in Tabs |-> Shown(version, nodes, edges, {})]

Editing(t) == tab[t].todo = "edit" /\ txn[t] = Idle

Req(op, want, N, E) == [NoReq EXCEPT !.op = op, !.want = want, !.nodes = N, !.edges = E]

-----------------------------------------------------------------------------
(* What a tab sends *)

\* The query runs again, for one of its own reasons or after a save's conflict:
\* version, nodes and edges are replaced together.
Refetch(t) ==
    /\ txn[t] = Idle /\ ~deleted
    /\ tab[t].todo # "version"
    /\ tab' = [tab EXCEPT ![t] = Shown(version, nodes, edges, @.seen)]
    /\ UNCHANGED graphVars

\* Something on the canvas was edited: the graph shown is saved under the
\* version of the loaded canvas.
Save(t) ==
    /\ Editing(t)
    /\ SaveBegin(t, Req("save", tab[t].ver, tab[t].nodes, tab[t].edges))
    /\ UNCHANGED tab

\* persistNodePosition: one node is written under the same version.
Drag(t, n) ==
    /\ Editing(t)
    /\ n \in tab[t].nodes
    /\ Begin(t, Req("update", tab[t].ver, {n}, {}))
    /\ UNCHANGED tab

\* The canvas has another version already: the answer is a conflict at once.
DragRefused(t) ==
    /\ Editing(t) /\ ~deleted
    /\ tab[t].nodes # {} /\ tab[t].ver # version
    /\ tab' = [tab EXCEPT ![t].todo = "version"]
    /\ UNCHANGED graphVars

\* After a conflict persistNodePosition loads the canvas and keeps its version,
\* but the nodes and edges shown stay as they were; then it tries again.
FreshVersion(t) ==
    /\ tab[t].todo = "version" /\ ~deleted
    /\ tab' = [tab EXCEPT ![t].ver = version, ![t].stock = nodes, ![t].todo = "edit"]
    /\ UNCHANGED graphVars

\* addNode, duplicateNodes and onConnect send no version.
Create(t) ==
    /\ Editing(t)
    /\ Begin(t, Req("create", 0, {}, {}))
    /\ UNCHANGED tab

Connect(t, e) ==
    /\ Editing(t)
    /\ Ends({e}) \subseteq tab[t].nodes
    /\ Begin(t, Req("connect", 0, {}, {e}))
    /\ UNCHANGED tab

\* confirmDeleteNodes takes the node off the screen, then sends the command.
Remove(t, n) ==
    /\ Editing(t)
    /\ n \in tab[t].nodes
    /\ tab' = [tab EXCEPT ![t].nodes = @ \ {n},
                          ![t].edges = {e \in @ : n \notin Ends({e})}]
    /\ Begin(t, Req("delete", 0, {n}, {}))

\* onEdgesDelete; the request may be lost.
Disconnect(t, e) ==
    /\ Editing(t) /\ ~deleted
    /\ e \in tab[t].edges
    /\ tab' = [tab EXCEPT ![t].edges = @ \ {e}]
    /\ DeleteEdge(e) \/ UNCHANGED graphVars

-----------------------------------------------------------------------------
(* What it does with the answer *)

\* A position that was written is the next version of the canvas; a node or an
\* edge is shown; a saved canvas replaces the loaded one.
Learned(old, r) ==
    CASE r.op = "update"  -> [old EXCEPT !.ver = r.want + 1, !.stock = nodes']
      [] r.op = "create"  -> [old EXCEPT !.nodes = @ \cup (nodes' \ nodes),
                                         !.seen = @ \cup (nodes' \ nodes)]
      [] r.op = "delete"  -> old
      [] r.op = "connect" -> [old EXCEPT !.edges = @ \cup r.edges]
      [] r.op = "save"    -> [old EXCEPT !.ver = version', !.stock = nodes']

Answer(t) == tab' = [tab EXCEPT ![t] = Learned(@, txn[t].req)]

Then(t, todo) == tab' = [tab EXCEPT ![t].todo = todo]

\* The command or save goes through; the answer may be lost.
Done(t) ==
    /\ (\E n \in Nodes : Apply(t, n)) \/ Reuse(t) \/ SaveCommit(t)
    /\ Answer(t) \/ UNCHANGED tab

\* A conflict makes a save load the canvas again, and a drag its version.
Refused(t) ==
    \/ SaveConflict(t) /\ Then(t, "reload")
    \/ Conflict(t) /\ Then(t, IF txn[t].req.op = "update" THEN "version" ELSE "edit")
    \/ Fail(t) /\ UNCHANGED tab

TabStep(t) ==
    \/ Refetch(t) \/ Save(t) \/ Create(t)
    \/ DragRefused(t) \/ FreshVersion(t)
    \/ \E n \in Nodes : Drag(t, n) \/ Remove(t, n)
    \/ \E e \in Links : Connect(t, e) \/ Disconnect(t, e)
    \/ Advance(t) /\ UNCHANGED tab
    \/ Done(t) \/ Refused(t)

-----------------------------------------------------------------------------
(* The services *)

\* A call names the version it has just read, or none.
CallBegin(c) ==
    \E s \in Sends[c] :
        \/ s.op \in {"rename", "asset"} /\ RowBegin(c, s.op)
        \/ s.op = "create" /\ Begin(c, [NoReq EXCEPT !.op = s.op, !.key = s.key])
        \/ /\ s.op = "update"
           /\ \E n \in nodes : Begin(c, [NoReq EXCEPT !.op = s.op, !.key = s.key, !.nodes = {n}])

CallStep(c) ==
    /\ \/ CallBegin(c) \/ Claim(c) \/ Advance(c) \/ Conflict(c) \/ Fail(c)
       \/ \E n \in Nodes : Apply(c, n)
       \/ RowWrite(c)
    /\ UNCHANGED tab

Next ==
    \/ \E t \in Tabs : TabStep(t)
    \/ \E c \in Calls : CallStep(c)
    \/ DeleteCanvas /\ UNCHANGED tab

Spec == TabInit /\ [][Next]_vars

-----------------------------------------------------------------------------
(***************************************************************************)
(* The version stands for the nodes: a tab whose version is the canvas's   *)
(* knows that the nodes are those the server had when the tab learned that *)
(* version, from a load, a save or its own drag.  No node comes or goes    *)
(* under one version, and no version is given twice.                       *)
(***************************************************************************)
VersionNamesNodes ==
    \A t \in Tabs : tab[t].ver = version /\ ~deleted => tab[t].stock = nodes

(***************************************************************************)
(* Of two tabs that write one canvas, none silently overwrites the other:  *)
(* a node that a save removes has been on the screen of the tab that       *)
(* saved.                                                                  *)
(***************************************************************************)
NoSilentOverwrite ==
    [][\A t \in Tabs : SaveCommit(t) => nodes \ nodes' \subseteq tab[t].seen]_vars

-----------------------------------------------------------------------------
(* The requests, without their transactions *)

Open == [t \in Threads |-> txn[t].req]

A == INSTANCE AtomicGraph WITH open <- Open

(***************************************************************************)
(* A command or a save that succeeds happens as a whole at its commit: on  *)
(* the version it named, with the nodes it needs, and under a key that     *)
(* nobody has used; every other step of its transaction changes nothing    *)
(* another can see.  (assertAndAdvanceVersion compares a version that was  *)
(* read before the lock was taken; claim waits for the key's holder.)      *)
(***************************************************************************)
CommandsAreAtomic == A!Spec
=============================================================================
