----------------------------- MODULE AtomicGraph -----------------------------
(***************************************************************************)
(* What canvas-service promises the callers of its graph API, without      *)
(* transactions or locks: a request that succeeds happens at once and as a *)
(* whole, on the version it names, and once under its key; one that fails  *)
(* leaves nothing.                                                         *)
(***************************************************************************)
EXTENDS Naturals

CONSTANTS Threads, Nodes, Links, Keys, NoKey, FirstNodes

VARIABLES
    version, deleted, nodes, edges,
    commands,  \* the keys that have been carried out
    made,      \* <<node, key>> for every node ever created
    open       \* the request each caller waits for

rows      == <<version, deleted, nodes, edges, commands, made>>
graphVars == <<rows, open>>

NoReq   == [op |-> "none", key |-> NoKey, want |-> 0, nodes |-> {}, edges |-> {}]
Request == [op : {"create", "update", "delete", "connect", "save", "rename", "asset"},
            key : Keys \cup {NoKey}, want : Nat, nodes : SUBSET Nodes, edges : SUBSET Links]

Between(E, N) == {e \in E : e[1] \in N /\ e[2] \in N}

Init ==
    /\ version = 1 /\ deleted = FALSE
    /\ nodes = FirstNodes /\ edges = {}
    /\ commands = {} /\ made = {<<n, NoKey>> : n \in FirstNodes}
    /\ open = [t \in Threads |-> NoReq]

Invoke(t) ==
    /\ open[t] = NoReq
    /\ open'[t] \in Request
    /\ open' = [open EXCEPT ![t] = open'[t]]
    /\ UNCHANGED rows

\* The graph becomes N and E, under the next version.
Write(t, N, E) ==
    /\ ~deleted
    /\ open[t].key \notin commands
    /\ nodes' = N
    /\ edges' = Between(E, N)
    /\ version' = version + 1
    /\ commands' = commands \cup ({open[t].key} \ {NoKey})
    /\ UNCHANGED deleted

Create(t) ==
    \E n \in Nodes \ {p[1] : p \in made} :
        Write(t, nodes \cup {n}, edges) /\ made' = made \cup {<<n, open[t].key>>}

Change(t) ==
    LET r == open[t] IN
    /\ UNCHANGED made
    /\ \/ r.op = "update" /\ r.nodes \subseteq nodes /\ Write(t, nodes, edges)
       \/ r.op = "delete" /\ r.nodes \subseteq nodes /\ Write(t, nodes \ r.nodes, edges)
       \/ /\ r.op = "connect" /\ r.edges = Between(r.edges, nodes)
          /\ Write(t, nodes, edges \cup r.edges)

\* A command names the version of the canvas, or none.
Command(t) ==
    /\ open[t].want \in {0, version}
    /\ (open[t].op = "create" /\ Create(t)) \/ Change(t)

\* The edges are there already.
Reuse(t) ==
    /\ open[t].op = "connect" /\ open[t].edges \subseteq edges
    /\ open[t].key \notin commands
    /\ commands' = commands \cup ({open[t].key} \ {NoKey})
    /\ UNCHANGED <<version, deleted, nodes, edges, made>>

\* A save names the version, and replaces all there is.
Save(t) ==
    /\ open[t].op = "save" /\ open[t].want = version
    /\ Write(t, open[t].nodes, open[t].edges)
    /\ UNCHANGED made

\* The row is written, and the graph stays.
Touch(t) ==
    /\ open[t].op \in {"rename", "asset"} /\ ~deleted
    /\ version' = version + 1
    /\ UNCHANGED <<deleted, nodes, edges, commands, made>>

\* A caller is answered: its request has happened, or is refused.
Answer(t) ==
    /\ open[t] # NoReq
    /\ open' = [open EXCEPT ![t] = NoReq]
    /\ UNCHANGED rows \/ Command(t) \/ Reuse(t) \/ Save(t) \/ Touch(t)

DeleteEdge(e) ==
    /\ edges' = edges \ {e}
    /\ UNCHANGED <<version, deleted, nodes, commands, made, open>>

DeleteCanvas ==
    /\ ~deleted /\ deleted' = TRUE
    /\ nodes' = {} /\ edges' = {}
    /\ UNCHANGED <<version, commands, made, open>>

Next ==
    \/ \E e \in Links : DeleteEdge(e)
    \/ DeleteCanvas
    \/ \E t \in Threads : Invoke(t) \/ Answer(t)

Spec == Init /\ [][Next]_graphVars
=============================================================================
