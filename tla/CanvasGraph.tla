---------------------------- MODULE CanvasGraph ----------------------------
(***************************************************************************)
(* The graph of one canvas in canvas-service: CanvasService and            *)
(* GraphService, whose methods are READ COMMITTED transactions.            *)
(*                                                                         *)
(* A graph command reads the canvas row, claims its Idempotency-Key,       *)
(* advances the version with a conditional UPDATE that takes the row's     *)
(* lock, and then changes nodes and edges.  A save takes the lock first.   *)
(* What it read of the row stays in the session's cache, so the version a  *)
(* command compares is the one it read at its start.  Uncommitted changes  *)
(* are those of the lock's holder alone; they are applied when it commits. *)
(***************************************************************************)
EXTENDS Naturals, FiniteSets

CONSTANTS
    Threads,      \* request threads
    Nodes,        \* node ids, which bound the creations
    Links,        \* <<source, target>>: the edges that are drawn
    Keys,         \* Idempotency-Keys that are sent more than once
    NoKey,        \* a key used once, or none
    Nobody,
    FirstNodes,   \* the nodes at the start
    MaxVersion    \* bound on the canvas version

ASSUME CanvasAssumption ==
    /\ FirstNodes \subseteq Nodes /\ Links \subseteq Nodes \X Nodes
    /\ NoKey \notin Keys /\ Nobody \notin Threads
    /\ MaxVersion \in Nat

VARIABLES
    version,   \* canvases.version
    deleted,   \* canvases.deleted
    nodes,     \* canvas_nodes that are not deleted
    edges,     \* canvas_edges that are not deleted
    commands,  \* the keys with a row in canvas_graph_commands
    made,      \* history: <<node, key>> for every node ever created
    lock,      \* who holds the lock of the canvas row
    txn        \* the open transaction of each thread

graph     == <<version, deleted, nodes, edges>>
graphVars == <<graph, commands, made, lock, txn>>

-----------------------------------------------------------------------------
Commands == {"create", "update", "delete", "connect"}
NoReq    == [op |-> "none", key |-> NoKey, want |-> 0, nodes |-> {}, edges |-> {}]
Idle     == [pc |-> "idle", ver |-> 0, req |-> NoReq]

Within(E, N) == {e \in E : e[1] \in N /\ e[2] \in N}
Ends(E)      == {e[1] : e \in E} \cup {e[2] : e \in E}

\* The nodes requireNode looks for.
Needs(r) == r.nodes \cup Ends(r.edges)

\* Node ids are never used again.
Unused == Nodes \ {p[1] : p \in made}

\* There are ids for one more node: a bound of the model.
MayCreate == Cardinality(Unused) > Cardinality({t \in Threads : txn[t].req.op = "create"})

\* A transaction that has inserted the key and is still open.
Holds(t, k) == k # NoKey /\ txn[t].req.key = k /\ txn[t].pc \in {"claimed", "locked"}

Remember(k) == commands' = commands \cup ({k} \ {NoKey})
End(t)      == txn' = [txn EXCEPT ![t] = Idle]
Release(t)  == lock' = IF lock = t THEN Nobody ELSE lock

Init ==
    /\ version = 1
    /\ deleted = FALSE
    /\ nodes = FirstNodes
    /\ edges = {}
    /\ commands = {}
    /\ made = {<<n, NoKey>> : n \in FirstNodes}
    /\ lock = Nobody
    /\ txn = [t \in Threads |-> Idle]

-----------------------------------------------------------------------------
(* Graph commands: addNode, updateNode, deleteNode, addEdge *)

\* requireOwned reads the row and claim inserts the key, or waits for the open
\* transaction that has inserted it.
Begin(t, r) ==
    /\ txn[t] = Idle
    /\ ~deleted /\ version < MaxVersion
    /\ r.op = "create" => MayCreate
    /\ r.key \notin commands
    /\ r.want \in {0, version}
    /\ txn' = [txn EXCEPT ![t] =
           [pc |-> IF \E u \in Threads : Holds(u, r.key) THEN "queued" ELSE "claimed",
            ver |-> version, req |-> r]]
    /\ UNCHANGED <<graph, commands, made, lock>>

\* The transaction that held the key has ended.  If it committed, claim finds no
\* row in its snapshot and returns null: the request fails.
Claim(t) ==
    LET k == txn[t].req.key IN
    /\ txn[t].pc = "queued"
    /\ \A u \in Threads : ~Holds(u, k)
    /\ txn' = [txn EXCEPT ![t] = IF k \in commands THEN Idle ELSE [@ EXCEPT !.pc = "claimed"]]
    /\ UNCHANGED <<graph, commands, made, lock>>

\* Mutant of Advance: the UPDATE does not wait for the row.
AdvanceUnlocked(t) ==
    /\ txn[t].pc = "claimed" /\ txn[t].req.op \in Commands
    /\ ~(txn[t].req.op = "connect" /\ txn[t].req.edges \subseteq edges)
    /\ ~deleted /\ version = txn[t].ver
    /\ lock' = t
    /\ txn' = [txn EXCEPT ![t].pc = "locked"]
    /\ UNCHANGED <<graph, commands, made>>

\* assertAndAdvanceVersion finds the version that was read; addEdge has found no
\* edge between the two nodes.
Advance(t) ==
    /\ txn[t].pc = "claimed" /\ txn[t].req.op \in Commands
    /\ ~(txn[t].req.op = "connect" /\ txn[t].req.edges \subseteq edges)
    /\ lock = Nobody
    /\ ~deleted /\ version = txn[t].ver
    /\ lock' = t
    /\ txn' = [txn EXCEPT ![t].pc = "locked"]
    /\ UNCHANGED <<graph, commands, made>>

\* addEdge returns the edge that is there, and leaves the version alone.
Reuse(t) ==
    /\ txn[t].pc = "claimed" /\ txn[t].req.op = "connect"
    /\ txn[t].req.edges \subseteq edges
    /\ Remember(txn[t].req.key)
    /\ End(t)
    /\ UNCHANGED <<graph, made, lock>>

\* Zero rows: another writer was faster, or the canvas is gone.
Conflict(t) ==
    /\ txn[t].pc = "claimed" /\ txn[t].req.op \in Commands
    /\ lock = Nobody
    /\ deleted \/ version # txn[t].ver
    /\ End(t)
    /\ UNCHANGED <<graph, commands, made, lock>>

\* A node that is needed is not there, or the types of two nodes do not connect.
Fail(t) ==
    /\ txn[t].pc = "locked"
    /\ ~(Needs(txn[t].req) \subseteq nodes) \/ txn[t].req.op = "connect"
    /\ txn[t].req.op \in Commands
    /\ End(t)
    /\ Release(t)
    /\ UNCHANGED <<graph, commands, made>>

\* The graph after the command; n is the id addNode gives.
NodesAfter(r, n) ==
    CASE r.op = "create" -> nodes \cup {n}
      [] r.op = "delete" -> nodes \ r.nodes
      [] OTHER           -> nodes

EdgesAfter(r) ==
    CASE r.op = "delete"  -> {e \in edges : Ends({e}) \cap r.nodes = {}}
      [] r.op = "connect" -> edges \cup r.edges
      [] OTHER            -> edges

\* Mutant of Apply: the edges of a deleted node stay.
ApplyNodes(t, n) ==
    LET r == txn[t].req IN
    /\ txn[t].pc = "locked" /\ r.op \in Commands
    /\ Needs(r) \subseteq nodes
    /\ r.op = "create" => n \in Unused
    /\ nodes' = NodesAfter(r, n)
    /\ edges' = IF r.op = "delete" THEN edges ELSE EdgesAfter(r)
    /\ made' = IF r.op = "create" THEN made \cup {<<n, r.key>>} ELSE made
    /\ version' = version + 1
    /\ Remember(r.key)
    /\ End(t)
    /\ Release(t)
    /\ UNCHANGED deleted

\* Mutant of Apply: the result is not remembered.
ApplyForgotten(t, n) ==
    LET r == txn[t].req IN
    /\ txn[t].pc = "locked" /\ r.op \in Commands
    /\ Needs(r) \subseteq nodes
    /\ r.op = "create" => n \in Unused
    /\ nodes' = NodesAfter(r, n)
    /\ edges' = EdgesAfter(r)
    /\ made' = IF r.op = "create" THEN made \cup {<<n, r.key>>} ELSE made
    /\ version' = version + 1
    /\ End(t)
    /\ Release(t)
    /\ UNCHANGED <<deleted, commands>>

\* Under the lock the command finds its nodes, changes the graph, remembers its
\* result and commits.
Apply(t, n) ==
    LET r == txn[t].req IN
    /\ txn[t].pc = "locked" /\ r.op \in Commands
    /\ Needs(r) \subseteq nodes
    /\ r.op = "create" => n \in Unused
    /\ nodes' = NodesAfter(r, n)
    /\ edges' = EdgesAfter(r)
    /\ made' = IF r.op = "create" THEN made \cup {<<n, r.key>>} ELSE made
    /\ version' = version + 1
    /\ Remember(r.key)
    /\ End(t)
    /\ Release(t)
    /\ UNCHANGED deleted

\* deleteEdge looks at neither the version nor the lock.
DeleteEdge(e) ==
    /\ edges' = edges \ {e}
    /\ UNCHANGED <<version, deleted, nodes, commands, made, lock, txn>>

-----------------------------------------------------------------------------
(* CanvasService: save, update, share, delete; DramaAssetService: upsert *)

\* SELECT ... FOR UPDATE returns the row as it is when the lock is granted.
SaveBegin(t, r) ==
    /\ txn[t] = Idle /\ lock = Nobody
    /\ ~deleted /\ version < MaxVersion
    /\ lock' = t
    /\ txn' = [txn EXCEPT ![t] = [pc |-> "locked", ver |-> version, req |-> r]]
    /\ UNCHANGED <<graph, commands, made>>

SaveConflict(t) ==
    /\ txn[t].pc = "locked" /\ txn[t].req.op = "save"
    /\ txn[t].req.want # txn[t].ver
    /\ End(t)
    /\ Release(t)
    /\ UNCHANGED <<graph, commands, made>>

\* Mutant of SaveCommit: the version is compared, but not advanced.
SaveKeepsVersion(t) ==
    LET r == txn[t].req IN
    /\ txn[t].pc = "locked" /\ r.op = "save"
    /\ r.want = txn[t].ver
    /\ nodes' = r.nodes
    /\ edges' = Within(r.edges, r.nodes)
    /\ End(t)
    /\ Release(t)
    /\ UNCHANGED <<version, deleted, commands, made>>

\* All rows are deleted and those of the request inserted under their ids; an
\* edge without both of its nodes is dropped.
SaveCommit(t) ==
    LET r == txn[t].req IN
    /\ txn[t].pc = "locked" /\ r.op = "save"
    /\ r.want = txn[t].ver
    /\ nodes' = r.nodes
    /\ edges' = Within(r.edges, r.nodes)
    /\ version' = version + 1
    /\ End(t)
    /\ Release(t)
    /\ UNCHANGED <<deleted, commands, made>>

\* update and share read the row, and the asset command compares its version.
RowBegin(t, op) ==
    /\ txn[t] = Idle
    /\ ~deleted /\ version < MaxVersion
    /\ txn' = [txn EXCEPT ![t] = [pc |-> "claimed", ver |-> version,
                                  req |-> [NoReq EXCEPT !.op = op]]]
    /\ UNCHANGED <<graph, commands, made, lock>>

\* updateById compares the version of the entity and adds one to it; update and
\* share ignore that no row matched.  upsert has added one to the entity itself,
\* so its row matches when one other writer has committed in between.
RowWrite(t) ==
    LET found == txn[t].ver + (IF txn[t].req.op = "asset" THEN 1 ELSE 0) IN
    /\ txn[t].pc = "claimed" /\ txn[t].req.op \in {"rename", "asset"}
    /\ lock = Nobody
    /\ version' = IF ~deleted /\ version = found THEN version + 1 ELSE version
    /\ End(t)
    /\ UNCHANGED <<deleted, nodes, edges, commands, made, lock>>

DeleteCanvas ==
    /\ lock = Nobody /\ ~deleted
    /\ deleted' = TRUE
    /\ nodes' = {}
    /\ edges' = {}
    /\ UNCHANGED <<version, commands, made, lock, txn>>

-----------------------------------------------------------------------------
(***************************************************************************)
(* The rows have their types, and a transaction that is past its          *)
(* conditional UPDATE or its SELECT ... FOR UPDATE is the one that holds   *)
(* the row.                                                                *)
(***************************************************************************)
CanvasTypeOK ==
    /\ version \in 1..(MaxVersion + 1)
    /\ deleted \in BOOLEAN
    /\ nodes \subseteq Nodes
    /\ edges \subseteq Links
    /\ commands \subseteq Keys
    /\ made \subseteq Nodes \X (Keys \cup {NoKey})
    /\ lock \in Threads \cup {Nobody}
    /\ \A t \in Threads :
          /\ txn[t].pc \in {"idle", "queued", "claimed", "locked"}
          /\ txn[t].ver \in 0..version
          /\ txn[t].pc = "locked" <=> lock = t

(***************************************************************************)
(* An edge that is stored joins two nodes that are stored, and a deleted   *)
(* canvas has neither, whatever commands, saves and deletions overlap:     *)
(* deleteNode removes the edges it has read, addEdge checks the nodes,     *)
(* and save inserts both from a request.                                   *)
(***************************************************************************)
GraphIsClosed ==
    /\ edges = Within(edges, nodes)
    /\ deleted => nodes = {}

(***************************************************************************)
(* A create command that is sent twice under one Idempotency-Key, the      *)
(* second while the first is open or after it, makes one node.             *)
(***************************************************************************)
OneNodePerKey ==
    \A p, q \in made : p[2] = q[2] /\ p[2] # NoKey => p = q
=============================================================================
