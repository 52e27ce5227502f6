--------------------------- MODULE CanvasTab_proofs ---------------------------
(***************************************************************************)
(* Proofs about the canvas and its tabs, for any number of nodes, edges,   *)
(* keys, tabs and calls.  What a step does to the graph is shown first     *)
(* (GraphStep); what a tab knows of it follows from the versions alone.    *)
(***************************************************************************)
EXTENDS CanvasTab, TLAPS

Ops == {"none", "create", "update", "delete", "connect", "save", "rename", "asset"}

Request == [op : Ops, key : Keys \cup {NoKey}, want : Nat,
            nodes : SUBSET Nodes, edges : SUBSET Links]

\* What a step of the system does to the graph.
GraphStep ==
    \/ \E t \in Threads, r \in Request :
          \/ r.op \in Commands /\ Begin(t, r)
          \/ r.op = "save" /\ r.key = NoKey /\ SaveBegin(t, r)
    \/ \E t \in Threads :
          \/ Claim(t) \/ Advance(t) \/ Reuse(t) \/ Conflict(t) \/ Fail(t)
          \/ \E n \in Nodes : Apply(t, n)
          \/ SaveConflict(t) \/ SaveCommit(t)
          \/ RowBegin(t, "rename") \/ RowBegin(t, "asset") \/ RowWrite(t)
    \/ \E e \in Links : DeleteEdge(e)
    \/ DeleteCanvas
    \/ UNCHANGED graphVars

RowsTyped ==
    /\ version \in 1..(MaxVersion + 1)
    /\ deleted \in BOOLEAN
    /\ nodes \subseteq Nodes
    /\ edges \subseteq Links
    /\ commands \subseteq Keys
    /\ made \subseteq Nodes \X (Keys \cup {NoKey})
    /\ lock \in Threads \cup {Nobody}

TxnTyped ==
    txn \in [Threads -> [pc : {"idle", "queued", "claimed", "locked"}, ver : Nat, req : Request]]

\* A transaction has read a version below the bound, and the lock keeps it.
VersionHeld ==
    \A t \in Threads :
        /\ txn[t].pc = "locked" <=> lock = t
        /\ txn[t].ver <= version
        /\ txn[t].pc # "idle" => txn[t].ver < MaxVersion
        /\ txn[t].pc = "locked" => txn[t].ver = version

\* Nobody deletes a canvas whose row somebody holds.
HeldStays == lock # Nobody => ~deleted

\* A key has one open transaction, or is remembered; a node made under it is
\* remembered with it.
KeysOnce ==
    /\ \A t, u \in Threads, k \in Keys : Holds(t, k) /\ Holds(u, k) => t = u
    /\ \A t \in Threads, k \in Keys : Holds(t, k) => k \notin commands
    /\ \A p \in made : p[2] # NoKey => p[2] \in commands

\* An open request is one of the API's; a command names the version that its
\* transaction has read or none, and only commands carry keys.
Named ==
    \A t \in Threads :
        LET r == txn[t].req IN
        /\ txn[t].pc = "idle" <=> txn[t] = Idle
        /\ txn[t].pc # "idle" => r.op # "none"
        /\ r.op \in Commands => r.want \in {0, txn[t].ver}
        /\ r.op \notin Commands => r.key = NoKey

GraphInv ==
    /\ RowsTyped /\ TxnTyped /\ VersionHeld /\ HeldStays /\ Named
    /\ GraphIsClosed /\ KeysOnce /\ OneNodePerKey

Known == [ver : Nat \ {0}, nodes : SUBSET Nodes, edges : SUBSET Links,
          stock : SUBSET Nodes, seen : SUBSET Nodes, todo : {"edit", "version", "reload"}]

TabTyped == tab \in [Tabs -> Known]

\* A drag is sent under the version that its transaction has read.
WantHeld == \A t \in Tabs : txn[t].req.op = "update" => txn[t].req.want = txn[t].ver

\* No tab is ahead of the canvas.
Behind == \A t \in Tabs : tab[t].ver <= version

TabInv == GraphInv /\ TabTyped /\ WantHeld /\ Behind /\ VersionNamesNodes

-----------------------------------------------------------------------------
(* The parts of the invariant under a step of the graph *)

LEMMA NoReqTyped == NoReq \in Request /\ NoReq.key = NoKey
  BY DEF NoReq, Request, Ops

LEMMA IdleTyped ==
    Idle \in [pc : {"idle", "queued", "claimed", "locked"}, ver : Nat, req : Request]
  BY NoReqTyped DEF Idle

LEMMA TypesStep ==
    ASSUME RowsTyped, TxnTyped, VersionHeld, GraphStep
    PROVE  RowsTyped' /\ TxnTyped'
<1> USE CanvasAssumption, IdleTyped
<1>1. ASSUME NEW t \in Threads, NEW r \in Request, Begin(t, r) PROVE RowsTyped' /\ TxnTyped'
  BY <1>1 DEF Begin, RowsTyped, TxnTyped, graph
<1>2. ASSUME NEW t \in Threads, NEW r \in Request, SaveBegin(t, r) PROVE RowsTyped' /\ TxnTyped'
  BY <1>2 DEF SaveBegin, RowsTyped, TxnTyped, graph
<1>3. ASSUME NEW t \in Threads, Claim(t) PROVE RowsTyped' /\ TxnTyped'
  BY <1>3 DEF Claim, RowsTyped, TxnTyped, graph
<1>4. ASSUME NEW t \in Threads, Advance(t) PROVE RowsTyped' /\ TxnTyped'
  BY <1>4 DEF Advance, RowsTyped, TxnTyped, graph
<1>5. ASSUME NEW t \in Threads, Reuse(t) PROVE RowsTyped' /\ TxnTyped'
  BY <1>5 DEF Reuse, Remember, End, RowsTyped, TxnTyped, graph, Request
<1>6. ASSUME NEW t \in Threads, Conflict(t) \/ Fail(t) \/ SaveConflict(t)
      PROVE  RowsTyped' /\ TxnTyped'
  BY <1>6 DEF Conflict, Fail, SaveConflict, End, Release, RowsTyped, TxnTyped, graph
<1>7. ASSUME NEW t \in Threads, NEW n \in Nodes, Apply(t, n) PROVE RowsTyped' /\ TxnTyped'
  <2>1. txn[t].req \in Request /\ version \in Nat /\ version < MaxVersion
    BY <1>7 DEF Apply, RowsTyped, TxnTyped, VersionHeld
  <2>2. /\ txn[t].req.key \in Keys \cup {NoKey}
        /\ txn[t].req.edges \subseteq Links
    BY <2>1 DEF Request
  <2>3. nodes' \subseteq Nodes /\ edges' \subseteq Links
    BY <1>7, <2>2 DEF Apply, RowsTyped, NodesAfter, EdgesAfter
  <2>4. TxnTyped'
    BY <1>7 DEF Apply, End, TxnTyped
  <2>5. made' \subseteq Nodes \X (Keys \cup {NoKey}) /\ commands' \subseteq Keys
    BY <1>7, <2>2 DEF Apply, Remember, RowsTyped
  <2>6. version' \in 1..(MaxVersion + 1) /\ lock' \in Threads \cup {Nobody} /\ deleted' \in BOOLEAN
    BY <1>7, <2>1 DEF Apply, Release, RowsTyped
  <2>7. QED BY <2>3, <2>4, <2>5, <2>6 DEF RowsTyped
<1>8. ASSUME NEW t \in Threads, SaveCommit(t) PROVE RowsTyped' /\ TxnTyped'
  <2>1. txn[t].req \in Request /\ version \in Nat /\ version < MaxVersion
    BY <1>8 DEF SaveCommit, RowsTyped, TxnTyped, VersionHeld
  <2>2. nodes' \subseteq Nodes /\ edges' \subseteq Links
    BY <1>8, <2>1 DEF SaveCommit, Within, Request
  <2>3. QED BY <1>8, <2>1, <2>2 DEF SaveCommit, End, Release, RowsTyped, TxnTyped
<1>9. ASSUME NEW t \in Threads, RowBegin(t, "rename") \/ RowBegin(t, "asset")
      PROVE  RowsTyped' /\ TxnTyped'
  <2>1. [NoReq EXCEPT !.op = "rename"] \in Request /\ [NoReq EXCEPT !.op = "asset"] \in Request
    BY NoReqTyped DEF Request, Ops
  <2>2. QED BY <1>9, <2>1 DEF RowBegin, RowsTyped, TxnTyped, graph
<1>10. ASSUME NEW t \in Threads, RowWrite(t) PROVE RowsTyped' /\ TxnTyped'
  <2>1. txn[t].ver \in Nat /\ txn[t].ver < MaxVersion
    BY <1>10 DEF RowWrite, TxnTyped, VersionHeld
  <2>2. version' \in 1..(MaxVersion + 1)
    BY <1>10, <2>1 DEF RowWrite, RowsTyped
  <2>3. QED BY <1>10, <2>2 DEF RowWrite, End, RowsTyped, TxnTyped
<1>11. ASSUME NEW e \in Links, DeleteEdge(e) PROVE RowsTyped' /\ TxnTyped'
  BY <1>11 DEF DeleteEdge, RowsTyped, TxnTyped
<1>12. CASE DeleteCanvas
  BY <1>12 DEF DeleteCanvas, RowsTyped, TxnTyped
<1>13. CASE UNCHANGED graphVars
  BY <1>13 DEF graphVars, graph, RowsTyped, TxnTyped
<1>14. QED BY <1>1, <1>2, <1>3, <1>4, <1>5, <1>6, <1>7, <1>8, <1>9, <1>10, <1>11, <1>12, <1>13
        DEF GraphStep

LEMMA HeldStep ==
    ASSUME RowsTyped, TxnTyped, VersionHeld, HeldStays, GraphStep
    PROVE  VersionHeld' /\ HeldStays'
<1> USE CanvasAssumption DEF Idle
<1>1. ASSUME NEW t \in Threads, NEW r \in Request, Begin(t, r) \/ SaveBegin(t, r)
      PROVE  VersionHeld' /\ HeldStays'
  <2>1. HeldStays'
    BY <1>1 DEF Begin, SaveBegin, HeldStays, graph
  <2>2. ASSUME NEW u \in Threads
        PROVE  /\ txn'[u].pc = "locked" <=> lock' = u
               /\ txn'[u].ver <= version'
               /\ txn'[u].pc # "idle" => txn'[u].ver < MaxVersion
               /\ txn'[u].pc = "locked" => txn'[u].ver = version'
    BY <1>1 DEF Begin, SaveBegin, VersionHeld, RowsTyped, TxnTyped, graph
  <2>3. QED BY <2>1, <2>2 DEF VersionHeld
<1>2. ASSUME NEW t \in Threads, Claim(t) \/ Advance(t) PROVE VersionHeld' /\ HeldStays'
  <2>1. HeldStays'
    BY <1>2 DEF Claim, Advance, HeldStays, graph
  <2>2. ASSUME NEW u \in Threads
        PROVE  /\ txn'[u].pc = "locked" <=> lock' = u
               /\ txn'[u].ver <= version'
               /\ txn'[u].pc # "idle" => txn'[u].ver < MaxVersion
               /\ txn'[u].pc = "locked" => txn'[u].ver = version'
    BY <1>2 DEF Claim, Advance, VersionHeld, RowsTyped, TxnTyped, graph
  <2>3. QED BY <2>1, <2>2 DEF VersionHeld
<1>3. ASSUME NEW t \in Threads, Reuse(t) \/ Conflict(t) \/ Fail(t) \/ SaveConflict(t)
      PROVE  VersionHeld' /\ HeldStays'
  <2>1. HeldStays'
    BY <1>3 DEF Reuse, Conflict, Fail, SaveConflict, Release, HeldStays, graph
  <2>2. ASSUME NEW u \in Threads
        PROVE  /\ txn'[u].pc = "locked" <=> lock' = u
               /\ txn'[u].ver <= version'
               /\ txn'[u].pc # "idle" => txn'[u].ver < MaxVersion
               /\ txn'[u].pc = "locked" => txn'[u].ver = version'
    BY <1>3 DEF Reuse, Conflict, Fail, SaveConflict, End, Release, VersionHeld, RowsTyped, TxnTyped, graph
  <2>3. QED BY <2>1, <2>2 DEF VersionHeld
<1>4. ASSUME NEW t \in Threads, (\E n \in Nodes : Apply(t, n)) \/ SaveCommit(t)
      PROVE  VersionHeld' /\ HeldStays'
  <2>1. /\ lock = t /\ lock' = Nobody
        /\ version' = version + 1
        /\ txn' = [txn EXCEPT ![t] = Idle]
    BY <1>4 DEF Apply, SaveCommit, End, Release, VersionHeld
  <2>2. HeldStays'
    BY <2>1 DEF HeldStays
  <2>3. ASSUME NEW u \in Threads
        PROVE  /\ txn'[u].pc = "locked" <=> lock' = u
               /\ txn'[u].ver <= version'
               /\ txn'[u].pc # "idle" => txn'[u].ver < MaxVersion
               /\ txn'[u].pc = "locked" => txn'[u].ver = version'
    BY <2>1 DEF VersionHeld, RowsTyped, TxnTyped
  <2>4. QED BY <2>2, <2>3 DEF VersionHeld
<1>5. ASSUME NEW t \in Threads, NEW op, RowBegin(t, op) PROVE VersionHeld' /\ HeldStays'
  <2>1. HeldStays'
    BY <1>5 DEF RowBegin, HeldStays, graph
  <2>2. ASSUME NEW u \in Threads
        PROVE  /\ txn'[u].pc = "locked" <=> lock' = u
               /\ txn'[u].ver <= version'
               /\ txn'[u].pc # "idle" => txn'[u].ver < MaxVersion
               /\ txn'[u].pc = "locked" => txn'[u].ver = version'
    BY <1>5 DEF RowBegin, VersionHeld, RowsTyped, TxnTyped, graph
  <2>3. QED BY <2>1, <2>2 DEF VersionHeld
<1>6. ASSUME NEW t \in Threads, RowWrite(t) PROVE VersionHeld' /\ HeldStays'
  <2>1. /\ lock = Nobody /\ lock' = Nobody
        /\ version' \in {version, version + 1}
        /\ txn' = [txn EXCEPT ![t] = Idle]
    BY <1>6 DEF RowWrite, End
  <2>2. HeldStays'
    BY <2>1 DEF HeldStays
  <2>3. ASSUME NEW u \in Threads
        PROVE  /\ txn'[u].pc = "locked" <=> lock' = u
               /\ txn'[u].ver <= version'
               /\ txn'[u].pc # "idle" => txn'[u].ver < MaxVersion
               /\ txn'[u].pc = "locked" => txn'[u].ver = version'
    BY <2>1 DEF VersionHeld, RowsTyped, TxnTyped
  <2>4. QED BY <2>2, <2>3 DEF VersionHeld
<1>7. CASE (\E e \in Links : DeleteEdge(e)) \/ UNCHANGED graphVars
  BY <1>7 DEF DeleteEdge, graphVars, graph, VersionHeld, HeldStays
<1>8. CASE DeleteCanvas
  BY <1>8 DEF DeleteCanvas, VersionHeld, HeldStays
<1>9. QED BY <1>1, <1>2, <1>3, <1>4, <1>5, <1>6, <1>7, <1>8 DEF GraphStep

\* Edges are added between nodes found under the lock, and go with their nodes.
LEMMA ClosedStep ==
    ASSUME RowsTyped, TxnTyped, VersionHeld, HeldStays, GraphIsClosed, GraphStep
    PROVE  GraphIsClosed'
<1> USE CanvasAssumption
<1>1. ASSUME NEW t \in Threads, NEW n \in Nodes, Apply(t, n) PROVE GraphIsClosed'
  <2> DEFINE r == txn[t].req
  <2>1. ~deleted /\ ~deleted'
    BY <1>1 DEF Apply, VersionHeld, HeldStays
  <2>2. /\ Needs(r) \subseteq nodes
        /\ nodes' = NodesAfter(r, n) /\ edges' = EdgesAfter(r)
    BY <1>1 DEF Apply
  <2>3. edges = Within(edges, nodes)
    BY DEF GraphIsClosed
  <2>4. ASSUME NEW e \in edges' PROVE e[1] \in nodes' /\ e[2] \in nodes'
    <3>1. CASE r.op = "delete"
      <4>1. nodes' = nodes \ r.nodes /\ e \in edges /\ Ends({e}) \cap r.nodes = {}
        BY <2>2, <2>4, <3>1 DEF NodesAfter, EdgesAfter
      <4>2. e[1] \in nodes /\ e[2] \in nodes
        BY <2>3, <4>1 DEF Within
      <4>3. e[1] \notin r.nodes /\ e[2] \notin r.nodes
        BY <4>1 DEF Ends
      <4>4. QED BY <4>1, <4>2, <4>3
    <3>2. CASE r.op = "connect"
      <4>1. nodes' = nodes /\ (e \in edges \/ e \in r.edges)
        BY <2>2, <2>4, <3>2 DEF NodesAfter, EdgesAfter
      <4>2. CASE e \in edges
        BY <2>3, <4>1, <4>2 DEF Within
      <4>3. CASE e \in r.edges
        BY <2>2, <4>1, <4>3 DEF Needs, Ends
      <4>4. QED BY <4>1, <4>2, <4>3
    <3>3. CASE r.op \notin {"delete", "connect"}
      <4>1. nodes \subseteq nodes' /\ e \in edges
        BY <2>2, <2>4, <3>3 DEF NodesAfter, EdgesAfter
      <4>2. QED BY <2>3, <4>1 DEF Within
    <3>4. QED BY <3>1, <3>2, <3>3
  <2>5. QED BY <2>1, <2>4 DEF GraphIsClosed, Within
<1>2. ASSUME NEW t \in Threads, SaveCommit(t) PROVE GraphIsClosed'
  <2>1. ~deleted /\ ~deleted'
    BY <1>2 DEF SaveCommit, VersionHeld, HeldStays
  <2>2. QED BY <1>2, <2>1 DEF SaveCommit, GraphIsClosed, Within
<1>3. CASE \E e \in Links : DeleteEdge(e)
  BY <1>3 DEF DeleteEdge, GraphIsClosed, Within
<1>4. CASE DeleteCanvas
  BY <1>4 DEF DeleteCanvas, GraphIsClosed, Within
<1>5. ASSUME UNCHANGED <<deleted, nodes, edges>> PROVE GraphIsClosed'
  BY <1>5 DEF GraphIsClosed, Within
<1>6. QED
  BY <1>1, <1>2, <1>3, <1>4, <1>5
  DEF GraphStep, Begin, SaveBegin, Claim, Advance, Reuse, Conflict, Fail, SaveConflict,
      RowBegin, RowWrite, graphVars, graph

\* A transaction that ends gives its key back or leaves it remembered.
LEMMA KeysStep ==
    ASSUME RowsTyped, TxnTyped, KeysOnce, OneNodePerKey, GraphStep
    PROVE  KeysOnce' /\ OneNodePerKey'
<1> USE CanvasAssumption DEF Idle, NoReq
<1> DEFINE Mine(t) == /\ \A u \in Threads \ {t}, k \in Keys : Holds(u, k)' <=> Holds(u, k)
<1>1. ASSUME NEW t \in Threads, NEW r \in Request, Begin(t, r) PROVE KeysOnce' /\ OneNodePerKey'
  <2>1. Mine(t) /\ commands' = commands /\ made' = made
    BY <1>1 DEF Begin, Holds, TxnTyped, graph
  <2>2. ASSUME NEW k \in Keys, Holds(t, k)'
        PROVE  k \notin commands /\ \A u \in Threads : ~ Holds(u, k)
    BY <1>1, <2>2 DEF Begin, Holds, TxnTyped
  <2>3. QED BY <2>1, <2>2 DEF KeysOnce, OneNodePerKey
<1>2. ASSUME NEW t \in Threads, Claim(t) PROVE KeysOnce' /\ OneNodePerKey'
  <2>1. Mine(t) /\ commands' = commands /\ made' = made
    BY <1>2 DEF Claim, Holds, TxnTyped, graph
  <2>2. ASSUME NEW k \in Keys, Holds(t, k)'
        PROVE  k \notin commands /\ \A u \in Threads : ~ Holds(u, k)
    BY <1>2, <2>2 DEF Claim, Holds, TxnTyped
  <2>3. QED BY <2>1, <2>2 DEF KeysOnce, OneNodePerKey
<1>3. ASSUME NEW t \in Threads, Advance(t) PROVE KeysOnce' /\ OneNodePerKey'
  <2>1. Mine(t) /\ commands' = commands /\ made' = made
    BY <1>3 DEF Advance, Holds, TxnTyped, graph
  <2>2. ASSUME NEW k \in Keys, Holds(t, k)' PROVE Holds(t, k)
    BY <1>3, <2>2 DEF Advance, Holds, TxnTyped
  <2>3. QED BY <2>1, <2>2 DEF KeysOnce, OneNodePerKey
<1>4. ASSUME NEW t \in Threads, txn' = [txn EXCEPT ![t] = Idle], commands' = commands, made' = made
      PROVE  KeysOnce' /\ OneNodePerKey'
  <2>1. Mine(t)
    BY <1>4 DEF Holds, TxnTyped
  <2>2. \A k \in Keys : ~ Holds(t, k)'
    BY <1>4 DEF Holds, TxnTyped
  <2>3. QED BY <1>4, <2>1, <2>2 DEF KeysOnce, OneNodePerKey
<1>5. ASSUME NEW t \in Threads, Reuse(t) \/ (\E n \in Nodes : Apply(t, n))
      PROVE  KeysOnce' /\ OneNodePerKey'
  <2> DEFINE k == txn[t].req.key
  <2>1. /\ txn' = [txn EXCEPT ![t] = Idle]
        /\ commands' = commands \cup ({k} \ {NoKey})
        /\ txn[t].pc \in {"claimed", "locked"}
        /\ made' = made \/ \E n \in Nodes : made' = made \cup {<<n, k>>}
    BY <1>5 DEF Reuse, Apply, Remember, End
  <2>2. Mine(t) /\ \A x \in Keys : ~ Holds(t, x)'
    BY <2>1 DEF Holds, TxnTyped
  <2>3. k \in Keys \cup {NoKey}
    BY DEF TxnTyped, Request
  <2>4. k \in Keys => Holds(t, k) /\ k \notin commands
    BY <2>1 DEF Holds, KeysOnce
  <2>5. KeysOnce'
    <3>1. \A u, x \in Threads, y \in Keys : Holds(u, y)' /\ Holds(x, y)' => u = x
      BY <2>2 DEF KeysOnce
    <3>2. ASSUME NEW u \in Threads, NEW y \in Keys, Holds(u, y)' PROVE y \notin commands'
      <4>1. u # t /\ Holds(u, y) /\ y \notin commands
        BY <2>2, <3>2 DEF KeysOnce
      <4>2. y # k
        BY <2>4, <4>1 DEF KeysOnce
      <4>3. QED BY <2>1, <4>1, <4>2
    <3>3. \A p \in made' : p[2] # NoKey => p[2] \in commands'
      BY <2>1 DEF KeysOnce
    <3>4. QED BY <3>1, <3>2, <3>3 DEF KeysOnce
  <2>6. OneNodePerKey'
    <3>1. \A p \in made : k # NoKey => p[2] # k
      BY <2>3, <2>4 DEF KeysOnce
    <3>2. QED BY <2>1, <3>1 DEF OneNodePerKey
  <2>7. QED BY <2>5, <2>6
<1>6. ASSUME NEW t \in Threads, NEW r \in Request, r.key = NoKey, SaveBegin(t, r)
      PROVE  KeysOnce' /\ OneNodePerKey'
  <2>1. Mine(t) /\ (\A k \in Keys : ~ Holds(t, k)') /\ commands' = commands /\ made' = made
    BY <1>6 DEF SaveBegin, Holds, TxnTyped
  <2>2. QED BY <2>1 DEF KeysOnce, OneNodePerKey
<1>7. ASSUME NEW t \in Threads, NEW op, RowBegin(t, op) PROVE KeysOnce' /\ OneNodePerKey'
  <2>1. Mine(t) /\ (\A k \in Keys : ~ Holds(t, k)') /\ commands' = commands /\ made' = made
    BY <1>7 DEF RowBegin, Holds, TxnTyped
  <2>2. QED BY <2>1 DEF KeysOnce, OneNodePerKey
<1>8. ASSUME UNCHANGED <<txn, commands, made>> PROVE KeysOnce' /\ OneNodePerKey'
  BY <1>8 DEF KeysOnce, OneNodePerKey, Holds
<1>9. QED
  BY <1>1, <1>2, <1>3, <1>4, <1>5, <1>6, <1>7, <1>8
  DEF GraphStep, Conflict, Fail, SaveConflict, SaveCommit, RowWrite, DeleteEdge, DeleteCanvas,
      End, graphVars

LEMMA NamedStep ==
    ASSUME TxnTyped, Named, GraphStep
    PROVE  Named'
<1> USE DEF Commands
<1>0. /\ Idle.pc = "idle" /\ Idle.req.op = "none" /\ Idle.req.key = NoKey
  BY DEF Idle, NoReq
<1>1. ASSUME NEW t \in Threads, txn' = [txn EXCEPT ![t] = Idle] PROVE Named'
  BY <1>0, <1>1 DEF Named, TxnTyped
<1>2. ASSUME NEW t \in Threads, NEW r \in Request, NEW pc \in {"queued", "claimed", "locked"},
             txn' = [txn EXCEPT ![t] = [pc |-> pc, ver |-> version, req |-> r]],
             r.op # "none", r.op \in Commands => r.want \in {0, version},
             r.op \notin Commands => r.key = NoKey
      PROVE  Named'
  <2>1. ASSUME NEW u \in Threads, u # t PROVE txn'[u] = txn[u]
    BY <1>2, <2>1 DEF TxnTyped
  <2>2. txn'[t] = [pc |-> pc, ver |-> version, req |-> r]
    BY <1>2 DEF TxnTyped
  <2>3. QED BY <1>0, <1>2, <2>1, <2>2 DEF Named
<1>3. ASSUME NEW t \in Threads, NEW pc \in {"claimed", "locked"},
             txn[t].pc # "idle", txn' = [txn EXCEPT ![t].pc = pc]
      PROVE  Named'
  <2>1. ASSUME NEW u \in Threads, u # t PROVE txn'[u] = txn[u]
    BY <1>3, <2>1 DEF TxnTyped
  <2>2. txn'[t].pc = pc /\ txn'[t].ver = txn[t].ver /\ txn'[t].req = txn[t].req
    BY <1>3 DEF TxnTyped
  <2>3. txn'[t] # Idle
    BY <1>0, <1>3, <2>2
  <2>4. txn[t].req.op # "none" /\ (txn[t].req.op \in Commands => txn[t].req.want \in {0, txn[t].ver})
    BY <1>3 DEF Named
  <2>5. ASSUME NEW u \in Threads
        PROVE  LET r == txn'[u].req IN
               /\ txn'[u].pc = "idle" <=> txn'[u] = Idle
               /\ txn'[u].pc # "idle" => r.op # "none"
               /\ r.op \in Commands => r.want \in {0, txn'[u].ver}
               /\ r.op \notin Commands => r.key = NoKey
    <3>1. CASE u = t
      BY <1>3, <2>2, <2>3, <2>4, <3>1 DEF Named
    <3>2. CASE u # t
      BY <2>1, <3>2 DEF Named
    <3>3. QED BY <3>1, <3>2
  <2>6. QED BY <2>5 DEF Named
<1>4. ASSUME UNCHANGED txn PROVE Named'
  BY <1>4 DEF Named
<1>5. ASSUME NEW t \in Threads, NEW r \in Request, r.op \in Commands, Begin(t, r) PROVE Named'
  <2>1. PICK pc \in {"queued", "claimed"} :
          txn' = [txn EXCEPT ![t] = [pc |-> pc, ver |-> version, req |-> r]]
    BY <1>5 DEF Begin
  <2>2. r.want \in {0, version}
    BY <1>5 DEF Begin
  <2>3. QED BY <1>2, <1>5, <2>1, <2>2
<1>6. ASSUME NEW t \in Threads, NEW r \in Request, r.op = "save", r.key = NoKey, SaveBegin(t, r)
      PROVE  Named'
  BY <1>2, <1>6 DEF SaveBegin
<1>7. ASSUME NEW t \in Threads, NEW op \in {"rename", "asset"}, RowBegin(t, op) PROVE Named'
  <2>1. /\ [NoReq EXCEPT !.op = op] \in Request
        /\ [NoReq EXCEPT !.op = op].op = op /\ [NoReq EXCEPT !.op = op].key = NoKey
    BY NoReqTyped DEF Request, Ops, NoReq
  <2>2. QED BY <1>2, <1>7, <2>1 DEF RowBegin
<1>8. ASSUME NEW t \in Threads, Claim(t) PROVE Named'
  <2>1. CASE txn' = [txn EXCEPT ![t] = Idle]
    BY <1>1, <2>1
  <2>2. CASE txn' = [txn EXCEPT ![t].pc = "claimed"]
    BY <1>3, <1>8, <2>2 DEF Claim
  <2>3. QED BY <1>8, <2>1, <2>2 DEF Claim, TxnTyped
<1>9. ASSUME NEW t \in Threads, Advance(t) PROVE Named'
  BY <1>3, <1>9 DEF Advance
<1>10. QED
  BY <1>1, <1>4, <1>5, <1>6, <1>7, <1>8, <1>9
  DEF GraphStep, Reuse, Conflict, Fail, Apply, SaveConflict, SaveCommit, RowWrite, End,
      DeleteEdge, DeleteCanvas, graphVars

LEMMA GraphInvStep == GraphInv /\ GraphStep => GraphInv'
  BY TypesStep, HeldStep, NamedStep, ClosedStep, KeysStep DEF GraphInv

LEMMA GraphInvInit == Init => GraphInv
<1> USE CanvasAssumption, IdleTyped
<1>1. Init => RowsTyped /\ TxnTyped
  <2>1. Init => made \subseteq Nodes \X (Keys \cup {NoKey})
    BY DEF Init
  <2>2. Init => version \in 1..(MaxVersion + 1)
    BY DEF Init
  <2>3. Init => TxnTyped
    BY DEF Init, TxnTyped
  <2>4. QED BY <2>1, <2>2, <2>3 DEF Init, RowsTyped
<1>2. Init => VersionHeld /\ HeldStays
  BY DEF Init, VersionHeld, HeldStays, Idle
<1>3. Init => GraphIsClosed
  BY DEF Init, GraphIsClosed, Within
<1>4. Init => KeysOnce /\ OneNodePerKey
  BY DEF Init, KeysOnce, OneNodePerKey, Holds, Idle
<1>5. Init => Named
  BY DEF Init, Named, Idle, NoReq, Commands
<1>6. QED BY <1>1, <1>2, <1>3, <1>4, <1>5 DEF GraphInv

-----------------------------------------------------------------------------
(* The graph API is atomic: a step of the graph is one of AtomicGraph, or none *)

\* Between two answers a request is open and nothing is seen of it.
LEMMA Invoked ==
    ASSUME NEW t \in Threads, NEW r \in Request, r.op # "none", TxnTyped, txn[t] = Idle,
           NEW pc, NEW v, txn' = [txn EXCEPT ![t] = [pc |-> pc, ver |-> v, req |-> r]],
           UNCHANGED <<graph, commands, made>>
    PROVE  A!Next
<1>1. Open[t] = NoReq /\ Open'[t] = r
  BY DEF Open, TxnTyped, Idle
<1>2. Open' = [Open EXCEPT ![t] = Open'[t]]
  BY <1>1 DEF Open, TxnTyped
<1>3. r \in A!Request
  BY DEF Request, Ops, A!Request
<1>4. A!Invoke(t)
  BY <1>1, <1>2, <1>3 DEF A!Invoke, A!NoReq, NoReq, A!rows, graph
<1>5. QED BY <1>4 DEF A!Next

LEMMA Answered ==
    ASSUME NEW t \in Threads, TxnTyped, txn[t].req.op # "none",
           txn' = [txn EXCEPT ![t] = Idle],
           UNCHANGED A!rows \/ A!Command(t) \/ A!Reuse(t) \/ A!Save(t) \/ A!Touch(t)
    PROVE  A!Next
<1>1. Open[t] # NoReq
  BY DEF Open, NoReq
<1>2. Open' = [Open EXCEPT ![t] = NoReq]
  BY DEF Open, TxnTyped, Idle
<1>3. A!Answer(t)
  BY <1>1, <1>2 DEF A!Answer, A!NoReq, NoReq
<1>4. QED BY <1>3 DEF A!Next

\* What a transaction has read or locked is still so when it commits.
LEMMA Commits ==
    ASSUME NEW t \in Threads, GraphInv, txn[t].pc = "locked"
    PROVE  /\ txn[t].ver = version /\ ~deleted
           /\ txn[t].req \in Request /\ txn[t].req.op # "none"
           /\ txn[t].req.key \notin commands
           /\ txn[t].req.op \in Commands => txn[t].req.want \in {0, version}
           /\ txn[t].req.op \notin Commands => txn[t].req.key = NoKey
<1>1. txn[t].req \in Request
  BY DEF GraphInv, TxnTyped
<1>2. txn[t].ver = version /\ lock = t
  BY DEF GraphInv, VersionHeld
<1>3. ~deleted
  BY <1>2, CanvasAssumption DEF GraphInv, HeldStays
<1>4. txn[t].req.key \notin commands
  BY <1>1, CanvasAssumption DEF GraphInv, KeysOnce, Holds, Request, RowsTyped
<1>5. QED BY <1>1, <1>2, <1>3, <1>4 DEF GraphInv, Named

LEMMA ApplyAtomic ==
    ASSUME NEW t \in Threads, NEW n \in Nodes, GraphInv, Apply(t, n)
    PROVE  A!Command(t)
<1> DEFINE r == txn[t].req
<1>0. /\ r.op \in Commands /\ Needs(r) \subseteq nodes
      /\ nodes' = NodesAfter(r, n) /\ edges' = EdgesAfter(r)
      /\ version' = version + 1 /\ deleted' = deleted
      /\ commands' = commands \cup ({r.key} \ {NoKey})
      /\ txn[t].pc = "locked"
  BY DEF Apply, Remember
<1>1. /\ ~deleted /\ r.key \notin commands /\ r.want \in {0, version}
      /\ Open[t] = r
  BY <1>0, Commits DEF Open
<1>2. edges = Within(edges, nodes)
  BY DEF GraphInv, GraphIsClosed
<1>3. ASSUME NEW N, NEW E, nodes' = N, edges' = Within(E, N) PROVE A!Write(t, N, E)
  BY <1>0, <1>1, <1>3 DEF A!Write, A!Between, Within
<1>4. CASE r.op = "create"
  <2>1. n \in Unused /\ made' = made \cup {<<n, r.key>>}
    BY <1>4 DEF Apply
  <2>2. nodes' = nodes \cup {n} /\ edges' = edges
    BY <1>0, <1>4 DEF NodesAfter, EdgesAfter
  <2>3. edges' = Within(edges, nodes \cup {n})
    BY <1>2, <2>2 DEF Within
  <2>4. A!Write(t, nodes \cup {n}, edges)
    BY <1>3, <2>2, <2>3
  <2>5. A!Create(t)
    BY <1>1, <2>1, <2>4 DEF A!Create, Unused
  <2>6. QED BY <1>1, <1>4, <2>5 DEF A!Command
<1>5. CASE r.op # "create"
  <2>1. made' = made
    BY <1>5 DEF Apply
  <2>2. r.nodes \subseteq nodes /\ \A e \in r.edges : e[1] \in nodes /\ e[2] \in nodes
    BY <1>0 DEF Needs, Ends
  <2>3. CASE r.op = "update"
    <3>1. nodes' = nodes /\ edges' = Within(edges, nodes)
      BY <1>0, <1>2, <2>3 DEF NodesAfter, EdgesAfter
    <3>2. A!Write(t, nodes, edges)
      BY <1>3, <3>1
    <3>3. QED BY <1>1, <2>1, <2>2, <2>3, <3>2 DEF A!Command, A!Change
  <2>4. CASE r.op = "delete"
    <3>1. nodes' = nodes \ r.nodes /\ edges' = {e \in edges : Ends({e}) \cap r.nodes = {}}
      BY <1>0, <2>4 DEF NodesAfter, EdgesAfter
    <3>2. \A e \in edges : Ends({e}) \cap r.nodes = {} <=> e[1] \notin r.nodes /\ e[2] \notin r.nodes
      BY DEF Ends
    <3>3. edges' = Within(edges, nodes \ r.nodes)
      BY <1>2, <3>1, <3>2 DEF Within
    <3>4. A!Write(t, nodes \ r.nodes, edges)
      BY <1>3, <3>1, <3>3
    <3>5. QED BY <1>1, <2>1, <2>2, <2>4, <3>4 DEF A!Command, A!Change
  <2>5. CASE r.op = "connect"
    <3>1. nodes' = nodes /\ edges' = edges \cup r.edges
      BY <1>0, <2>5 DEF NodesAfter, EdgesAfter
    <3>2. edges' = Within(edges \cup r.edges, nodes)
      BY <1>2, <2>2, <3>1 DEF Within
    <3>3. A!Write(t, nodes, edges \cup r.edges)
      BY <1>3, <3>1, <3>2
    <3>4. r.edges = A!Between(r.edges, nodes)
      BY <2>2 DEF A!Between
    <3>5. QED BY <1>1, <2>1, <2>5, <3>3, <3>4 DEF A!Command, A!Change
  <2>6. QED BY <1>0, <1>5, <2>3, <2>4, <2>5 DEF Commands
<1>6. QED BY <1>4, <1>5

LEMMA SaveAtomic ==
    ASSUME NEW t \in Threads, GraphInv, SaveCommit(t)
    PROVE  A!Save(t)
<1> DEFINE r == txn[t].req
<1>1. r.op = "save" /\ r.want = txn[t].ver /\ txn[t].pc = "locked"
  BY DEF SaveCommit
<1>2. txn[t].ver = version /\ ~deleted /\ r.key \notin commands /\ r.key = NoKey
  BY <1>1, Commits DEF Commands
<1>3. A!Write(t, r.nodes, r.edges)
  BY <1>2 DEF SaveCommit, A!Write, A!Between, Within, Open
<1>4. QED BY <1>1, <1>2, <1>3 DEF SaveCommit, A!Save, Open

LEMMA GraphRefines ==
    ASSUME GraphInv, GraphStep
    PROVE  A!Next \/ UNCHANGED A!graphVars
<1>0. TxnTyped /\ Named
  BY DEF GraphInv
<1>1. ASSUME NEW t \in Threads, NEW r \in Request, r.op \in Commands, Begin(t, r) PROVE A!Next
  <2>1. PICK pc \in {"queued", "claimed"} :
          txn' = [txn EXCEPT ![t] = [pc |-> pc, ver |-> version, req |-> r]]
    BY <1>1 DEF Begin
  <2>2. QED BY <1>0, <1>1, <2>1, Invoked DEF Begin, Commands
<1>2. ASSUME NEW t \in Threads, NEW r \in Request, r.op = "save", SaveBegin(t, r) PROVE A!Next
  BY <1>0, <1>2, Invoked DEF SaveBegin
<1>3. ASSUME NEW t \in Threads, NEW op \in {"rename", "asset"}, RowBegin(t, op) PROVE A!Next
  <2>1. [NoReq EXCEPT !.op = op] \in Request /\ [NoReq EXCEPT !.op = op].op = op
    BY NoReqTyped DEF Request, Ops, NoReq
  <2>2. QED BY <1>0, <1>3, <2>1, Invoked DEF RowBegin
<1>4. ASSUME NEW t \in Threads, Claim(t) \/ Advance(t) PROVE A!Next \/ UNCHANGED A!graphVars
  <2>1. UNCHANGED A!rows /\ txn[t].pc # "idle"
    BY <1>4 DEF Claim, Advance, graph, A!rows
  <2>2. CASE txn' = [txn EXCEPT ![t] = Idle]
    <3>1. txn[t].req.op # "none"
      BY <1>0, <2>1 DEF Named
    <3>2. QED BY <1>0, <2>1, <2>2, <3>1, Answered
  <2>3. ASSUME NEW pc, txn' = [txn EXCEPT ![t].pc = pc] PROVE UNCHANGED A!graphVars
    <3>1. Open' = Open
      BY <1>0, <2>3 DEF Open, TxnTyped
    <3>2. QED BY <2>1, <3>1 DEF A!graphVars
  <2>4. QED BY <1>4, <2>2, <2>3 DEF Claim, Advance
<1>5. ASSUME NEW t \in Threads, txn[t].pc # "idle", End(t), UNCHANGED A!rows PROVE A!Next
  <2>1. txn[t].req.op # "none"
    BY <1>0, <1>5 DEF Named
  <2>2. QED BY <1>0, <1>5, <2>1, Answered DEF End
<1>6. ASSUME NEW t \in Threads, Conflict(t) \/ Fail(t) \/ SaveConflict(t) PROVE A!Next
  BY <1>5, <1>6 DEF Conflict, Fail, SaveConflict, graph, A!rows
<1>7. ASSUME NEW t \in Threads, Reuse(t) PROVE A!Next
  <2>1. txn[t].req.key \notin commands /\ txn[t].req.op = "connect"
    <3>1. txn[t].req \in Request
      BY <1>0 DEF TxnTyped
    <3>2. QED
      BY <1>7, <3>1, CanvasAssumption DEF Reuse, GraphInv, KeysOnce, Holds, Request, RowsTyped
  <2>2. A!Reuse(t)
    BY <1>7, <2>1 DEF Reuse, Remember, A!Reuse, Open, graph
  <2>3. QED BY <1>0, <1>7, <2>1, <2>2, Answered DEF Reuse, End
<1>8. ASSUME NEW t \in Threads, NEW n \in Nodes, Apply(t, n) PROVE A!Next
  <2>1. txn[t].req.op # "none"
    BY <1>8 DEF Apply, Commands
  <2>2. QED BY <1>0, <1>8, <2>1, ApplyAtomic, Answered DEF Apply, End
<1>9. ASSUME NEW t \in Threads, SaveCommit(t) PROVE A!Next
  <2>1. txn[t].req.op # "none"
    BY <1>9 DEF SaveCommit
  <2>2. QED BY <1>0, <1>9, <2>1, SaveAtomic, Answered DEF SaveCommit, End
<1>10. ASSUME NEW t \in Threads, RowWrite(t) PROVE A!Next
  <2>1. txn[t].req.op \in {"rename", "asset"}
    BY <1>10 DEF RowWrite
  <2>2. A!Touch(t) \/ UNCHANGED A!rows
    BY <1>10, <2>1 DEF RowWrite, A!Touch, A!rows, Open
  <2>3. QED BY <1>0, <1>10, <2>1, <2>2, Answered DEF RowWrite, End
<1>11. ASSUME NEW e \in Links, DeleteEdge(e) PROVE A!Next
  <2>1. A!DeleteEdge(e)
    BY <1>11 DEF DeleteEdge, A!DeleteEdge, Open
  <2>2. QED BY <2>1 DEF A!Next
<1>12. CASE DeleteCanvas
  <2>1. A!DeleteCanvas
    BY <1>12 DEF DeleteCanvas, A!DeleteCanvas, Open
  <2>2. QED BY <2>1 DEF A!Next
<1>13. CASE UNCHANGED graphVars
  BY <1>13 DEF graphVars, graph, A!graphVars, A!rows, Open
<1>14. QED
  BY <1>1, <1>2, <1>3, <1>4, <1>6, <1>7, <1>8, <1>9, <1>10, <1>11, <1>12, <1>13 DEF GraphStep

-----------------------------------------------------------------------------
(* What the tabs know *)

\* Nodes change only with the version, or with the canvas.
LEMMA Forward ==
    ASSUME RowsTyped, TxnTyped, VersionHeld, GraphStep
    PROVE  /\ version' \in Nat /\ version <= version'
           /\ version' = version /\ ~deleted' => nodes' = nodes /\ ~deleted
<1>1. version \in Nat
  BY CanvasAssumption DEF RowsTyped
<1>2. ASSUME UNCHANGED <<version, deleted, nodes>>
      PROVE  /\ version' \in Nat /\ version <= version'
             /\ version' = version /\ ~deleted' => nodes' = nodes /\ ~deleted
  BY <1>1, <1>2
<1>3. ASSUME NEW t \in Threads, (\E n \in Nodes : Apply(t, n)) \/ SaveCommit(t)
      PROVE  version' = version + 1
  BY <1>3 DEF Apply, SaveCommit
<1>4. ASSUME NEW t \in Threads, RowWrite(t)
      PROVE  version' \in {version, version + 1} /\ UNCHANGED <<deleted, nodes>>
  BY <1>4 DEF RowWrite
<1>5. CASE DeleteCanvas
  BY <1>1, <1>5 DEF DeleteCanvas
<1>6. QED
  BY <1>1, <1>2, <1>3, <1>4, <1>5
  DEF GraphStep, Begin, SaveBegin, Claim, Advance, Reuse, Conflict, Fail, SaveConflict,
      RowBegin, DeleteEdge, graphVars, graph

LEMMA ReqTyped ==
    ASSUME NEW op \in Ops, NEW v \in Nat, NEW N \in SUBSET Nodes, NEW E \in SUBSET Links
    PROVE  /\ Req(op, v, N, E) \in Request
           /\ Req(op, v, N, E).key = NoKey /\ Req(op, v, N, E).op = op
  BY NoReqTyped DEF Req, NoReq, Request

LEMMA GraphPart ==
    ASSUME TabTyped, TxnTyped, RowsTyped, [Next]_vars
    PROVE  GraphStep
<1> USE TabAssumption
<1>1. ASSUME NEW t \in Tabs, TabStep(t) PROVE GraphStep
  <2>0. t \in Threads /\ tab[t].ver \in Nat /\ tab[t].nodes \in SUBSET Nodes /\ tab[t].edges \in SUBSET Links
    BY DEF TabTyped, Known
  <2>1. CASE Refetch(t) \/ DragRefused(t) \/ FreshVersion(t)
    BY <2>1 DEF Refetch, DragRefused, FreshVersion, GraphStep
  <2>2. CASE Save(t)
    <3>1. /\ Req("save", tab[t].ver, tab[t].nodes, tab[t].edges) \in Request
          /\ Req("save", tab[t].ver, tab[t].nodes, tab[t].edges).key = NoKey
          /\ Req("save", tab[t].ver, tab[t].nodes, tab[t].edges).op = "save"
      BY <2>0, ReqTyped DEF Ops
    <3>2. QED BY <2>0, <2>2, <3>1 DEF Save, GraphStep
  <2>3. CASE Create(t)
    <3>1. Req("create", 0, {}, {}) \in Request /\ Req("create", 0, {}, {}).op \in Commands
      BY ReqTyped DEF Ops, Commands
    <3>2. QED BY <2>0, <2>3, <3>1 DEF Create, GraphStep
  <2>4. ASSUME NEW n \in Nodes, Drag(t, n) \/ Remove(t, n) PROVE GraphStep
    <3>1. /\ Req("update", tab[t].ver, {n}, {}) \in Request /\ Req("delete", 0, {n}, {}) \in Request
          /\ Req("update", tab[t].ver, {n}, {}).op \in Commands
          /\ Req("delete", 0, {n}, {}).op \in Commands
      BY <2>0, ReqTyped DEF Ops, Commands
    <3>2. QED BY <2>0, <2>4, <3>1 DEF Drag, Remove, GraphStep
  <2>5. ASSUME NEW e \in Links, Connect(t, e) \/ Disconnect(t, e) PROVE GraphStep
    <3>1. Req("connect", 0, {}, {e}) \in Request /\ Req("connect", 0, {}, {e}).op \in Commands
      BY ReqTyped DEF Ops, Commands
    <3>2. QED BY <2>0, <2>5, <3>1 DEF Connect, Disconnect, GraphStep
  <2>6. CASE Advance(t) \/ Done(t) \/ Refused(t)
    BY <2>0, <2>6 DEF Done, Refused, GraphStep
  <2>7. QED BY <1>1, <2>1, <2>2, <2>3, <2>4, <2>5, <2>6 DEF TabStep
<1>2. ASSUME NEW c \in Calls, CallStep(c) PROVE GraphStep
  <2>0. c \in Threads
    OBVIOUS
  <2>1. CASE CallBegin(c)
    <3>1. PICK s \in Sends[c] :
            \/ s.op \in {"rename", "asset"} /\ RowBegin(c, s.op)
            \/ s.op = "create" /\ Begin(c, [NoReq EXCEPT !.op = s.op, !.key = s.key])
            \/ /\ s.op = "update"
               /\ \E n \in nodes : Begin(c, [NoReq EXCEPT !.op = s.op, !.key = s.key, !.nodes = {n}])
      BY <2>1 DEF CallBegin
    <3>2. s.key \in Keys \cup {NoKey}
      OBVIOUS
    <3>3. CASE s.op \in {"rename", "asset"} /\ RowBegin(c, s.op)
      BY <2>0, <3>3 DEF GraphStep
    <3>4. CASE s.op = "create" /\ Begin(c, [NoReq EXCEPT !.op = s.op, !.key = s.key])
      <4>1. /\ [NoReq EXCEPT !.op = s.op, !.key = s.key] \in Request
            /\ [NoReq EXCEPT !.op = s.op, !.key = s.key].op \in Commands
        BY <3>2, <3>4 DEF NoReq, Request, Ops, Commands
      <4>2. QED BY <2>0, <3>4, <4>1 DEF GraphStep
    <3>5. ASSUME s.op = "update", NEW n \in nodes,
                 Begin(c, [NoReq EXCEPT !.op = s.op, !.key = s.key, !.nodes = {n}])
          PROVE  GraphStep
      <4>1. /\ [NoReq EXCEPT !.op = s.op, !.key = s.key, !.nodes = {n}] \in Request
            /\ [NoReq EXCEPT !.op = s.op, !.key = s.key, !.nodes = {n}].op \in Commands
        BY <3>2, <3>5 DEF NoReq, Request, Ops, Commands, RowsTyped
      <4>2. QED BY <2>0, <3>5, <4>1 DEF GraphStep
    <3>6. QED BY <3>1, <3>3, <3>4, <3>5
  <2>2. CASE Claim(c) \/ Advance(c) \/ Conflict(c) \/ Fail(c) \/ (\E n \in Nodes : Apply(c, n)) \/ RowWrite(c)
    BY <2>0, <2>2 DEF GraphStep
  <2>3. QED BY <1>2, <2>1, <2>2 DEF CallStep
<1>3. CASE DeleteCanvas
  BY <1>3 DEF GraphStep
<1>4. CASE UNCHANGED vars
  BY <1>4 DEF vars, GraphStep, graphVars
<1>5. QED BY <1>1, <1>2, <1>3, <1>4 DEF Next

\* A command or a save that goes through, seen from its tab.
LEMMA Through ==
    ASSUME NEW t \in Threads, TxnTyped, RowsTyped, VersionHeld,
           (\E n \in Nodes : Apply(t, n)) \/ Reuse(t) \/ SaveCommit(t)
    PROVE  /\ txn[t].req.op \in {"create", "update", "delete", "connect", "save"}
           /\ txn[t].req.op \in {"update", "save"} =>
                 /\ txn[t].ver = version /\ version' = version + 1
  BY DEF Apply, Reuse, SaveCommit, Commands, VersionHeld

LEMMA LearnedTyped ==
    ASSUME NEW old \in Known, NEW r \in Request, RowsTyped', version' \in Nat \ {0},
           r.op \in {"create", "update", "delete", "connect", "save"}
    PROVE  Learned(old, r) \in Known
<1>1. r.want \in Nat /\ r.edges \subseteq Links
  BY DEF Request
<1>2. nodes' \subseteq Nodes
  BY DEF RowsTyped
<1>3. CASE r.op = "create"
  <2>1. Learned(old, r) = [old EXCEPT !.nodes = old.nodes \cup (nodes' \ nodes),
                                      !.seen = old.seen \cup (nodes' \ nodes)]
    BY <1>3 DEF Learned
  <2>2. QED BY <1>2, <2>1 DEF Known
<1>4. CASE r.op = "update"
  <2>1. Learned(old, r) = [old EXCEPT !.ver = r.want + 1, !.stock = nodes']
    BY <1>4 DEF Learned
  <2>2. r.want + 1 \in Nat \ {0}
    BY <1>1
  <2>3. QED BY <1>2, <2>1, <2>2 DEF Known
<1>5. CASE r.op = "delete"
  BY <1>5 DEF Learned
<1>6. CASE r.op = "connect"
  <2>1. Learned(old, r) = [old EXCEPT !.edges = old.edges \cup r.edges]
    BY <1>6 DEF Learned
  <2>2. QED BY <1>1, <2>1 DEF Known
<1>7. CASE r.op = "save"
  <2>1. Learned(old, r) = [old EXCEPT !.ver = version', !.stock = nodes']
    BY <1>7 DEF Learned
  <2>2. QED BY <1>2, <2>1 DEF Known
<1>8. QED BY <1>3, <1>4, <1>5, <1>6, <1>7

LEMMA TabTypedStep ==
    ASSUME TabTyped, TxnTyped, RowsTyped, VersionHeld, RowsTyped', [Next]_vars
    PROVE  TabTyped'
<1> USE TabAssumption, CanvasAssumption
<1>1. ASSUME NEW t \in Tabs, TabStep(t) PROVE TabTyped'
  <2>0. t \in Threads /\ version \in Nat \ {0} /\ version' \in Nat \ {0}
    BY DEF RowsTyped
  <2>1. CASE UNCHANGED tab
    BY <2>1 DEF TabTyped
  <2>2. CASE Refetch(t)
    BY <2>0, <2>2 DEF Refetch, Shown, TabTyped, Known, RowsTyped
  <2>3. CASE DragRefused(t) \/ FreshVersion(t)
    BY <2>0, <2>3 DEF DragRefused, FreshVersion, TabTyped, Known, RowsTyped
  <2>4. ASSUME NEW n \in Nodes, Remove(t, n) PROVE TabTyped'
    BY <2>4 DEF Remove, TabTyped, Known
  <2>5. ASSUME NEW e \in Links, Disconnect(t, e) PROVE TabTyped'
    BY <2>5 DEF Disconnect, TabTyped, Known
  <2>6. CASE Refused(t)
    BY <2>6 DEF Refused, Then, TabTyped, Known
  <2>7. CASE Done(t) /\ Answer(t)
    <3>1. txn[t].req \in Request
      BY <2>0 DEF TxnTyped
    <3>2. txn[t].req.op \in {"create", "update", "delete", "connect", "save"}
      BY <2>0, <2>7, Through DEF Done
    <3>3. Learned(tab[t], txn[t].req) \in Known
      BY <2>0, <3>1, <3>2, LearnedTyped DEF TabTyped
    <3>4. QED BY <2>7, <3>3 DEF Answer, TabTyped
  <2>8. QED
    BY <1>1, <2>1, <2>2, <2>3, <2>4, <2>5, <2>6, <2>7
    DEF TabStep, Save, Create, Drag, Connect, Done
<1>2. ASSUME UNCHANGED tab PROVE TabTyped'
  BY <1>2 DEF TabTyped
<1>3. QED BY <1>1, <1>2 DEF Next, CallStep, vars

LEMMA WantStep ==
    ASSUME TabTyped, TxnTyped, RowsTyped, WantHeld, [Next]_vars
    PROVE  WantHeld'
<1> USE TabAssumption
<1>1. ASSUME NEW t \in Tabs, TabStep(t) PROVE WantHeld'
  <2>0. t \in Threads /\ tab[t].ver \in Nat \ {0}
    BY DEF TabTyped, Known
  <2>1. CASE UNCHANGED txn
    BY <2>1 DEF WantHeld
  <2>2. ASSUME NEW r, Begin(t, r) \/ SaveBegin(t, r), r.op = "update" => r.want = version
        PROVE  WantHeld'
    BY <2>0, <2>2 DEF Begin, SaveBegin, WantHeld, TxnTyped
  <2>3. ASSUME NEW n \in Nodes, Drag(t, n) PROVE WantHeld'
    <3>1. Req("update", tab[t].ver, {n}, {}).want = tab[t].ver
      BY DEF Req, NoReq
    <3>2. tab[t].ver = version
      BY <2>0, <2>3, <3>1 DEF Drag, Begin
    <3>3. QED BY <2>2, <2>3, <3>1, <3>2 DEF Drag
  <2>4. ASSUME NEW n \in Nodes, Remove(t, n) PROVE WantHeld'
    <3>1. Req("delete", 0, {n}, {}).op = "delete"
      BY DEF Req, NoReq
    <3>2. QED BY <2>2, <2>4, <3>1 DEF Remove
  <2>5. ASSUME NEW e \in Links, Connect(t, e) PROVE WantHeld'
    <3>1. Req("connect", 0, {}, {e}).op = "connect"
      BY DEF Req, NoReq
    <3>2. QED BY <2>2, <2>5, <3>1 DEF Connect
  <2>6. CASE Save(t) \/ Create(t)
    <3>1. /\ Req("create", 0, {}, {}).op = "create"
          /\ Req("save", tab[t].ver, tab[t].nodes, tab[t].edges).op = "save"
      BY DEF Req, NoReq
    <3>2. QED BY <2>2, <2>6, <3>1 DEF Save, Create
  <2>7. CASE Advance(t)
    BY <2>0, <2>7 DEF Advance, WantHeld, TxnTyped
  <2>8. CASE Done(t) \/ Refused(t)
    <3>1. txn' = [txn EXCEPT ![t] = Idle]
      BY <2>8 DEF Done, Refused, Apply, Reuse, SaveCommit, SaveConflict, Conflict, Fail, End
    <3>2. QED BY <2>0, <3>1 DEF WantHeld, TxnTyped, Idle, NoReq
  <2>9. QED
    BY <1>1, <2>1, <2>3, <2>4, <2>5, <2>6, <2>7, <2>8
    DEF TabStep, Refetch, DragRefused, FreshVersion, Disconnect, DeleteEdge, graphVars
<1>2. ASSUME NEW c \in Calls, CallStep(c) PROVE WantHeld'
  <2>1. c \in Threads /\ c \notin Tabs
    OBVIOUS
  <2>2. \A t \in Tabs : txn'[t] = txn[t]
    BY <1>2, <2>1
    DEF CallStep, CallBegin, RowBegin, Begin, Claim, Advance, Conflict, Fail, Apply, RowWrite,
        End, TxnTyped
  <2>3. QED BY <2>2 DEF WantHeld
<1>3. CASE DeleteCanvas \/ UNCHANGED vars
  BY <1>3 DEF DeleteCanvas, vars, graphVars, WantHeld
<1>4. QED BY <1>1, <1>2, <1>3 DEF Next

\* A tab keeps what it knew, or takes over version and nodes of one state.
LEMMA KnowsStep ==
    ASSUME TabTyped, TabTyped', GraphInv, WantHeld, Behind, VersionNamesNodes, [Next]_vars
    PROVE  Behind' /\ VersionNamesNodes'
<1> USE TabAssumption
<1>0. /\ TxnTyped /\ RowsTyped /\ VersionHeld /\ GraphStep
      /\ version' \in Nat /\ version \in Nat /\ version <= version'
      /\ version' = version /\ ~deleted' => nodes' = nodes /\ ~deleted
  <2>1. TxnTyped /\ RowsTyped /\ VersionHeld
    BY DEF GraphInv
  <2>2. GraphStep
    BY <2>1, GraphPart
  <2>3. QED BY <2>1, <2>2, Forward DEF RowsTyped
<1> DEFINE Kept(u)  == tab'[u].ver = tab[u].ver /\ tab'[u].stock = tab[u].stock
           Taken(u) == tab'[u].ver = version' /\ tab'[u].stock = nodes'
<1>1. SUFFICES ASSUME NEW u \in Tabs PROVE Kept(u) \/ Taken(u)
  <2>1. ASSUME NEW u \in Tabs
        PROVE  /\ tab'[u].ver <= version'
               /\ tab'[u].ver = version' /\ ~deleted' => tab'[u].stock = nodes'
    <3>1. tab[u].ver \in Nat /\ tab[u].ver <= version
      BY DEF TabTyped, Known, Behind
    <3>2. CASE Kept(u)
      BY <1>0, <3>1, <3>2 DEF VersionNamesNodes
    <3>3. CASE Taken(u)
      BY <1>0, <3>3
    <3>4. QED BY <1>1, <3>2, <3>3
  <2>2. QED BY <2>1 DEF Behind, VersionNamesNodes
<1>2. ASSUME NEW t \in Tabs, TabStep(t) PROVE Kept(u) \/ Taken(u)
  <2>1. CASE UNCHANGED tab
    BY <2>1
  <2>2. CASE Refetch(t)
    BY <2>2 DEF Refetch, Shown, TabTyped, graphVars, graph
  <2>3. CASE FreshVersion(t)
    BY <2>3 DEF FreshVersion, TabTyped, Known, graphVars, graph
  <2>4. CASE DragRefused(t) \/ Refused(t)
    BY <2>4 DEF DragRefused, Refused, Then, TabTyped, Known
  <2>5. ASSUME NEW n \in Nodes, Remove(t, n) PROVE Kept(u)
    BY <2>5 DEF Remove, TabTyped, Known
  <2>6. ASSUME NEW e \in Links, Disconnect(t, e) PROVE Kept(u)
    BY <2>6 DEF Disconnect, TabTyped, Known
  <2>7. CASE Done(t) /\ Answer(t)
    <3> DEFINE r == txn[t].req
    <3>1. /\ r.op \in {"create", "update", "delete", "connect", "save"}
          /\ r.op \in {"update", "save"} => txn[t].ver = version /\ version' = version + 1
      BY <1>0, <2>7, Through DEF Done
    <3>2. tab' = [tab EXCEPT ![t] = Learned(tab[t], r)]
      BY <2>7 DEF Answer
    <3>3. CASE u # t
      BY <3>2, <3>3 DEF TabTyped
    <3>4. CASE u = t
      <4>1. tab'[u] = Learned(tab[t], r) /\ tab[t] \in Known
        BY <3>2, <3>4 DEF TabTyped
      <4>2. CASE r.op = "update"
        <5>1. Learned(tab[t], r) = [tab[t] EXCEPT !.ver = r.want + 1, !.stock = nodes']
          BY <4>2 DEF Learned
        <5>2. r.want = txn[t].ver
          BY <4>2 DEF WantHeld
        <5>3. QED BY <3>1, <4>1, <4>2, <5>1, <5>2 DEF Known
      <4>3. CASE r.op = "save"
        <5>1. Learned(tab[t], r) = [tab[t] EXCEPT !.ver = version', !.stock = nodes']
          BY <4>3 DEF Learned
        <5>2. QED BY <4>1, <5>1 DEF Known
      <4>4. CASE r.op = "create"
        <5>1. Learned(tab[t], r) = [tab[t] EXCEPT !.nodes = tab[t].nodes \cup (nodes' \ nodes),
                                                  !.seen = tab[t].seen \cup (nodes' \ nodes)]
          BY <4>4 DEF Learned
        <5>2. QED BY <3>4, <4>1, <5>1 DEF Known
      <4>5. CASE r.op = "connect"
        <5>1. Learned(tab[t], r) = [tab[t] EXCEPT !.edges = tab[t].edges \cup r.edges]
          BY <4>5 DEF Learned
        <5>2. QED BY <3>4, <4>1, <5>1 DEF Known
      <4>6. CASE r.op = "delete"
        BY <3>4, <4>1, <4>6 DEF Learned
      <4>7. QED BY <3>1, <4>2, <4>3, <4>4, <4>5, <4>6
    <3>5. QED BY <3>3, <3>4
  <2>8. QED
    BY <1>2, <2>1, <2>2, <2>3, <2>4, <2>5, <2>6, <2>7
    DEF TabStep, Save, Create, Drag, Connect, Done
<1>3. QED BY <1>2 DEF Next, CallStep, vars

LEMMA TabInvAlways == Spec => []TabInv
<1>1. TabInit => TabInv
  <2>1. TabInit => GraphInv
    BY GraphInvInit DEF TabInit
  <2>2. TabInit => version = 1 /\ nodes \subseteq Nodes /\ edges \subseteq Links
    BY CanvasAssumption DEF TabInit, Init
  <2>3. TabInit => TabTyped
    BY <2>2 DEF TabInit, Shown, TabTyped, Known
  <2>4. TabInit => WantHeld
    BY TabAssumption DEF TabInit, Init, WantHeld, Idle, NoReq
  <2>5. TabInit => Behind /\ VersionNamesNodes
    BY <2>2 DEF TabInit, Shown, Behind, VersionNamesNodes
  <2>6. QED BY <2>1, <2>3, <2>4, <2>5 DEF TabInv
<1>2. TabInv /\ [Next]_vars => TabInv'
  <2> SUFFICES ASSUME TabInv, [Next]_vars PROVE TabInv'
    OBVIOUS
  <2>1. GraphInv /\ RowsTyped /\ TxnTyped /\ VersionHeld
    BY DEF TabInv, GraphInv
  <2>2. GraphInv' /\ RowsTyped'
    BY <2>1, GraphPart, GraphInvStep DEF TabInv, GraphInv
  <2>3. TabTyped'
    BY <2>1, <2>2, TabTypedStep DEF TabInv
  <2>4. WantHeld'
    BY <2>1, WantStep DEF TabInv
  <2>5. Behind' /\ VersionNamesNodes'
    BY <2>3, KnowsStep DEF TabInv
  <2>6. QED BY <2>2, <2>3, <2>4, <2>5 DEF TabInv
<1>3. QED BY <1>1, <1>2, PTL DEF Spec

-----------------------------------------------------------------------------
(* The theorems *)

\* The rows and transactions keep their types, and a transaction that is past its
\* conditional UPDATE or its SELECT ... FOR UPDATE is the one that holds the row.
THEOREM CanvasTyping == Spec => []CanvasTypeOK
<1>1. TabInv => CanvasTypeOK
  BY DEF TabInv, GraphInv, RowsTyped, TxnTyped, VersionHeld, CanvasTypeOK
<1>2. QED BY <1>1, TabInvAlways, PTL

\* Whatever commands, saves and deletions overlap, a stored edge joins two stored
\* nodes, and a deleted canvas has neither.
THEOREM EdgesHaveEnds == Spec => []GraphIsClosed
<1>1. TabInv => GraphIsClosed
  BY DEF TabInv, GraphInv
<1>2. QED BY <1>1, TabInvAlways, PTL

\* A create command sent any number of times under one Idempotency-Key makes one
\* node at most.
THEOREM KeyMakesOneNode == Spec => []OneNodePerKey
<1>1. TabInv => OneNodePerKey
  BY DEF TabInv, GraphInv
<1>2. QED BY <1>1, TabInvAlways, PTL

\* A tab whose version is that of the canvas learned it together with the nodes
\* the canvas still has.
THEOREM VersionsNameNodes == Spec => []VersionNamesNodes
<1>1. TabInv => VersionNamesNodes
  BY DEF TabInv
<1>2. QED BY <1>1, TabInvAlways, PTL

\* Whatever transactions overlap, a command or a save happens at once at its
\* commit, on the version it named and under a new key, or not at all.
THEOREM GraphApiIsAtomic == Spec => CommandsAreAtomic
<1>1. TabInit => A!Init
  BY DEF TabInit, Init, A!Init, Open, Idle, NoReq, A!NoReq
<1>2. TabInv /\ [Next]_vars => [A!Next]_(A!graphVars)
  BY GraphPart, GraphRefines DEF TabInv, GraphInv
<1>3. QED BY <1>1, <1>2, TabInvAlways, PTL DEF Spec, CommandsAreAtomic, A!Spec
=============================================================================
