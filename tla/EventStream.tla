----------------------------- MODULE EventStream -----------------------------
(***************************************************************************)
(* How the events of an agent session reach the browser: the handlers that *)
(* append events to agent_run_events and publish them in memory afterwards *)
(* (AgentEventStream), the SSE route that replays and then subscribes, the *)
(* client that reconnects to it with the last eventSeq it has received,    *)
(* and the stream that the message route answers with on its own.          *)
(*                                                                         *)
(* An event is its eventSeq, which the database counts up by one for the   *)
(* session in the transaction that inserts the event.                      *)
(***************************************************************************)
EXTENDS Naturals, Sequences, FiniteSets, SequencesExt

CONSTANTS
    Writers,      \* handlers that append events
    RunOf,        \* the run a handler works on
    Turns,        \* the handlers among them that serve POST /messages
    Clients,
    MaxEvents,    \* bound on the events of the session
    MaxRestarts   \* bound on the restarts of the service

ASSUME StreamAssumption ==
    Turns \subseteq Writers /\ MaxEvents \in Nat /\ MaxRestarts \in Nat

VARIABLES
    log,       \* agent_run_events of the session: the run of each event
    memory,    \* the events AgentEventStream holds
    writer,    \* what each handler is about to publish
    turn,      \* whether a message route is subscribed to its run
    sent,      \* what it has written to its own response
    route,     \* the SSE request of each client
    pipe,      \* what the route has written and the client has not read
    received,  \* all that the client has read
    restarts

turnVars   == <<turn, sent>>
serverVars == <<log, memory, writer, turnVars>>
vars == <<serverVars, route, pipe, received, restarts>>

-----------------------------------------------------------------------------
Events == 1..Len(log)

\* The cursor of the client, the highest eventSeq it has seen.
Cursor(c) == IF received[c] = << >> THEN 0 ELSE Last(received[c])

\* The events of S in their order.
Ascending(S) ==
    CHOOSE s \in SetToSeqs(S) : \A i, j \in DOMAIN s : i < j => s[i] < s[j]

MaxOf(S) == CHOOSE e \in S : \A d \in S : d <= e

Idle   == [pc |-> "idle", event |-> 0]
Closed == [pc |-> "closed", last |-> 0, snap |-> {}, base |-> 0, from |-> 0]

Init ==
    /\ log = << >>
    /\ memory = {}
    /\ writer = [w \in Writers |-> Idle]
    /\ turn = [w \in Turns |-> "none"]
    /\ sent = [w \in Turns |-> << >>]
    /\ route = [c \in Clients |-> Closed]
    /\ pipe = [c \in Clients |-> << >>]
    /\ received = [c \in Clients |-> << >>]
    /\ restarts = 0

-----------------------------------------------------------------------------
(* The handlers *)

\* POST /messages subscribes to the events of its run, or answers by itself
\* when the reply is a fact about the canvas.
BeginTurn(w, how) ==
    /\ turn[w] = "none" /\ how \in {"live", "direct"}
    /\ turn' = [turn EXCEPT ![w] = how]
    /\ UNCHANGED <<log, memory, writer, sent, route, pipe, received, restarts>>

\* Its response ends.
EndTurn(w) ==
    /\ turn[w] \in {"live", "direct"} /\ writer[w] = Idle
    /\ turn' = [turn EXCEPT ![w] = "ended"]
    /\ UNCHANGED <<log, memory, writer, sent, route, pipe, received, restarts>>

\* appendEventAtomic or appendEvent: the event is stored; the handler goes on to
\* publish it, or the latest event of its run.
AppendEvent(w, own) ==
    /\ writer[w] = Idle
    /\ w \in Turns => turn[w] \in {"live", "direct"}
    /\ Len(log) < MaxEvents
    /\ log' = Append(log, RunOf[w])
    /\ writer' = [writer EXCEPT ![w] =
           [pc |-> IF own THEN "publish" ELSE "latest", event |-> Len(log) + 1]]
    /\ UNCHANGED <<memory, turnVars, route, pipe, received, restarts>>

\* publishLatestRunEvent reads the last event of its run.
ReadLatest(w) ==
    /\ writer[w].pc = "latest"
    /\ writer' = [writer EXCEPT ![w] =
           [pc |-> "publish", event |-> MaxOf({e \in Events : log[e] = RunOf[w]})]]
    /\ UNCHANGED <<log, memory, turnVars, route, pipe, received, restarts>>

Answering(w)  == w \in Turns /\ turn[w] = "direct"
Listens(v, e) == turn[v] = "live" /\ RunOf[v] = log[e]

\* A direct reply is written to the response and not published.
Answer(w) ==
    /\ Answering(w) /\ writer[w].pc = "publish"
    /\ sent' = [sent EXCEPT ![w] = Append(@, writer[w].event)]
    /\ writer' = [writer EXCEPT ![w] = Idle]
    /\ UNCHANGED <<log, memory, turn, route, pipe, received, restarts>>

\* Mutant of Deliver: an SSE route writes whatever it is called with.
DeliverUnordered(e) ==
    LET hears(c) == route[c].pc = "live" IN
    /\ sent' = [v \in Turns |-> IF Listens(v, e) THEN Append(sent[v], e) ELSE sent[v]]
    /\ route' = [c \in Clients |-> IF hears(c) THEN [route[c] EXCEPT !.last = e] ELSE route[c]]
    /\ pipe' = [c \in Clients |-> IF hears(c) THEN Append(pipe[c], e) ELSE pipe[c]]

\* publishEvent: the listeners are called with e; a message route writes it, an
\* SSE route only if its last one is not as high.
Deliver(e) ==
    LET hears(c) == route[c].pc = "live" /\ e > route[c].last IN
    /\ sent' = [v \in Turns |-> IF Listens(v, e) THEN Append(sent[v], e) ELSE sent[v]]
    /\ route' = [c \in Clients |-> IF hears(c) THEN [route[c] EXCEPT !.last = e] ELSE route[c]]
    /\ pipe' = [c \in Clients |-> IF hears(c) THEN Append(pipe[c], e) ELSE pipe[c]]

\* Mutant of Publish: the listeners are called again for an event already held.
PublishAgain(w) ==
    /\ writer[w].pc = "publish" /\ ~ Answering(w)
    /\ memory' = memory \cup {writer[w].event}
    /\ Deliver(writer[w].event)
    /\ writer' = [writer EXCEPT ![w] = Idle]
    /\ UNCHANGED <<log, turn, received, restarts>>

\* An event already held is dropped.
Publish(w) ==
    /\ writer[w].pc = "publish" /\ ~ Answering(w)
    /\ memory' = memory \cup {writer[w].event}
    /\ IF writer[w].event \in memory THEN UNCHANGED <<sent, route, pipe>>
                                     ELSE Deliver(writer[w].event)
    /\ writer' = [writer EXCEPT ![w] = Idle]
    /\ UNCHANGED <<log, turn, received, restarts>>

-----------------------------------------------------------------------------
(* The SSE route and the client *)

\* afterSeq is the cursor of the client.
Connect(c) ==
    /\ route[c].pc = "closed"
    /\ route' = [route EXCEPT ![c] = [Closed EXCEPT !.pc = "reading", !.last = Cursor(c),
                                                    !.from = Cursor(c)]]
    /\ UNCHANGED <<serverVars, pipe, received, restarts>>

\* Mutant of ReadLog: OFFSET by the number of events received.
ReadLogOffset(c) ==
    /\ route[c].pc = "reading"
    /\ route' = [route EXCEPT ![c].pc = "replaying", ![c].base = Len(log),
                              ![c].snap = {e \in Events : e > route[c].last + 1}]
    /\ UNCHANGED <<serverVars, pipe, received, restarts>>

\* listSessionEvents
ReadLog(c) ==
    /\ route[c].pc = "reading"
    /\ route' = [route EXCEPT ![c].pc = "replaying", ![c].base = Len(log),
                              ![c].snap = {e \in Events : e > route[c].last}]
    /\ UNCHANGED <<serverVars, pipe, received, restarts>>

\* Mutant of Replay: only what the service holds in memory.
ReplayMemory(c) ==
    LET events == {e \in memory : e > route[c].last} IN
    /\ route[c].pc = "replaying"
    /\ pipe' = [pipe EXCEPT ![c] = @ \o Ascending(events)]
    /\ route' = [route EXCEPT ![c].pc = "finding", ![c].snap = {},
                              ![c].last = IF events = {} THEN @ ELSE MaxOf(events)]
    /\ UNCHANGED <<serverVars, received, restarts>>

\* The rows merged with replaySession are written, and findActive is awaited ...
Replay(c) ==
    LET events == route[c].snap \cup {e \in memory : e > route[c].last} IN
    /\ route[c].pc = "replaying"
    /\ pipe' = [pipe EXCEPT ![c] = @ \o Ascending(events)]
    /\ route' = [route EXCEPT ![c].pc = "finding", ![c].snap = {},
                              ![c].last = IF events = {} THEN @ ELSE MaxOf(events)]
    /\ UNCHANGED <<serverVars, received, restarts>>

\* ... before the route subscribes.
Subscribe(c) ==
    /\ route[c].pc = "finding"
    /\ route' = [route EXCEPT ![c].pc = "live"]
    /\ UNCHANGED <<serverVars, pipe, received, restarts>>

Read(c) ==
    /\ pipe[c] # << >>
    /\ received' = [received EXCEPT ![c] = Append(@, Head(pipe[c]))]
    /\ pipe' = [pipe EXCEPT ![c] = Tail(@)]
    /\ UNCHANGED <<serverVars, route, restarts>>

\* The stream ends: the route closes it after a terminal event or before a
\* confirmation, or the network does, and what is under way is lost.
Disconnect(c) ==
    /\ route[c].pc # "closed"
    /\ route' = [route EXCEPT ![c] = Closed]
    /\ pipe' = [pipe EXCEPT ![c] = << >>]
    /\ UNCHANGED <<serverVars, received, restarts>>

\* The service restarts; what handlers had still to publish is not published.
Restart ==
    /\ restarts < MaxRestarts
    /\ restarts' = restarts + 1
    /\ memory' = {}
    /\ writer' = [w \in Writers |-> Idle]
    /\ turn' = [w \in Turns |-> IF turn[w] = "none" THEN "none" ELSE "ended"]
    /\ route' = [c \in Clients |-> Closed]
    /\ pipe' = [c \in Clients |-> << >>]
    /\ UNCHANGED <<log, sent, received>>

Write(w) == ReadLatest(w) \/ Answer(w) \/ Publish(w)
Serve(c) == ReadLog(c) \/ Replay(c) \/ Subscribe(c)

Next ==
    \/ \E w \in Writers : Write(w) \/ \E own \in BOOLEAN : AppendEvent(w, own)
    \/ \E w \in Turns : EndTurn(w) \/ \E how \in {"live", "direct"} : BeginTurn(w, how)
    \/ \E c \in Clients : Connect(c) \/ Serve(c) \/ Read(c) \/ Disconnect(c)
    \/ Restart

Spec == Init /\ [][Next]_vars

\* The service and the network go on; the client reconnects (AgentPanel.tsx);
\* and no stream is open for ever: none sends a heartbeat, so a quiet one is cut
\* by nginx.conf's proxy_read_timeout.  It is not always cut before it is read.
FairSpec ==
    /\ Spec
    /\ \A w \in Writers : WF_vars(Write(w))
    /\ \A c \in Clients :
          /\ WF_vars(Connect(c)) /\ WF_vars(Disconnect(c))
          /\ SF_vars(ReadLog(c)) /\ SF_vars(Replay(c)) /\ SF_vars(Read(c))

-----------------------------------------------------------------------------
(* Properties *)

\* Over all its connections the SSE route sends a client no event twice and none
\* out of order, although handlers publish in another order than they append and
\* events are both replayed and published (write()).  A message route writes
\* what it hears: its events may be out of order, but it writes none twice, also
\* when several handlers publish the same latest one (publishEvent).
SentOnce ==
    /\ \A c \in Clients :
          LET all == received[c] \o pipe[c] IN
          \A i, j \in 1..Len(all) : i < j => all[i] < all[j]
    /\ \A w \in Turns : \A i, j \in 1..Len(sent[w]) : sent[w][i] = sent[w][j] => i = j

\* A reconnect recovers everything that was stored when its query ran and that
\* lies above the cursor; only events stored later can be skipped.
ReplayComplete ==
    \A c \in Clients : route[c].pc \in {"finding", "live"} =>
        \A e \in Events : route[c].from < e /\ e <= route[c].base
            => e \in ToSet(received[c]) \cup ToSet(pipe[c])

\* A client that keeps reconnecting sees the last event, whatever was lost on
\* the way, also when the service restarts before it is published.
SeesLast == \A c \in Clients : <>[](Cursor(c) = Len(log))
=============================================================================
