------------------------------ MODULE AgentRun ------------------------------
(***************************************************************************)
(* The runs of one agent session in vibepaper-agent-service: the message   *)
(* route, the continuation that a finished task starts, and the cancel     *)
(* route, over the rows of agent_runs and agent_run_events.                *)
(*                                                                         *)
(* The service is one Node.js process: what runs between two awaits is     *)
(* atomic, every database call is a step of its own, and any number of     *)
(* handlers are suspended at their awaits.  updateStatus() writes by       *)
(* primary key whatever the row holds; only cancelIfActive() and           *)
(* appendEventAtomic() look at the status they find.  A call may throw,    *)
(* and a restart may come, between the write of a status and its event.    *)
(***************************************************************************)
EXTENDS Naturals, FiniteSets

CONSTANTS
    Runs,           \* runs by their Idempotency-Key, unique in the session
    Requests,       \* message requests and continuations
    RunOf,          \* the run a request asks for
    Continuations,  \* the requests that startContinuationRun makes
    Questions,      \* the messages that ask how many nodes the canvas has, and get the number
    Cancels,        \* requests to the cancel route
    NoRun

ASSUME RunAssumption ==
    /\ NoRun \notin Runs
    /\ RunOf \in [Requests -> Runs]
    /\ Continuations \subseteq Requests
    /\ Questions \subseteq Requests \ Continuations
    /\ \A p \in Continuations, q \in Requests : RunOf[p] = RunOf[q] => p = q

VARIABLES
    status,     \* agent_runs.status, by run
    ends,       \* the terminal events that agent_run_events holds, by run
    unlogged,   \* history: the final statuses that a run got and no handler can log any more
    cancelled,  \* cancelledSessions has the session
    activeRun,  \* activeRuns.get(session)
    turn,       \* where each request is
    cancel      \* where each cancel request is

runVars == <<status, ends, unlogged, cancelled, activeRun, turn, cancel>>

-----------------------------------------------------------------------------
Active   == {"queued", "running", "waiting_confirmation", "waiting_task"}
Ends     == {"completed", "failed", "aborted"}
Statuses == Active \cup Ends \cup {"none"}

\* The steps of a request that has set a final status and has yet to append the
\* event: in the try of the route, in its catch, and in the direct reply.
Writing   == {"logging", "recording", "replied"}
TurnSteps == Writing \cup {"idle", "starting", "preparing", "turn", "asking", "ended", "checking",
                           "finishing", "catch", "failing", "finally", "answering", "replying", "done"}

IsActive(r) == status[r] \in Active

\* uq_agent_runs_active_session: the row r may take the status s.
Allowed(r, s) == s \in Active => \A x \in Runs \ {r} : ~ IsActive(x)

\* findActive(): r is the active run, of the statuses asked for; NoRun for none.
FindActive(S, r) ==
    LET found == {x \in Runs : status[x] \in S} IN
    IF found = {} THEN r = NoRun ELSE r \in found

\* append() and appendEvent(), which do not look at the status.
Append(r, e) == ends' = [ends EXCEPT ![r] = @ \cup {e}]

\* The append throws, and nobody tries again.
Unlogged(r, e) == unlogged' = [unlogged EXCEPT ![r] = @ \cup {e}]

\* A request that is done keeps nothing.
Goto(q, pc) ==
    turn' = [turn EXCEPT ![q] = [pc |-> pc, end |-> IF pc = "done" THEN "completed" ELSE @.end]]

RunInit ==
    /\ status = [r \in Runs |-> "none"]
    /\ ends = [r \in Runs |-> {}]
    /\ unlogged = [r \in Runs |-> {}]
    /\ cancelled = FALSE
    /\ activeRun = NoRun
    /\ turn = [q \in Requests |-> [pc |-> "idle", end |-> "completed"]]
    /\ cancel = [c \in Cancels |-> [pc |-> "idle", run |-> NoRun]]

-----------------------------------------------------------------------------
(* The message route and the continuation *)

\* findByIdempotency: a request whose run exists replays its events.
Look(q) ==
    /\ q \notin Continuations
    /\ turn[q].pc = "idle"
    /\ Goto(q, IF status[RunOf[q]] = "none" THEN "starting" ELSE "done")
    /\ UNCHANGED <<status, ends, unlogged, cancelled, activeRun, cancel>>

\* Mutant of StartRun: no unique index on the active runs of a session.
StartRunAnyway(q) ==
    LET r == RunOf[q] IN
    /\ turn[q].pc = "starting"
    /\ Goto(q, "preparing")
    /\ status' = IF status[r] = "none" THEN [status EXCEPT ![r] = "queued"] ELSE status
    /\ UNCHANGED <<ends, unlogged, cancelled, activeRun, cancel>>

\* startRunAtomic: INSERT, or the row that has the key, or SESSION_BUSY.  A
\* continuation goes on only with a queued run; a message with whatever it gets.
StartRun(q) ==
    LET r     == RunOf[q]
        fresh == status[r] = "none" IN
    /\ turn[q].pc = "starting"
    /\ IF fresh /\ Allowed(r, "queued")
         THEN status' = [status EXCEPT ![r] = "queued"]
         ELSE UNCHANGED status
    /\ Goto(q, IF \/ fresh /\ ~ Allowed(r, "queued")
                  \/ ~ fresh /\ q \in Continuations /\ status[r] # "queued"
               THEN "done" ELSE "preparing")
    /\ UNCHANGED <<ends, unlogged, cancelled, activeRun, cancel>>

\* One of the reads and calls between startRun and the turn throws.  A message
\* request has no handler for it there; a continuation is inside its try.
PrepareFails(q) ==
    /\ turn[q].pc = "preparing"
    /\ Goto(q, IF q \in Continuations THEN "catch" ELSE "done")
    /\ UNCHANGED <<status, ends, unlogged, cancelled, activeRun, cancel>>

\* activeRuns.set and updateStatus(running), which the unique index may refuse.
BeginTurn(q) ==
    LET r == RunOf[q] IN
    /\ q \notin Questions
    /\ turn[q].pc = "preparing"
    /\ activeRun' = r
    /\ IF Allowed(r, "running")
         THEN status' = [status EXCEPT ![r] = "running"] /\ Goto(q, "turn")
         ELSE UNCHANGED status /\ Goto(q, IF q \in Continuations THEN "catch" ELSE "done")
    /\ UNCHANGED <<ends, unlogged, cancelled, cancel>>

\* resolveCanvasFactReply: a question that can be answered at once needs no turn.
DirectReply(q) ==
    LET r == RunOf[q] IN
    /\ q \in Questions
    /\ turn[q].pc = "preparing"
    /\ IF Allowed(r, "running")
         THEN status' = [status EXCEPT ![r] = "running"] /\ Goto(q, "answering")
         ELSE UNCHANGED status /\ Goto(q, "done")
    /\ UNCHANGED <<ends, unlogged, cancelled, activeRun, cancel>>

\* appendEvent(assistant_delta) throws when the run is no longer active.
Answer(q) ==
    /\ turn[q].pc = "answering"
    /\ Goto(q, IF IsActive(RunOf[q]) THEN "replying" ELSE "done")
    /\ UNCHANGED <<status, ends, unlogged, cancelled, activeRun, cancel>>

\* runTurn returns, with an error that was logged if the run was still active.
\* The agent that a cancel request aborts may be that of another run.
EndTurn(q, end) ==
    LET r == RunOf[q] IN
    /\ turn[q].pc = "turn"
    /\ end = "aborted" => \E c \in Cancels : cancel[c].pc = "done"
    /\ IF end # "completed" /\ IsActive(r) THEN Append(r, end) ELSE UNCHANGED ends
    /\ turn' = [turn EXCEPT ![q] =
           IF q \in Continuations
             THEN [pc |-> "checking", end |-> IF end = "aborted" THEN "failed" ELSE end]
             ELSE [pc |-> "ended", end |-> end]]
    /\ UNCHANGED <<status, unlogged, cancelled, activeRun, cancel>>

\* A call of the request throws: to the handler of the route's try, out of that
\* handler, or out of the direct reply, which has none.
Throw(q) ==
    LET pc == turn[q].pc IN
    /\ \/ pc \in {"turn", "checking", "finishing", "logging"} /\ Goto(q, "catch")
       \/ pc \in {"catch", "failing", "recording"} /\ Goto(q, "finally")
       \/ pc \in {"answering", "replying", "replied"} /\ Goto(q, "done")
    /\ IF pc \in Writing THEN Unlogged(RunOf[q], turn[q].end) ELSE UNCHANGED unlogged
    /\ UNCHANGED <<status, ends, cancelled, activeRun, cancel>>

\* cancelledSessions.delete: a session marked as cancelled ends the request,
\* unless the publication of its last event throws.
Stop(q) ==
    /\ turn[q].pc = "ended"
    /\ cancelled' = FALSE
    /\ \E pc \in IF cancelled THEN {"finally", "catch"} ELSE {"checking"} : Goto(q, pc)
    /\ UNCHANGED <<status, ends, unlogged, activeRun, cancel>>

\* The reads of the status after the turn.  A continuation does not ask
\* whether its run was aborted.
Check(q) ==
    LET s == status[RunOf[q]] IN
    /\ turn[q].pc = "checking"
    /\ Goto(q, IF \/ s = "waiting_confirmation"
                  \/ s = "aborted" /\ q \notin Continuations
               THEN "finally" ELSE "finishing")
    /\ UNCHANGED <<status, ends, unlogged, cancelled, activeRun, cancel>>

\* The handler of an exception: setStatus(failed) if the run is active.
Catch(q) ==
    /\ turn[q].pc = "catch"
    /\ turn' = [turn EXCEPT ![q] = [pc |-> IF IsActive(RunOf[q]) THEN "failing" ELSE "finally",
                                    end |-> "failed"]]
    /\ UNCHANGED <<status, ends, unlogged, cancelled, activeRun, cancel>>

\* setStatus: the status of the run, whatever it was; cancelRun for an agent
\* that was aborted, which leaves alone a run that is over.
Finish(q) ==
    LET r    == RunOf[q]
        pc   == turn[q].pc
        over == turn[q].end = "aborted" /\ ~ IsActive(r) IN
    /\ \/ pc = "finishing" /\ Goto(q, IF over THEN "finally" ELSE "logging")
       \/ pc = "failing" /\ Goto(q, "recording")
       \/ pc = "replying" /\ Goto(q, "replied")
    /\ status' = IF over THEN status ELSE [status EXCEPT ![r] = turn[q].end]
    /\ UNCHANGED <<ends, unlogged, cancelled, activeRun, cancel>>

\* Mutant of Log: setStatus logs completions only.
LogCompleted(q) ==
    /\ turn[q].pc \in Writing
    /\ IF turn[q].end = "failed" THEN UNCHANGED ends ELSE Append(RunOf[q], turn[q].end)
    /\ Goto(q, IF turn[q].pc = "replied" THEN "done" ELSE "finally")
    /\ UNCHANGED <<status, unlogged, cancelled, activeRun, cancel>>

\* The event of that status; what a request publishes of it may still throw.
Log(q) ==
    LET pc == turn[q].pc IN
    /\ Append(RunOf[q], turn[q].end)
    /\ \/ pc \in {"logging", "recording"} /\ Goto(q, "finally")
       \/ pc = "logging" /\ Goto(q, "catch")
       \/ pc = "replied" /\ Goto(q, "done")
    /\ UNCHANGED <<status, unlogged, cancelled, activeRun, cancel>>

\* The message route forgets the active run of the session, its own or not.
Finally(q) ==
    /\ turn[q].pc = "finally"
    /\ activeRun' = IF q \in Continuations /\ activeRun # RunOf[q] THEN activeRun ELSE NoRun
    /\ Goto(q, "done")
    /\ UNCHANGED <<status, ends, unlogged, cancelled, cancel>>

Turn(q) ==
    \/ Look(q)
    \/ StartRun(q)
    \/ PrepareFails(q)
    \/ BeginTurn(q)
    \/ DirectReply(q)
    \/ Answer(q)
    \/ \E end \in Ends : EndTurn(q, end)
    \/ Throw(q)
    \/ Stop(q)
    \/ Check(q)
    \/ Catch(q)
    \/ Finish(q)
    \/ Log(q)
    \/ Finally(q)

-----------------------------------------------------------------------------
(* The cancel route *)

NoCancel == [pc |-> "done", run |-> NoRun]

CancelRead(c) ==
    /\ cancel[c].pc = "idle"
    /\ \E r \in Runs \cup {NoRun} :
          /\ IF activeRun # NoRun THEN r = activeRun ELSE FindActive(Active, r)
          /\ cancel' = [cancel EXCEPT ![c] = [pc |-> IF r = NoRun THEN "done" ELSE "aborting",
                                              run |-> r]]
    /\ UNCHANGED <<status, ends, unlogged, cancelled, activeRun, turn>>

\* cancelIfActive
CancelUpdate(c) ==
    LET r == cancel[c].run IN
    /\ cancel[c].pc = "aborting"
    /\ cancel' = [cancel EXCEPT ![c] = IF IsActive(r) THEN [pc |-> "logging", run |-> r] ELSE NoCancel]
    /\ status' = IF IsActive(r) THEN [status EXCEPT ![r] = "aborted"] ELSE status
    /\ UNCHANGED <<ends, unlogged, cancelled, activeRun, turn>>

\* run_aborted, and the mark for a turn that may, or may not, be running.
CancelLog(c) ==
    /\ cancel[c].pc = "logging"
    /\ Append(cancel[c].run, "aborted")
    /\ cancelled' = TRUE
    /\ cancel' = [cancel EXCEPT ![c] = NoCancel]
    /\ UNCHANGED <<status, unlogged, activeRun, turn>>

\* The append throws: the session is not marked, and its agent goes on.
CancelThrow(c) ==
    /\ cancel[c].pc = "logging"
    /\ Unlogged(cancel[c].run, "aborted")
    /\ cancel' = [cancel EXCEPT ![c] = NoCancel]
    /\ UNCHANGED <<status, ends, cancelled, activeRun, turn>>

Cancel(c) == CancelRead(c) \/ CancelUpdate(c) \/ CancelLog(c) \/ CancelThrow(c)

RunNext == (\E q \in Requests : Turn(q)) \/ (\E c \in Cancels : Cancel(c))

RunTypeOK ==
    /\ status \in [Runs -> Statuses]
    /\ ends \in [Runs -> SUBSET Ends]
    /\ unlogged \in [Runs -> SUBSET Ends]
    /\ cancelled \in BOOLEAN
    /\ activeRun \in Runs \cup {NoRun}
    /\ turn \in [Requests -> [pc : TurnSteps, end : Ends]]
    /\ cancel \in [Cancels -> [pc : {"idle", "aborting", "logging", "done"},
                               run : Runs \cup {NoRun}]]
=============================================================================
