---------------------------- MODULE AgentSession ----------------------------
(***************************************************************************)
(* Confirmed generation in an agent session: the approval a turn asks for, *)
(* the confirmation route that rejects or executes it, and the terminal    *)
(* callback of generation-service, composed with the runs of AgentRun.     *)
(*                                                                         *)
(* Row <<r, 0>> of agent_actions is the action of run r; a batch adds a    *)
(* row <<r, i>> for each item i, and a single item shares row <<r, 0>>.    *)
(***************************************************************************)
EXTENDS AgentRun

CONSTANTS
    Items,      \* 1..n, the generations of one action
    Asking,     \* the runs whose turn may ask for a confirmation
    Accepts,    \* requests to the confirmation route with accept = true
    Rejects,    \* requests to it without
    Callbacks,  \* requests to /internal/agent/resume
    After       \* the task whose success starts a continuation

Clicks == Accepts \cup Rejects
Tasks  == Runs \X Items
Rows   == Runs \X (Items \cup {0})
Batch  == Cardinality(Items) > 1

ASSUME SessionAssumption ==
    /\ Items \subseteq Nat \ {0} /\ 1 \in Items /\ IsFiniteSet(Items)
    /\ Asking \subseteq Runs
    /\ Accepts \cap Rejects = {}
    /\ After \in [Continuations -> Tasks]

VARIABLES
    approval,  \* agent_approvals.status, by run; "saved" until its token is shown
    action,    \* agent_actions.status, by row
    linked,    \* the tasks whose task_id a row of agent_actions holds
    task,      \* what became of each generation task at the other services
    notice,    \* agent_wakeup_notices, by task
    counted,   \* how often a task's cost was added to points_used_total
    click,     \* where each confirmation request is
    call       \* where each callback is

askVars == <<approval, action, linked, task, notice, counted, click, call>>
vars    == <<runVars, askVars>>

-----------------------------------------------------------------------------
Outcomes  == {"succeeded", "failed"}
Approvals == {"none", "saved", "pending", "rejected", "consumed"}
RowStates == {"none", "awaiting_approval", "rejected", "running",
              "compensation_required", "succeeded", "failed"}
TaskStates == {"none", "live", "compensated"}

\* The steps of an accepting click once it has consumed the approval.
Consumed   == {"executing", "linking", "parking", "waiting", "announcing", "catch", "accepted"}
ClickSteps == Consumed \cup {"idle", "reject", "rejectAction", "close", "closing",
                             "closed", "consume", "done"}
CallSteps  == {"idle", "finding", "marking", "reading", "appending", "deciding",
               "waiting", "finishing", "logging", "continuing", "done"}

RowOf(t) == IF Batch THEN t ELSE <<t[1], 0>>
NoTask   == <<NoRun, 1>>

\* hasPendingBatchTasks and hasFailedBatchTasks, over the rows a batch has added.
PendingBatch(r) == Batch /\ \E i \in Items : action[<<r, i>>] \in {"running", "compensation_required"}
FailedBatch(r)  == Batch /\ \E i \in Items : action[<<r, i>>] = "failed"

Init ==
    /\ RunInit
    /\ approval = [r \in Runs |-> "none"]
    /\ action = [w \in Rows |-> "none"]
    /\ linked = {}
    /\ task = [t \in Tasks |-> "none"]
    /\ notice = [t \in Tasks |-> "none"]
    /\ counted = [t \in Tasks |-> 0]
    /\ click = [k \in Clicks |-> [pc |-> "idle", run |-> NoRun, item |-> 1, at |-> NoRun]]
    /\ call = [b \in Callbacks |-> [pc |-> "idle", task |-> NoTask, out |-> "failed"]]

-----------------------------------------------------------------------------
(* A turn asks for a confirmation *)

\* planActionAsync saves the action and its approval in one transaction.
Ask(q) ==
    LET r == RunOf[q] IN
    /\ turn[q].pc = "turn"
    /\ r \in Asking
    /\ approval[r] = "none"
    /\ approval' = [approval EXCEPT ![r] = "saved"]
    /\ action' = [action EXCEPT ![<<r, 0>>] = "awaiting_approval"]
    /\ Goto(q, "asking")
    /\ UNCHANGED <<status, ends, unlogged, cancelled, activeRun, cancel,
                   linked, task, notice, counted, click, call>>

\* onApprovalRequired: updateStatus, then the card with the token; a refused
\* update ends the tool call and the card is never shown.
Show(q) ==
    LET r == RunOf[q] IN
    /\ turn[q].pc = "asking"
    /\ IF Allowed(r, "waiting_confirmation")
         THEN /\ status' = [status EXCEPT ![r] = "waiting_confirmation"]
              /\ approval' = [approval EXCEPT ![r] = "pending"]
         ELSE UNCHANGED <<status, approval>>
    /\ Goto(q, "turn")
    /\ UNCHANGED <<ends, unlogged, cancelled, activeRun, cancel,
                   action, linked, task, notice, counted, click, call>>

-----------------------------------------------------------------------------
(* The confirmation route *)

At(k, pc) == click[k].pc = pc

\* A request that is done keeps nothing.
NoClick == [pc |-> "done", run |-> NoRun, item |-> 1, at |-> NoRun]

Move(k, pc) == click' = [click EXCEPT ![k] = IF pc = "done" THEN NoClick ELSE [@ EXCEPT !.pc = pc]]

\* The approval is read: SELECT ... WHERE status = 'pending', or find().
ReadApproval(k, r) ==
    /\ At(k, "idle")
    /\ approval[r] = "pending"
    /\ click' = [click EXCEPT ![k] =
           [@ EXCEPT !.pc = IF k \in Rejects THEN "reject" ELSE "consume", !.run = r]]
    /\ UNCHANGED <<runVars, approval, action, linked, task, notice, counted, call>>

\* Mutant of RejectApproval: the UPDATE has no condition on the status.
RejectAnyApproval(k) ==
    /\ At(k, "reject")
    /\ approval' = [approval EXCEPT ![click[k].run] = "rejected"]
    /\ Move(k, "rejectAction")
    /\ UNCHANGED <<runVars, action, linked, task, notice, counted, call>>

\* UPDATE agent_approvals ... AND status = 'pending': the row count is ignored,
RejectApproval(k) ==
    LET r == click[k].run IN
    /\ At(k, "reject")
    /\ approval' = IF approval[r] = "pending" THEN [approval EXCEPT ![r] = "rejected"] ELSE approval
    /\ Move(k, "rejectAction")
    /\ UNCHANGED <<runVars, action, linked, task, notice, counted, call>>

\* and the action is marked whoever has consumed its approval.
RejectAction(k) ==
    /\ At(k, "rejectAction")
    /\ action' = [action EXCEPT ![<<click[k].run, 0>>] = "rejected"]
    /\ Move(k, "close")
    /\ UNCHANGED <<runVars, approval, linked, task, notice, counted, call>>

\* findActive: the run that waits is closed.
RejectFind(k) ==
    /\ At(k, "close")
    /\ \E x \in Runs \cup {NoRun} :
          /\ FindActive({"waiting_confirmation"}, x)
          /\ IF x = NoRun THEN Move(k, "done")
                          ELSE click' = [click EXCEPT ![k] = [@ EXCEPT !.pc = "closing", !.at = x]]
    /\ UNCHANGED <<runVars, approval, action, linked, task, notice, counted, call>>

\* setStatus(completed), whatever happened since,
RejectClose(k) ==
    /\ At(k, "closing")
    /\ status' = [status EXCEPT ![click[k].at] = "completed"]
    /\ Move(k, "closed")
    /\ UNCHANGED <<ends, unlogged, cancelled, activeRun, turn, cancel,
                   approval, action, linked, task, notice, counted, call>>

\* and its event, unless the append throws.
RejectLog(k) ==
    LET r == click[k].at IN
    /\ At(k, "closed")
    /\ \/ Append(r, "completed") /\ UNCHANGED unlogged
       \/ Unlogged(r, "completed") /\ UNCHANGED ends
    /\ Move(k, "done")
    /\ UNCHANGED <<status, cancelled, activeRun, turn, cancel,
                   approval, action, linked, task, notice, counted, call>>

\* Mutant of Consume: UPDATE ... WHERE action_id alone.
ConsumeAny(k) ==
    /\ At(k, "consume")
    /\ approval' = [approval EXCEPT ![click[k].run] = "consumed"]
    /\ Move(k, "executing")
    /\ UNCHANGED <<runVars, action, linked, task, notice, counted, call>>

\* Mutant of Consume: the status that consumeApproval returns is stored.
ConsumeApproved(k) ==
    LET r == click[k].run IN
    /\ At(k, "consume")
    /\ IF approval[r] = "pending"
         THEN approval' = [approval EXCEPT ![r] = "approved"] /\ Move(k, "executing")
         ELSE UNCHANGED approval /\ Move(k, "done")
    /\ UNCHANGED <<runVars, action, linked, task, notice, counted, call>>

\* consumePending: UPDATE ... WHERE status = 'pending' RETURNING.
Consume(k) ==
    LET r == click[k].run IN
    /\ At(k, "consume")
    /\ IF approval[r] = "pending"
         THEN approval' = [approval EXCEPT ![r] = "consumed"] /\ Move(k, "executing")
         ELSE UNCHANGED approval /\ Move(k, "done")
    /\ UNCHANGED <<runVars, action, linked, task, notice, counted, call>>

\* The canvas has another version, or the approval has expired.
Refuse(k) ==
    /\ At(k, "consume")
    /\ Move(k, "done")
    /\ UNCHANGED <<runVars, approval, action, linked, task, notice, counted, call>>

\* The click's next item, or what follows its last one.
Advance(k, pc) ==
    IF click[k].item + 1 \in Items
      THEN click' = [click EXCEPT ![k].item = @ + 1]
      ELSE click' = [click EXCEPT ![k] = [@ EXCEPT !.item = 1, !.pc = pc]]

\* executeOnce: points are frozen and the node is marked queued, or the task is
\* cancelled again.  One process runs an item once (results, inFlight).
Execute(k, state) ==
    LET t == <<click[k].run, click[k].item>> IN
    /\ At(k, "executing")
    /\ state \in {"live", "compensated"}
    /\ task' = IF task[t] = "none" THEN [task EXCEPT ![t] = state] ELSE task
    /\ Advance(k, "linking")
    /\ UNCHANGED <<runVars, approval, action, linked, notice, counted, call>>

\* The estimate or the freeze is refused, or the compensation fails after the
\* freeze and leaves the task alive; the items before it go on unlinked.
ExecuteFails(k, frozen) ==
    LET t == <<click[k].run, click[k].item>> IN
    /\ At(k, "executing")
    /\ task' = IF frozen /\ task[t] = "none" THEN [task EXCEPT ![t] = "live"] ELSE task
    /\ Move(k, "catch")
    /\ UNCHANGED <<runVars, approval, action, linked, notice, counted, call>>

\* UPDATE agent_actions with the task id, or the INSERT of one row of a batch
\* (the UPDATE of the batch's own row goes with the first).
Link(k) ==
    LET r == click[k].run
        t == <<r, click[k].item>>
        s == IF task[t] = "compensated" THEN "compensation_required" ELSE "running" IN
    /\ At(k, "linking")
    /\ action' = [w \in Rows |-> IF w = RowOf(t) THEN s
                                 ELSE IF w = <<r, 0>> /\ click[k].item = 1 THEN "running"
                                 ELSE action[w]]
    /\ linked' = linked \cup {t}
    /\ Advance(k, "parking")
    /\ UNCHANGED <<runVars, approval, task, notice, counted, call>>

\* findActive
FindRun(k) ==
    /\ At(k, "parking")
    /\ \E x \in Runs \cup {NoRun} :
          /\ FindActive(Active, x)
          /\ click' = [click EXCEPT ![k] =
                 [@ EXCEPT !.pc = IF x = NoRun THEN "accepted" ELSE "waiting", !.at = x]]
    /\ UNCHANGED <<runVars, approval, action, linked, task, notice, counted, call>>

\* updateStatus(waiting_task), which the unique index may refuse.
Wait(k) ==
    LET x == click[k].at IN
    /\ At(k, "waiting")
    /\ IF Allowed(x, "waiting_task")
         THEN status' = [status EXCEPT ![x] = "waiting_task"] /\ Move(k, "announcing")
         ELSE UNCHANGED status /\ Move(k, "catch")
    /\ UNCHANGED <<ends, unlogged, cancelled, activeRun, turn, cancel,
                   approval, action, linked, task, notice, counted, call>>

\* appendEvent(task_status) throws when the run is no longer active.
Announce(k) ==
    /\ At(k, "announcing")
    /\ Move(k, IF IsActive(click[k].at) THEN "accepted" ELSE "catch")
    /\ UNCHANGED <<runVars, approval, action, linked, task, notice, counted, call>>

\* Any exception marks the action as failed, its tasks alive or not.
AcceptCatch(k) ==
    /\ At(k, "catch")
    /\ action' = [action EXCEPT ![<<click[k].run, 0>>] = "failed"]
    /\ Move(k, "accepted")
    /\ UNCHANGED <<runVars, approval, linked, task, notice, counted, call>>

Click(k) ==
    \/ \E r \in Runs : ReadApproval(k, r)
    \/ RejectApproval(k) \/ RejectAction(k)
    \/ RejectFind(k) \/ RejectClose(k) \/ RejectLog(k)
    \/ Consume(k) \/ Refuse(k)
    \/ \E state \in TaskStates : Execute(k, state)
    \/ \E frozen \in BOOLEAN : ExecuteFails(k, frozen)
    \/ Link(k) \/ FindRun(k) \/ Wait(k) \/ Announce(k) \/ AcceptCatch(k)

-----------------------------------------------------------------------------
(* The terminal callback *)

In(b, pc) == call[b].pc = pc

NoCall == [pc |-> "done", task |-> NoTask, out |-> "failed"]

Go(b, pc) == call' = [call EXCEPT ![b] = IF pc = "done" THEN NoCall ELSE [@ EXCEPT !.pc = pc]]

\* generation-service reports how a task ended; a repeated execution reports again.
Notify(b, t, out) ==
    /\ In(b, "idle")
    /\ task[t] # "none"
    /\ task[t] = "compensated" => out = "failed"
    /\ call' = [call EXCEPT ![b] = [pc |-> "finding", task |-> t, out |-> out]]
    /\ UNCHANGED <<runVars, approval, action, linked, task, notice, counted, click>>

\* findTask, 404 for a task id that no action holds, and then getTerminalStatus,
\* where a duplicate or a conflict ends.  A linked task stays linked.
FindTask(b) ==
    /\ In(b, "finding")
    /\ Go(b, IF call[b].task \in linked /\ notice[call[b].task] = "none" THEN "marking" ELSE "done")
    /\ UNCHANGED <<runVars, approval, action, linked, task, notice, counted, click>>

\* Mutant of Mark: the status read before stands in for the two constraints.
MarkAgain(b) ==
    LET t == call[b].task IN
    /\ In(b, "marking")
    /\ notice' = [notice EXCEPT ![t] = call[b].out]
    /\ action' = [action EXCEPT ![RowOf(t)] = call[b].out]
    /\ Go(b, "reading")
    /\ UNCHANGED <<runVars, approval, linked, task, counted, click>>

\* Mutant of Mark: the action of the run is updated, not the row of the task.
MarkAction(b) ==
    LET t == call[b].task IN
    /\ In(b, "marking")
    /\ IF notice[t] = "none"
         THEN /\ notice' = [notice EXCEPT ![t] = call[b].out]
              /\ action' = [action EXCEPT ![<<t[1], 0>>] = call[b].out]
              /\ Go(b, "reading")
         ELSE UNCHANGED <<notice, action>> /\ Go(b, "done")
    /\ UNCHANGED <<runVars, approval, linked, task, counted, click>>

\* markTerminal: ON CONFLICT DO NOTHING for the same status, and the primary
\* key, which is the action's id, refuses another one.
Mark(b) ==
    LET t == call[b].task IN
    /\ In(b, "marking")
    /\ IF notice[t] = "none"
         THEN /\ notice' = [notice EXCEPT ![t] = call[b].out]
              /\ action' = [action EXCEPT ![RowOf(t)] = call[b].out]
              /\ Go(b, "reading")
         ELSE UNCHANGED <<notice, action>> /\ Go(b, "done")
    /\ UNCHANGED <<runVars, approval, linked, task, counted, click>>

\* isCallbackActiveRun; otherwise the user only gets a message.
ReadRun(b) ==
    /\ In(b, "reading")
    /\ Go(b, IF IsActive(call[b].task[1]) THEN "appending" ELSE "continuing")
    /\ UNCHANGED <<runVars, approval, action, linked, task, notice, counted, click>>

\* appendEvent(task_status) throws, and answers 500, when the run has ended.
AppendStatus(b) ==
    /\ In(b, "appending")
    /\ Go(b, IF IsActive(call[b].task[1]) THEN "deciding" ELSE "done")
    /\ UNCHANGED <<runVars, approval, action, linked, task, notice, counted, click>>

\* The two queries on the batch, and points_used_total; partial failures do not count.
Decide(b) ==
    LET t  == call[b].task
        ok == call[b].out = "succeeded"
        partial == ~ PendingBatch(t[1]) /\ FailedBatch(t[1]) IN
    /\ In(b, "deciding")
    /\ counted' = IF ok /\ ~ partial THEN [counted EXCEPT ![t] = @ + 1] ELSE counted
    /\ call' = [call EXCEPT ![b].pc = IF PendingBatch(t[1]) THEN "waiting" ELSE "finishing",
                            ![b].out = IF ok /\ partial THEN "failed" ELSE @]
    /\ UNCHANGED <<runVars, approval, action, linked, task, notice, click>>

\* updateStatus(waiting_task)
WaitMore(b) ==
    LET r == call[b].task[1] IN
    /\ In(b, "waiting")
    /\ IF Allowed(r, "waiting_task")
         THEN status' = [status EXCEPT ![r] = "waiting_task"] /\ Go(b, "continuing")
         ELSE UNCHANGED status /\ Go(b, "done")
    /\ UNCHANGED <<ends, unlogged, cancelled, activeRun, turn, cancel,
                   approval, action, linked, task, notice, counted, click>>

RunOutcome(b) == IF call[b].out = "succeeded" THEN "completed" ELSE "failed"

\* setStatus: the status,
FinishRun(b) ==
    /\ In(b, "finishing")
    /\ status' = [status EXCEPT ![call[b].task[1]] = RunOutcome(b)]
    /\ Go(b, "logging")
    /\ UNCHANGED <<ends, unlogged, cancelled, activeRun, turn, cancel,
                   approval, action, linked, task, notice, counted, click>>

\* and the event; when the append throws, the callback is answered with 500.
LogRun(b) ==
    LET r == call[b].task[1] IN
    /\ In(b, "logging")
    /\ \/ Append(r, RunOutcome(b)) /\ UNCHANGED unlogged /\ Go(b, "continuing")
       \/ Unlogged(r, RunOutcome(b)) /\ UNCHANGED ends /\ Go(b, "done")
    /\ UNCHANGED <<status, cancelled, activeRun, turn, cancel,
                   approval, action, linked, task, notice, counted, click>>

\* onTaskCompleted, once all tasks of the run have succeeded.
Continue(b) ==
    LET t  == call[b].task
        go == {q \in Continuations : /\ After[q] = t /\ call[b].out = "succeeded"
                                     /\ ~ PendingBatch(t[1]) /\ ~ FailedBatch(t[1])} IN
    /\ In(b, "continuing")
    /\ turn' = [q \in Requests |-> IF q \in go THEN [turn[q] EXCEPT !.pc = "starting"] ELSE turn[q]]
    /\ Go(b, "done")
    /\ UNCHANGED <<status, ends, unlogged, cancelled, activeRun, cancel,
                   approval, action, linked, task, notice, counted, click>>

Callback(b) ==
    \/ \E t \in Tasks, out \in Outcomes : Notify(b, t, out)
    \/ FindTask(b) \/ Mark(b)
    \/ ReadRun(b) \/ AppendStatus(b) \/ Decide(b)
    \/ WaitMore(b) \/ FinishRun(b) \/ LogRun(b) \/ Continue(b)

-----------------------------------------------------------------------------
(* A restart of the service *)

\* A handler that has given run r the status e and has yet to log the event.
Owes(r, e) ==
    \/ \E q \in Requests  : turn[q].pc \in Writing /\ RunOf[q] = r /\ turn[q].end = e
    \/ \E c \in Cancels   : cancel[c].pc = "logging" /\ cancel[c].run = r /\ e = "aborted"
    \/ \E k \in Clicks    : click[k].pc = "closed" /\ click[k].at = r /\ e = "completed"
    \/ \E b \in Callbacks : call[b].pc = "logging" /\ call[b].task[1] = r /\ e = RunOutcome(b)

\* Every handler under way is gone, with activeRuns and cancelledSessions; the
\* tables stay as they are, and nothing looks at them when the service starts.
Restart ==
    /\ turn' = [q \in Requests |-> IF turn[q].pc = "idle" THEN turn[q]
                                                         ELSE [pc |-> "done", end |-> "completed"]]
    /\ cancel' = [c \in Cancels |-> IF cancel[c].pc = "idle" THEN cancel[c] ELSE NoCancel]
    /\ click' = [k \in Clicks |-> IF At(k, "idle") THEN click[k] ELSE NoClick]
    /\ call' = [b \in Callbacks |-> IF In(b, "idle") THEN call[b] ELSE NoCall]
    /\ cancelled' = FALSE
    /\ activeRun' = NoRun
    /\ unlogged' = [r \in Runs |-> unlogged[r] \cup {e \in Ends : Owes(r, e)}]
    /\ UNCHANGED <<status, ends, approval, action, linked, task, notice, counted>>

-----------------------------------------------------------------------------
Next ==
    \/ \E q \in Requests : Turn(q) /\ UNCHANGED askVars
    \/ \E c \in Cancels : Cancel(c) /\ UNCHANGED askVars
    \/ \E q \in Requests : Ask(q) \/ Show(q)
    \/ \E k \in Clicks : Click(k)
    \/ \E b \in Callbacks : Callback(b)
    \/ Restart

Spec == Init /\ [][Next]_vars

-----------------------------------------------------------------------------
(* Properties *)

SessionTypeOK ==
    /\ RunTypeOK
    /\ approval \in [Runs -> Approvals]
    /\ action \in [Rows -> RowStates]
    /\ linked \subseteq Tasks
    /\ task \in [Tasks -> TaskStates]
    /\ notice \in [Tasks -> Outcomes \cup {"none"}]
    /\ counted \in [Tasks -> Nat]
    /\ click \in [Clicks -> [pc : ClickSteps, run : Runs \cup {NoRun}, item : Items,
                             at : Runs \cup {NoRun}]]
    /\ call \in [Callbacks -> [pc : CallSteps, task : Tasks \cup {NoTask}, out : Outcomes]]

\* However messages, continuations, confirmations, cancels and callbacks
\* overlap, a session has one active run (003_agent_runs_events.sql).
OneActiveRun == \A r, x \in Runs : IsActive(r) /\ IsActive(x) => r = x

\* A confirmation, clicked twice or rejected meanwhile, is executed by at most
\* one request (pg-approval-repository.ts, consumePending).
ConsumedOnce ==
    \A k, l \in Clicks :
        click[k].pc \in Consumed /\ click[l].pc \in Consumed /\ click[k].run = click[l].run => k = l

\* A task exists only for an approval that was accepted, and a rejection that
\* comes later cannot take the acceptance back.
ConsentBeforeTask == \A t \in Tasks : task[t] # "none" => approval[t[1]] = "consumed"

\* What the user decided, the first time, stands.
DecisionStands ==
    [][\A r \in Runs : approval[r] \in {"consumed", "rejected"} => approval'[r] = approval[r]]_vars

\* The points of a task are added to the session at most once, and only when it
\* succeeded, however often and in whatever order its ends are reported.
CountedOnce ==
    \A t \in Tasks : counted[t] <= 1 /\ (counted[t] = 1 => notice[t] = "succeeded")

\* The row of a batch item holds the first end that was reported for its task.
RowFollowsNotice ==
    Batch => \A t \in Tasks : notice[t] # "none" => action[t] = notice[t]

\* Status and event log are written by two statements, by several handlers that
\* overwrite each other's status: a run that is shown as ended has that very end
\* in its log, or a handler that is about to write it, unless the one that had
\* to was cut off, by an append that threw or by a restart.
EndIsLogged ==
    \A r \in Runs : status[r] \in Ends =>
        status[r] \in ends[r] \/ Owes(r, status[r]) \/ status[r] \in unlogged[r]

\* "cancels an active run once and rejects later side effects"
\* (session-run-service.test.ts): an aborted run stays aborted.
AbortedIsFinal ==
    [][\A r \in Runs : status[r] = "aborted" => status'[r] = "aborted"]_vars
=============================================================================
