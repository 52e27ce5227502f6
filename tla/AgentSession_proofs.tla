------------------------- MODULE AgentSession_proofs -------------------------
(***************************************************************************)
(* The agent session, for every number of runs, requests, confirmations,   *)
(* cancels, callbacks and items: its types, the single active run, what a  *)
(* confirmation may do, what a callback may count, and the event log.      *)
(***************************************************************************)
EXTENDS AgentSession, TLAPS

-----------------------------------------------------------------------------
(* Types *)

LEMMA GotoTypes ==
    ASSUME RunTypeOK, NEW q \in Requests, NEW pc \in TurnSteps, Goto(q, pc)
    PROVE  turn' \in [Requests -> [pc : TurnSteps, end : Ends]]
BY DEF RunTypeOK, Goto, Ends

LEMMA AppendTypes ==
    ASSUME RunTypeOK, NEW r, NEW e \in Ends, Append(r, e)
    PROVE  ends' \in [Runs -> SUBSET Ends]
BY DEF RunTypeOK, Append

LEMMA UnloggedTypes ==
    ASSUME RunTypeOK, NEW r, NEW e \in Ends, Unlogged(r, e)
    PROVE  unlogged' \in [Runs -> SUBSET Ends]
BY DEF RunTypeOK, Unlogged

LEMMA StatusTypes ==
    ASSUME RunTypeOK, NEW r, NEW s \in Statuses, status' = [status EXCEPT ![r] = s]
    PROVE  status' \in [Runs -> Statuses]
BY DEF RunTypeOK

LEMMA MoveTypes ==
    ASSUME SessionTypeOK, NEW k \in Clicks, NEW pc \in ClickSteps, Move(k, pc)
    PROVE  click' \in [Clicks -> [pc : ClickSteps, run : Runs \cup {NoRun}, item : Items,
                                  at : Runs \cup {NoRun}]]
<1>1. NoClick \in [pc : ClickSteps, run : Runs \cup {NoRun}, item : Items, at : Runs \cup {NoRun}]
  BY SessionAssumption DEF NoClick, ClickSteps
<1>2. QED BY <1>1 DEF SessionTypeOK, Move

LEMMA AdvanceTypes ==
    ASSUME SessionTypeOK, NEW k \in Clicks, NEW pc \in ClickSteps, Advance(k, pc)
    PROVE  click' \in [Clicks -> [pc : ClickSteps, run : Runs \cup {NoRun}, item : Items,
                                  at : Runs \cup {NoRun}]]
<1>1. click[k] \in [pc : ClickSteps, run : Runs \cup {NoRun}, item : Items, at : Runs \cup {NoRun}]
  BY DEF SessionTypeOK
<1>2. CASE click[k].item + 1 \in Items
  BY <1>1, <1>2 DEF Advance, SessionTypeOK
<1>3. CASE click[k].item + 1 \notin Items
  <2>1. click' = [click EXCEPT ![k] = [click[k] EXCEPT !.item = 1, !.pc = pc]]
    BY <1>3 DEF Advance
  <2>2. QED BY <1>1, <2>1, SessionAssumption DEF SessionTypeOK
<1>4. QED BY <1>2, <1>3

LEMMA GoTypes ==
    ASSUME SessionTypeOK, NEW b \in Callbacks, NEW pc \in CallSteps, Go(b, pc)
    PROVE  call' \in [Callbacks -> [pc : CallSteps, task : Tasks \cup {NoTask}, out : Outcomes]]
<1>1. NoCall \in [pc : CallSteps, task : Tasks \cup {NoTask}, out : Outcomes]
  BY DEF NoCall, CallSteps, Outcomes
<1>2. QED BY <1>1 DEF SessionTypeOK, Go

LEMMA TurnTypes ==
    ASSUME RunTypeOK, NEW q \in Requests, Turn(q)
    PROVE  RunTypeOK'
<1> DEFINE Typed(s, t) == /\ s \in [Runs -> Statuses]
                          /\ t \in [Requests -> [pc : TurnSteps, end : Ends]]
<1>0. /\ RunOf[q] \in Runs
      /\ {"idle", "starting", "preparing", "turn", "asking", "ended", "checking", "finishing",
          "logging", "catch", "failing", "recording", "finally", "answering", "replying",
          "replied", "done"} = TurnSteps
      /\ Ends \subseteq Statuses /\ {"queued", "running"} \subseteq Statuses
      /\ Ends = {"completed", "failed", "aborted"}
      /\ turn[q].end \in Ends
  BY RunAssumption DEF TurnSteps, Writing, Statuses, Active, Ends, RunTypeOK
<1>1. CASE Look(q) \/ Answer(q) \/ Check(q) \/ PrepareFails(q)
  <2>1. /\ UNCHANGED <<status, ends, unlogged, cancelled, activeRun, cancel>>
        /\ \E pc \in TurnSteps : Goto(q, pc)
    BY <1>0, <1>1 DEF Look, Answer, Check, PrepareFails
  <2>2. QED BY <2>1, GotoTypes DEF RunTypeOK
<1>2. CASE StartRun(q)
  <2>1. \E pc \in TurnSteps : Goto(q, pc)
    BY <1>0, <1>2 DEF StartRun
  <2>2. status' \in [Runs -> Statuses]
    BY <1>0, <1>2, StatusTypes DEF StartRun, RunTypeOK
  <2>3. QED BY <1>2, <2>1, <2>2, GotoTypes DEF StartRun, RunTypeOK
<1>3. CASE BeginTurn(q)
  <2>1. \E pc \in TurnSteps : Goto(q, pc)
    BY <1>0, <1>3 DEF BeginTurn
  <2>2. status' \in [Runs -> Statuses]
    BY <1>0, <1>3, StatusTypes DEF BeginTurn, RunTypeOK
  <2>3. QED BY <1>0, <1>3, <2>1, <2>2, GotoTypes DEF BeginTurn, RunTypeOK
<1>4. ASSUME NEW end \in Ends, EndTurn(q, end) PROVE RunTypeOK'
  <2>1. ends' \in [Runs -> SUBSET Ends]
    BY <1>4, AppendTypes DEF EndTurn, RunTypeOK
  <2>2. turn' \in [Requests -> [pc : TurnSteps, end : Ends]]
    BY <1>0, <1>4 DEF EndTurn, RunTypeOK
  <2>3. QED BY <1>4, <2>1, <2>2 DEF EndTurn, RunTypeOK
<1>5. CASE Stop(q)
  <2>1. \E pc \in TurnSteps : Goto(q, pc)
    BY <1>0, <1>5 DEF Stop
  <2>2. QED BY <1>5, <2>1, GotoTypes DEF Stop, RunTypeOK
<1>6. CASE Catch(q)
  <2>1. turn' \in [Requests -> [pc : TurnSteps, end : Ends]]
    BY <1>0, <1>6 DEF Catch, RunTypeOK
  <2>2. QED BY <1>6, <2>1 DEF Catch, RunTypeOK
<1>7. CASE Finish(q)
  <2>1. \E pc \in TurnSteps : Goto(q, pc)
    BY <1>0, <1>7 DEF Finish
  <2>2. status' \in [Runs -> Statuses]
    BY <1>0, <1>7, StatusTypes DEF Finish, RunTypeOK
  <2>3. QED BY <1>7, <2>1, <2>2, GotoTypes DEF Finish, RunTypeOK
<1>8. CASE Log(q)
  <2>1. \E pc \in TurnSteps : Goto(q, pc)
    BY <1>0, <1>8 DEF Log
  <2>2. ends' \in [Runs -> SUBSET Ends]
    BY <1>0, <1>8, AppendTypes DEF Log
  <2>3. QED BY <1>8, <2>1, <2>2, GotoTypes DEF Log, RunTypeOK
<1>9. CASE Finally(q)
  <2>1. \E pc \in TurnSteps : Goto(q, pc)
    BY <1>0, <1>9 DEF Finally
  <2>2. QED BY <1>9, <2>1, GotoTypes DEF Finally, RunTypeOK
<1>10. CASE DirectReply(q)
  <2>1. \E pc \in TurnSteps : Goto(q, pc)
    BY <1>0, <1>10 DEF DirectReply
  <2>2. status' \in [Runs -> Statuses]
    BY <1>0, <1>10, StatusTypes DEF DirectReply, RunTypeOK
  <2>3. QED BY <1>10, <2>1, <2>2, GotoTypes DEF DirectReply, RunTypeOK
<1>11. CASE Throw(q)
  <2>1. \E pc \in TurnSteps : Goto(q, pc)
    BY <1>0, <1>11 DEF Throw
  <2>2. unlogged' \in [Runs -> SUBSET Ends]
    BY <1>0, <1>11, UnloggedTypes DEF Throw, RunTypeOK
  <2>3. QED BY <1>11, <2>1, <2>2, GotoTypes DEF Throw, RunTypeOK
<1>12. QED BY <1>1, <1>2, <1>3, <1>4, <1>5, <1>6, <1>7, <1>8, <1>9, <1>10, <1>11 DEF Turn

LEMMA CancelTypes ==
    ASSUME RunTypeOK, NEW c \in Cancels, Cancel(c)
    PROVE  RunTypeOK'
<1>0. "aborted" \in Statuses /\ "aborted" \in Ends
  BY DEF Statuses, Ends
<1>1. CASE CancelRead(c)
  BY <1>1 DEF CancelRead, RunTypeOK
<1>2. CASE CancelUpdate(c)
  BY <1>0, <1>2 DEF CancelUpdate, NoCancel, RunTypeOK
<1>3. CASE CancelLog(c)
  <2>1. ends' \in [Runs -> SUBSET Ends]
    BY <1>0, <1>3, AppendTypes DEF CancelLog
  <2>2. QED BY <1>3, <2>1 DEF CancelLog, NoCancel, RunTypeOK
<1>4. CASE CancelThrow(c)
  <2>1. unlogged' \in [Runs -> SUBSET Ends]
    BY <1>0, <1>4, UnloggedTypes DEF CancelThrow
  <2>2. QED BY <1>4, <2>1 DEF CancelThrow, NoCancel, RunTypeOK
<1>5. QED BY <1>1, <1>2, <1>3, <1>4 DEF Cancel

LEMMA AskTypes ==
    ASSUME SessionTypeOK, NEW q \in Requests, Ask(q) \/ Show(q)
    PROVE  SessionTypeOK'
<1>0. /\ RunTypeOK /\ {"asking", "turn"} \subseteq TurnSteps /\ "waiting_confirmation" \in Statuses
      /\ {"saved", "pending"} \subseteq Approvals /\ "awaiting_approval" \in RowStates
  BY DEF SessionTypeOK, TurnSteps, Statuses, Active, Approvals, RowStates
<1>1. turn' \in [Requests -> [pc : TurnSteps, end : Ends]]
  BY <1>0, GotoTypes DEF Ask, Show
<1>2. status' \in [Runs -> Statuses]
  BY <1>0, StatusTypes DEF Ask, Show, RunTypeOK
<1>3. approval' \in [Runs -> Approvals]
  <2>1. CASE Ask(q)
    BY <1>0, <2>1 DEF Ask, SessionTypeOK
  <2>2. CASE Show(q)
    BY <1>0, <2>2 DEF Show, SessionTypeOK
  <2>3. QED BY <2>1, <2>2
<1>a. action' \in [Rows -> RowStates]
  BY <1>0 DEF Ask, Show, SessionTypeOK
<1>4. QED BY <1>0, <1>1, <1>2, <1>3, <1>a DEF Ask, Show, SessionTypeOK, RunTypeOK

\* A confirmation request under way has read the approval of a run.
Routed == \A k \in Clicks : click[k].pc \notin {"idle", "done"} => click[k].run \in Runs

LEMMA ClickTypes ==
    ASSUME SessionTypeOK, Routed, NEW k \in Clicks, Click(k)
    PROVE  SessionTypeOK'
<1> DEFINE Records == [pc : ClickSteps, run : Runs \cup {NoRun}, item : Items, at : Runs \cup {NoRun}]
<1>0. /\ RunTypeOK /\ "completed" \in Statuses /\ "completed" \in Ends /\ "waiting_task" \in Statuses
      /\ {"consumed", "rejected"} \subseteq Approvals
      /\ {"rejected", "running", "compensation_required", "failed"} \subseteq RowStates
      /\ {"reject", "rejectAction", "close", "closing", "closed", "consume", "done", "executing",
          "linking", "parking", "waiting", "announcing", "catch", "accepted"} \subseteq ClickSteps
  BY DEF SessionTypeOK, Statuses, Ends, Active, Approvals, RowStates, ClickSteps, Consumed
<1>1. ASSUME NEW r \in Runs, ReadApproval(k, r) PROVE SessionTypeOK'
  <2>a. PICK pc \in ClickSteps : click' = [click EXCEPT ![k] = [@ EXCEPT !.pc = pc, !.run = r]]
    BY <1>0, <1>1 DEF ReadApproval
  <2>1. click' \in [Clicks -> Records]
    BY <2>a DEF SessionTypeOK
  <2>2. QED BY <1>1, <2>1 DEF ReadApproval, SessionTypeOK, RunTypeOK, runVars
<1>2. CASE RejectApproval(k) \/ RejectAction(k) \/ Consume(k) \/ Refuse(k) \/ AcceptCatch(k) \/ Announce(k)
  <2>1. \E pc \in ClickSteps : Move(k, pc)
    BY <1>0, <1>2 DEF RejectApproval, RejectAction, Consume, Refuse, AcceptCatch, Announce
  <2>2. approval' \in [Runs -> Approvals]
    BY <1>0, <1>2 DEF RejectApproval, RejectAction, Consume, Refuse, AcceptCatch, Announce, SessionTypeOK
  <2>a. action' \in [Rows -> RowStates]
    BY <1>0, <1>2 DEF RejectApproval, RejectAction, Consume, Refuse, AcceptCatch, Announce, SessionTypeOK
  <2>3. UNCHANGED <<runVars, linked, task, notice, counted, call>>
    BY <1>2 DEF RejectApproval, RejectAction, Consume, Refuse, AcceptCatch, Announce
  <2>4. QED BY <2>1, <2>2, <2>a, <2>3, MoveTypes DEF SessionTypeOK, RunTypeOK, runVars
<1>3. CASE RejectFind(k) \/ FindRun(k)
  <2>1. ASSUME NEW x \in Runs \cup {NoRun}, NEW pc \in ClickSteps,
               click' = [click EXCEPT ![k] = [@ EXCEPT !.pc = pc, !.at = x]]
        PROVE  click' \in [Clicks -> Records]
    BY <2>1 DEF SessionTypeOK
  <2>2. click' \in [Clicks -> Records]
    BY <1>0, <1>3, <2>1, MoveTypes DEF RejectFind, FindRun
  <2>3. QED BY <1>3, <2>2 DEF RejectFind, FindRun, SessionTypeOK, RunTypeOK, runVars
<1>4. CASE RejectClose(k) \/ Wait(k)
  <2>1. \E pc \in ClickSteps : Move(k, pc)
    BY <1>0, <1>4 DEF RejectClose, Wait
  <2>2. status' \in [Runs -> Statuses]
    BY <1>0, <1>4, StatusTypes DEF RejectClose, Wait, RunTypeOK
  <2>3. QED BY <1>4, <2>1, <2>2, MoveTypes DEF RejectClose, Wait, SessionTypeOK, RunTypeOK
<1>5. CASE RejectLog(k)
  <2>1. ends' \in [Runs -> SUBSET Ends] /\ unlogged' \in [Runs -> SUBSET Ends]
    BY <1>0, <1>5, AppendTypes, UnloggedTypes DEF RejectLog, RunTypeOK
  <2>2. QED BY <1>0, <1>5, <2>1, MoveTypes DEF RejectLog, SessionTypeOK, RunTypeOK
<1>6. ASSUME NEW state \in TaskStates, Execute(k, state) PROVE SessionTypeOK'
  <2>1. click' \in [Clicks -> Records]
    BY <1>0, <1>6, AdvanceTypes DEF Execute
  <2>2. QED BY <1>6, <2>1 DEF Execute, SessionTypeOK, RunTypeOK, runVars
<1>7. ASSUME NEW frozen \in BOOLEAN, ExecuteFails(k, frozen) PROVE SessionTypeOK'
  <2>1. task' \in [Tasks -> TaskStates]
    BY <1>7 DEF ExecuteFails, SessionTypeOK, TaskStates
  <2>2. QED BY <1>0, <1>7, <2>1, MoveTypes DEF ExecuteFails, SessionTypeOK, RunTypeOK, runVars
<1>8. CASE Link(k)
  <2>0. <<click[k].run, click[k].item>> \in Tasks
    BY <1>8 DEF Link, At, Routed, SessionTypeOK, Tasks
  <2>1. click' \in [Clicks -> Records]
    BY <1>0, <1>8, AdvanceTypes DEF Link
  <2>2. action' \in [Rows -> RowStates]
    BY <1>0, <1>8 DEF Link, SessionTypeOK
  <2>3. QED BY <1>8, <2>0, <2>1, <2>2 DEF Link, SessionTypeOK, RunTypeOK, runVars
<1>9. QED BY <1>1, <1>2, <1>3, <1>4, <1>5, <1>6, <1>7, <1>8 DEF Click

LEMMA CallTypes ==
    ASSUME SessionTypeOK, NEW b \in Callbacks, Callback(b)
    PROVE  SessionTypeOK'
<1> DEFINE Records == [pc : CallSteps, task : Tasks \cup {NoTask}, out : Outcomes]
<1>0. /\ RunTypeOK /\ {"completed", "failed", "waiting_task"} \subseteq Statuses
      /\ {"completed", "failed"} \subseteq Ends
      /\ Outcomes \subseteq RowStates /\ Outcomes = {"succeeded", "failed"}
      /\ "starting" \in TurnSteps
      /\ {"finding", "marking", "reading", "appending", "deciding", "waiting", "finishing",
          "logging", "continuing", "done"} \subseteq CallSteps
      /\ call[b] \in Records
  BY DEF SessionTypeOK, Statuses, Ends, Active, Outcomes, RowStates, TurnSteps, CallSteps
<1>1. ASSUME NEW t \in Tasks, NEW out \in Outcomes, Notify(b, t, out) PROVE SessionTypeOK'
  <2>1. call' \in [Callbacks -> Records]
    BY <1>0, <1>1 DEF Notify, SessionTypeOK
  <2>2. QED BY <1>1, <2>1 DEF Notify, SessionTypeOK, RunTypeOK, runVars
<1>2. CASE FindTask(b) \/ ReadRun(b) \/ AppendStatus(b)
  <2>1. \E pc \in CallSteps : Go(b, pc)
    BY <1>0, <1>2 DEF FindTask, ReadRun, AppendStatus
  <2>2. QED BY <1>2, <2>1, GoTypes DEF FindTask, ReadRun, AppendStatus, SessionTypeOK, RunTypeOK, runVars
<1>3. CASE Mark(b)
  <2>1. \E pc \in CallSteps : Go(b, pc)
    BY <1>0, <1>3 DEF Mark
  <2>2. notice' \in [Tasks -> Outcomes \cup {"none"}]
    BY <1>0, <1>3 DEF Mark, SessionTypeOK
  <2>3. action' \in [Rows -> RowStates]
    BY <1>0, <1>3 DEF Mark, SessionTypeOK
  <2>4. QED BY <1>3, <2>1, <2>2, <2>3, GoTypes DEF Mark, SessionTypeOK, RunTypeOK, runVars
<1>4. CASE Decide(b)
  <2>0. \/ counted' = counted
        \/ counted' = [counted EXCEPT ![call[b].task] = counted[call[b].task] + 1]
    BY <1>4 DEF Decide
  <2>1. counted' \in [Tasks -> Nat]
    BY ONLY <2>0, SessionTypeOK DEF SessionTypeOK
  <2>2. call' \in [Callbacks -> Records]
    BY <1>0, <1>4 DEF Decide, SessionTypeOK
  <2>3. QED BY <1>4, <2>1, <2>2 DEF Decide, SessionTypeOK, RunTypeOK, runVars
<1>5. CASE WaitMore(b) \/ FinishRun(b)
  <2>1. \E pc \in CallSteps : Go(b, pc)
    BY <1>0, <1>5 DEF WaitMore, FinishRun
  <2>2. status' \in [Runs -> Statuses]
    BY <1>0, <1>5, StatusTypes DEF WaitMore, FinishRun, RunOutcome, RunTypeOK
  <2>3. QED BY <1>5, <2>1, <2>2, GoTypes DEF WaitMore, FinishRun, SessionTypeOK, RunTypeOK
<1>6. CASE LogRun(b)
  <2>1. ends' \in [Runs -> SUBSET Ends] /\ unlogged' \in [Runs -> SUBSET Ends]
    BY <1>0, <1>6, AppendTypes, UnloggedTypes DEF LogRun, RunOutcome, RunTypeOK
  <2>2. call' \in [Callbacks -> Records]
    BY <1>0, <1>6, GoTypes DEF LogRun
  <2>3. QED BY <1>0, <1>6, <2>1, <2>2 DEF LogRun, SessionTypeOK, RunTypeOK
<1>7. CASE Continue(b)
  <2>1. turn' \in [Requests -> [pc : TurnSteps, end : Ends]]
    BY <1>0, <1>7 DEF Continue, RunTypeOK
  <2>2. QED BY <1>0, <1>7, <2>1, GoTypes DEF Continue, SessionTypeOK, RunTypeOK
<1>8. QED BY <1>1, <1>2, <1>3, <1>4, <1>5, <1>6, <1>7 DEF Callback

-----------------------------------------------------------------------------
(* What a step writes *)

LEMMA GotoWrites ==
    ASSUME RunTypeOK, NEW q \in Requests, NEW pc, Goto(q, pc)
    PROVE  /\ turn'[q].pc = pc /\ (pc # "done" => turn'[q].end = turn[q].end)
           /\ \A p \in Requests \ {q} : turn'[p] = turn[p]
BY DEF RunTypeOK, Goto

LEMMA MoveWrites ==
    ASSUME SessionTypeOK, NEW k \in Clicks, NEW pc, Move(k, pc)
    PROVE  /\ click'[k].pc = pc
           /\ pc # "done" => /\ click'[k].run = click[k].run /\ click'[k].item = click[k].item
                            /\ click'[k].at = click[k].at
           /\ \A l \in Clicks \ {k} : click'[l] = click[l]
BY DEF SessionTypeOK, Move, NoClick

LEMMA AdvanceWrites ==
    ASSUME SessionTypeOK, NEW k \in Clicks, NEW pc, Advance(k, pc)
    PROVE  /\ click'[k].run = click[k].run /\ click'[k].at = click[k].at
           /\ \/ /\ click[k].item + 1 \in Items
                 /\ click'[k].pc = click[k].pc /\ click'[k].item = click[k].item + 1
              \/ click'[k].pc = pc /\ click'[k].item = 1
           /\ \A l \in Clicks \ {k} : click'[l] = click[l]
<1>0. click[k] \in [pc : ClickSteps, run : Runs \cup {NoRun}, item : Items, at : Runs \cup {NoRun}]
  BY DEF SessionTypeOK
<1>1. CASE click[k].item + 1 \in Items
  BY <1>0, <1>1 DEF Advance, SessionTypeOK
<1>2. CASE click[k].item + 1 \notin Items
  <2>1. click' = [click EXCEPT ![k] = [click[k] EXCEPT !.item = 1, !.pc = pc]]
    BY <1>2 DEF Advance
  <2>2. QED BY <1>0, <2>1 DEF SessionTypeOK
<1>3. QED BY <1>1, <1>2

LEMMA GoWrites ==
    ASSUME SessionTypeOK, NEW b \in Callbacks, NEW pc, Go(b, pc)
    PROVE  /\ call'[b].pc = pc
           /\ pc # "done" => call'[b].task = call[b].task /\ call'[b].out = call[b].out
           /\ \A d \in Callbacks \ {b} : call'[d] = call[d]
BY DEF SessionTypeOK, Go, NoCall

\* A confirmation keeps its run from the read of the approval to its end.
LEMMA ClickWrites ==
    ASSUME SessionTypeOK, Routed, NEW k \in Clicks, Click(k)
    PROVE  /\ \A l \in Clicks \ {k} : click'[l] = click[l]
           /\ click'[k].pc \notin {"idle", "done"} =>
                  \/ click'[k].run = click[k].run /\ click[k].pc \notin {"idle", "done"}
                  \/ click'[k].pc \in {"reject", "consume"} /\ click'[k].run \in Runs
<1>0. click[k] \in [pc : ClickSteps, run : Runs \cup {NoRun}, item : Items, at : Runs \cup {NoRun}]
  BY DEF SessionTypeOK
<1>1. ASSUME NEW r \in Runs, ReadApproval(k, r)
      PROVE  /\ \A l \in Clicks \ {k} : click'[l] = click[l]
             /\ click'[k].pc \in {"reject", "consume"} /\ click'[k].run \in Runs
  BY <1>0, <1>1 DEF ReadApproval, SessionTypeOK
<1>2. ASSUME NEW pc, Move(k, pc), click[k].pc \notin {"idle", "done"}
      PROVE  /\ \A l \in Clicks \ {k} : click'[l] = click[l]
             /\ click'[k].pc # "done" => click'[k].run = click[k].run
  BY <1>2, MoveWrites
<1>3. ASSUME NEW x, NEW pc, click' = [click EXCEPT ![k] = [@ EXCEPT !.pc = pc, !.at = x]]
      PROVE  /\ \A l \in Clicks \ {k} : click'[l] = click[l]
             /\ click'[k].run = click[k].run
  <2>1. click' = [click EXCEPT ![k] = [click[k] EXCEPT !.pc = pc, !.at = x]]
    BY <1>3
  <2>2. click \in [Clicks -> [pc : ClickSteps, run : Runs \cup {NoRun}, item : Items, at : Runs \cup {NoRun}]]
    BY DEF SessionTypeOK
  <2>3. QED BY ONLY <1>0, <2>1, <2>2, k \in Clicks
<1>4. CASE RejectFind(k) \/ FindRun(k)
  BY <1>2, <1>3, <1>4 DEF RejectFind, FindRun, At
<1>5. ASSUME NEW state, Execute(k, state)
      PROVE  /\ \A l \in Clicks \ {k} : click'[l] = click[l]
             /\ click'[k].run = click[k].run /\ click[k].pc \notin {"idle", "done"}
  BY <1>5, AdvanceWrites DEF Execute, At
<1>6. CASE Link(k)
  BY <1>6, AdvanceWrites DEF Link, At
<1>7. ASSUME NEW frozen \in BOOLEAN, ExecuteFails(k, frozen)
      PROVE  /\ \A l \in Clicks \ {k} : click'[l] = click[l]
             /\ click'[k].run = click[k].run /\ click[k].pc \notin {"idle", "done"}
  <2>1. Move(k, "catch") /\ click[k].pc = "executing"
    BY <1>7 DEF ExecuteFails, At
  <2>2. QED BY <2>1, MoveWrites
<1>8. CASE RejectApproval(k) \/ RejectAction(k) \/ RejectClose(k) \/ RejectLog(k)
  BY <1>2, <1>8 DEF RejectApproval, RejectAction, RejectClose, RejectLog, At
<1>9. CASE Consume(k) \/ Refuse(k) \/ Wait(k) \/ Announce(k) \/ AcceptCatch(k)
  BY <1>2, <1>9 DEF Consume, Refuse, Wait, Announce, AcceptCatch, At
<1>10. QED BY <1>1, <1>4, <1>5, <1>6, <1>7, <1>8, <1>9 DEF Click

TypeInv == SessionTypeOK /\ Routed

\* A restart leaves the requests that have yet to come, and ends the others.
LEMMA RestartWrites ==
    ASSUME Restart
    PROVE  /\ \A q \in Requests : IF turn[q].pc = "idle" THEN turn'[q] = turn[q] ELSE turn'[q].pc = "done"
           /\ \A k \in Clicks : (click'[k] = click[k] /\ click[k].pc = "idle") \/ click'[k].pc = "done"
           /\ \A b \in Callbacks : (call'[b] = call[b] /\ call[b].pc = "idle") \/ call'[b].pc = "done"
<1>1. \A q \in Requests : IF turn[q].pc = "idle" THEN turn'[q] = turn[q] ELSE turn'[q].pc = "done"
  <2>1. ASSUME NEW q \in Requests, turn[q].pc = "idle" PROVE turn'[q] = turn[q]
    BY <2>1 DEF Restart
  <2>2. ASSUME NEW q \in Requests, turn[q].pc # "idle" PROVE turn'[q].pc = "done"
    <3>1. turn'[q] = [pc |-> "done", end |-> "completed"]
      BY <2>2 DEF Restart
    <3>2. QED BY <3>1
  <2>3. QED BY ONLY <2>1, <2>2
<1>2. \A k \in Clicks : (click'[k] = click[k] /\ click[k].pc = "idle") \/ click'[k].pc = "done"
  BY DEF Restart, At, NoClick
<1>3. \A b \in Callbacks : (call'[b] = call[b] /\ call[b].pc = "idle") \/ call'[b].pc = "done"
  BY DEF Restart, In, NoCall
<1>4. QED BY ONLY <1>1, <1>2, <1>3

LEMMA RestartTypes ==
    ASSUME TypeInv, Restart
    PROVE  TypeInv'
<1>0. /\ SessionTypeOK /\ RunTypeOK /\ "done" \in TurnSteps /\ "completed" \in Ends
      /\ NoClick \in [pc : ClickSteps, run : Runs \cup {NoRun}, item : Items, at : Runs \cup {NoRun}]
      /\ NoCall \in [pc : CallSteps, task : Tasks \cup {NoTask}, out : Outcomes]
  BY SessionAssumption DEF TypeInv, SessionTypeOK, TurnSteps, Ends, NoClick, ClickSteps,
                           NoCall, CallSteps, Outcomes
<1>1. unlogged' \in [Runs -> SUBSET Ends]
  BY <1>0 DEF Restart, RunTypeOK
<1>2. RunTypeOK'
  BY <1>0, <1>1 DEF Restart, NoCancel, RunTypeOK
<1>3. /\ click' \in [Clicks -> [pc : ClickSteps, run : Runs \cup {NoRun}, item : Items, at : Runs \cup {NoRun}]]
      /\ call' \in [Callbacks -> [pc : CallSteps, task : Tasks \cup {NoTask}, out : Outcomes]]
  BY <1>0 DEF Restart, SessionTypeOK
<1>4. Routed'
  BY RestartWrites DEF Routed
<1>5. QED BY <1>0, <1>2, <1>3, <1>4 DEF Restart, TypeInv, SessionTypeOK

LEMMA InitTypes == Init => TypeInv
<1> SUFFICES ASSUME Init PROVE TypeInv
  OBVIOUS
<1>1. RunTypeOK
  BY DEF Init, RunInit, RunTypeOK, Statuses, TurnSteps, Ends
<1>2. SessionTypeOK
  BY <1>1, SessionAssumption
     DEF Init, SessionTypeOK, Approvals, RowStates, TaskStates, ClickSteps, CallSteps, Outcomes
<1>3. QED BY <1>2 DEF Init, TypeInv, Routed

LEMMA TypeStep ==
    ASSUME TypeInv, [Next]_vars
    PROVE  TypeInv'
<1>0. SessionTypeOK /\ Routed /\ RunTypeOK
  BY DEF TypeInv, SessionTypeOK
<1>1. ASSUME NEW q \in Requests, Turn(q), UNCHANGED askVars PROVE TypeInv'
  BY <1>0, <1>1, TurnTypes DEF askVars, TypeInv, SessionTypeOK, Routed
<1>2. ASSUME NEW c \in Cancels, Cancel(c), UNCHANGED askVars PROVE TypeInv'
  BY <1>0, <1>2, CancelTypes DEF askVars, TypeInv, SessionTypeOK, Routed
<1>3. ASSUME NEW q \in Requests, Ask(q) \/ Show(q) PROVE TypeInv'
  BY <1>0, <1>3, AskTypes DEF Ask, Show, TypeInv, Routed
<1>4. ASSUME NEW k \in Clicks, Click(k) PROVE TypeInv'
  <2>1. Routed'
    BY <1>0, <1>4, ClickWrites DEF Routed
  <2>2. QED BY <1>0, <1>4, <2>1, ClickTypes DEF TypeInv
<1>5. ASSUME NEW b \in Callbacks, Callback(b) PROVE TypeInv'
  <2>1. click' = click
    BY <1>5 DEF Callback, Notify, FindTask, Mark, ReadRun, AppendStatus, Decide, WaitMore,
                FinishRun, LogRun, Continue
  <2>2. QED BY <1>0, <1>5, <2>1, CallTypes DEF TypeInv, Routed
<1>6. CASE UNCHANGED vars
  BY <1>0, <1>6 DEF vars, runVars, askVars, TypeInv, SessionTypeOK, RunTypeOK, Routed
<1>7. QED BY <1>1, <1>2, <1>3, <1>4, <1>5, <1>6, RestartTypes DEF Next

\* Statuses, rows, notices and the steps of the handlers keep their types.
THEOREM SessionTyping == Spec => []SessionTypeOK
<1>1. TypeInv => SessionTypeOK
  BY DEF TypeInv
<1>2. QED BY <1>1, InitTypes, TypeStep, PTL DEF Spec

-----------------------------------------------------------------------------
(* One active run *)

\* A status that the unique index allows, or that leaves the run over.
LEMMA WriteAllowed ==
    ASSUME SessionTypeOK, OneActiveRun, NEW r \in Runs, NEW s, s \in Active => Allowed(r, s),
           status' = [status EXCEPT ![r] = s]
    PROVE  OneActiveRun'
<1>1. \A x \in Runs : status'[x] = IF x = r THEN s ELSE status[x]
  BY DEF SessionTypeOK, RunTypeOK
<1>2. s \in Active => \A x \in Runs \ {r} : status[x] \notin Active
  BY DEF Allowed, IsActive
<1>3. QED BY ONLY <1>1, <1>2, OneActiveRun DEF OneActiveRun, IsActive

LEMMA OneActiveStep ==
    ASSUME TypeInv, OneActiveRun, [Next]_vars
    PROVE  OneActiveRun'
<1>0. /\ SessionTypeOK /\ RunTypeOK /\ Routed
      /\ "completed" \notin Active /\ "failed" \notin Active /\ "aborted" \notin Active
      /\ Ends \cap Active = {} /\ NoRun \notin Runs
  BY RunAssumption DEF TypeInv, SessionTypeOK, Active, Ends
<1>1. CASE UNCHANGED status
  BY <1>1 DEF OneActiveRun, IsActive
<1>2. ASSUME NEW r, r \notin Runs, NEW s, status' = [status EXCEPT ![r] = s]
      PROVE  UNCHANGED status
  BY <1>0, <1>2 DEF RunTypeOK
<1>3. ASSUME NEW q \in Requests, Turn(q) PROVE OneActiveRun'
  <2>0. RunOf[q] \in Runs /\ turn[q].end \in Ends
    BY <1>0, RunAssumption DEF RunTypeOK
  <2>1. CASE StartRun(q)
    BY <1>0, <1>1, <2>0, <2>1, WriteAllowed DEF StartRun
  <2>2. CASE BeginTurn(q)
    BY <1>0, <1>1, <2>0, <2>2, WriteAllowed DEF BeginTurn
  <2>3. CASE Finish(q)
    BY <1>0, <1>1, <2>0, <2>3, WriteAllowed DEF Finish
  <2>4. CASE Look(q) \/ PrepareFails(q) \/ (\E end \in Ends : EndTurn(q, end)) \/ Throw(q) \/ Stop(q)
             \/ Check(q) \/ Catch(q) \/ Log(q) \/ Finally(q) \/ Answer(q)
    BY <1>1, <2>4 DEF Look, PrepareFails, EndTurn, Throw, Stop, Check, Catch, Log, Finally, Answer
  <2>5. CASE DirectReply(q)
    BY <1>0, <1>1, <2>0, <2>5, WriteAllowed DEF DirectReply
  <2>6. QED BY <1>3, <2>1, <2>2, <2>3, <2>4, <2>5 DEF Turn
<1>4. ASSUME NEW c \in Cancels, Cancel(c) PROVE OneActiveRun'
  BY <1>0, <1>1, <1>2, <1>4, WriteAllowed DEF Cancel, CancelRead, CancelUpdate, CancelLog, CancelThrow
<1>5. ASSUME NEW q \in Requests, Ask(q) \/ Show(q) PROVE OneActiveRun'
  BY <1>0, <1>1, <1>5, WriteAllowed, RunAssumption DEF Ask, Show
<1>6. ASSUME NEW k \in Clicks, Click(k) PROVE OneActiveRun'
  <2>1. CASE RejectClose(k)
    BY <1>0, <1>1, <1>2, <2>1, WriteAllowed DEF RejectClose
  <2>2. CASE Wait(k)
    BY <1>0, <1>1, <1>2, <2>2, WriteAllowed DEF Wait
  <2>3. CASE ~ RejectClose(k) /\ ~ Wait(k)
    <3>1. UNCHANGED status
      BY <1>6, <2>3 DEF Click, ReadApproval, RejectApproval, RejectAction, RejectFind, RejectLog, Consume,
                        Refuse, Execute, ExecuteFails, Link, FindRun, Announce, AcceptCatch, runVars
    <3>2. QED BY <1>1, <3>1
  <2>4. QED BY <2>1, <2>2, <2>3
<1>7. ASSUME NEW b \in Callbacks, Callback(b) PROVE OneActiveRun'
  <2>1. CASE WaitMore(b)
    BY <1>0, <1>1, <1>2, <2>1, WriteAllowed DEF WaitMore
  <2>2. CASE FinishRun(b)
    BY <1>0, <1>1, <1>2, <2>2, WriteAllowed DEF FinishRun, RunOutcome
  <2>3. CASE ~ WaitMore(b) /\ ~ FinishRun(b)
    <3>1. UNCHANGED status
      BY <1>7, <2>3 DEF Callback, Notify, FindTask, Mark, ReadRun, AppendStatus, Decide, LogRun, Continue, runVars
    <3>2. QED BY <1>1, <3>1
  <2>4. QED BY <2>1, <2>2, <2>3
<1>8. CASE UNCHANGED vars
  BY <1>1, <1>8 DEF vars, runVars
<1>9. CASE Restart
  BY <1>1, <1>9 DEF Restart
<1>10. QED BY <1>3, <1>4, <1>5, <1>6, <1>7, <1>8, <1>9 DEF Next

\* However the handlers overlap, two runs of a session are never active at once.
THEOREM SingleActiveRun == Spec => []OneActiveRun
<1>1. Init => TypeInv /\ OneActiveRun
  BY InitTypes DEF Init, RunInit, OneActiveRun, IsActive, Active
<1>2. TypeInv /\ OneActiveRun /\ [Next]_vars => TypeInv' /\ OneActiveRun'
  BY TypeStep, OneActiveStep
<1>3. QED BY <1>1, <1>2, PTL DEF Spec

-----------------------------------------------------------------------------
(* Confirmations *)

\* A turn that has saved an approval is the only one of its run that shows it.
Saved == /\ \A q \in Requests : turn[q].pc = "asking" => approval[RunOf[q]] = "saved"
         /\ \A p, q \in Requests :
                turn[p].pc = "asking" /\ turn[q].pc = "asking" /\ RunOf[p] = RunOf[q] => p = q

Executes == \A k \in Clicks : click[k].pc \in Consumed => approval[click[k].run] = "consumed"

\* The items that an accepted confirmation has yet to link are not linked.
Unlinked == \A k \in Clicks, j \in Items :
                \/ click[k].pc = "executing"
                \/ click[k].pc = "linking" /\ j >= click[k].item
                => <<click[k].run, j>> \notin linked

LinkedConsent == \A r \in Runs, j \in Items : <<r, j>> \in linked => approval[r] = "consumed"

TaskConsent == \A r \in Runs, j \in Items : task[<<r, j>>] # "none" => approval[r] = "consumed"

ConsentInv == Saved /\ Executes /\ ConsumedOnce /\ Unlinked /\ LinkedConsent /\ TaskConsent

LEMMA TaskConsentIs == TaskConsent <=> ConsentBeforeTask
<1>1. \A r \in Runs, j \in Items : <<r, j>> \in Tasks /\ <<r, j>>[1] = r
  BY DEF Tasks
<1>2. \A t \in Tasks : \E r \in Runs, j \in Items : t = <<r, j>> /\ t[1] = r
  BY DEF Tasks
<1>3. QED BY ONLY <1>1, <1>2 DEF TaskConsent, ConsentBeforeTask

\* Steps that leave the confirmations alone.
LEMMA ConsentKept ==
    ASSUME ConsentInv, UNCHANGED <<approval, click, linked, task>>,
           \A q \in Requests : turn'[q].pc = "asking" => turn[q].pc = "asking"
    PROVE  ConsentInv'
<1>1. Saved'
  BY DEF ConsentInv, Saved
<1>2. QED BY <1>1 DEF ConsentInv, Executes, ConsumedOnce, Unlinked, LinkedConsent, TaskConsent

\* Approvals only change where nobody has consumed them.
LEMMA ApprovalWritten ==
    ASSUME SessionTypeOK, ConsentInv, NEW r \in Runs, NEW s, approval[r] # "consumed",
           approval' = [approval EXCEPT ![r] = s], UNCHANGED <<linked, task>>
    PROVE  /\ LinkedConsent' /\ TaskConsent'
           /\ \A x \in Runs : x # r => approval'[x] = approval[x]
           /\ \A x \in Runs : approval[x] = "consumed" => approval'[x] = "consumed"
           /\ approval'[r] = s
<1>1. \A x \in Runs : approval'[x] = IF x = r THEN s ELSE approval[x]
  BY DEF SessionTypeOK
<1>2. LinkedConsent' /\ TaskConsent'
  BY <1>1 DEF ConsentInv, LinkedConsent, TaskConsent
<1>3. QED BY <1>1, <1>2

LEMMA AskConsent ==
    ASSUME TypeInv, ConsentInv, NEW q \in Requests, Ask(q) \/ Show(q)
    PROVE  /\ ConsentInv'
           /\ \A r \in Runs : approval[r] \in {"consumed", "rejected"} => approval'[r] = approval[r]
<1>0. SessionTypeOK /\ RunTypeOK /\ Routed /\ RunOf[q] \in Runs /\ \A p \in Requests : RunOf[p] \in Runs
  BY RunAssumption DEF TypeInv, SessionTypeOK
<1>1. UNCHANGED <<linked, task, click>>
  BY DEF Ask, Show
<1>2. ASSUME NEW s, approval' = [approval EXCEPT ![RunOf[q]] = s], approval[RunOf[q]] \in {"none", "saved"}
      PROVE  /\ Executes' /\ ConsumedOnce' /\ Unlinked' /\ LinkedConsent' /\ TaskConsent'
             /\ \A r \in Runs : approval[r] \in {"consumed", "rejected"} => approval'[r] = approval[r]
  <2>1. /\ LinkedConsent' /\ TaskConsent'
        /\ \A x \in Runs : x # RunOf[q] => approval'[x] = approval[x]
        /\ \A x \in Runs : approval[x] = "consumed" => approval'[x] = "consumed"
    BY <1>0, <1>1, <1>2, ApprovalWritten
  <2>2. Executes'
    <3>1. \A k \in Clicks : click[k].pc \in Consumed => click[k].run \in Runs
      BY <1>0 DEF Routed, Consumed
    <3>2. QED BY <1>1, <2>1, <3>1 DEF ConsentInv, Executes
  <2>3. ConsumedOnce' /\ Unlinked'
    BY <1>1 DEF ConsentInv, ConsumedOnce, Unlinked
  <2>4. \A r \in Runs : approval[r] \in {"consumed", "rejected"} => approval'[r] = approval[r]
    BY <1>2, <2>1
  <2>5. QED BY <2>1, <2>2, <2>3, <2>4
<1>3. CASE Ask(q)
  <2>1. /\ approval[RunOf[q]] = "none" /\ approval' = [approval EXCEPT ![RunOf[q]] = "saved"]
        /\ Goto(q, "asking")
    BY <1>3 DEF Ask
  <2>2. /\ turn'[q].pc = "asking" /\ \A p \in Requests \ {q} : turn'[p] = turn[p]
        /\ \A x \in Runs : approval'[x] = IF x = RunOf[q] THEN "saved" ELSE approval[x]
    BY <1>0, <2>1, GotoWrites DEF SessionTypeOK
  <2>3. Saved'
    BY <1>0, <2>1, <2>2 DEF ConsentInv, Saved
  <2>4. QED BY <1>2, <2>1, <2>3 DEF ConsentInv
<1>4. CASE Show(q)
  <2>1. Goto(q, "turn") /\ turn[q].pc = "asking" /\ approval[RunOf[q]] = "saved"
    BY <1>4 DEF Show, ConsentInv, Saved
  <2>2. turn'[q].pc = "turn" /\ \A p \in Requests \ {q} : turn'[p] = turn[p]
    BY <1>0, <2>1, GotoWrites
  <2>3. CASE approval' = approval
    BY <1>1, <2>2, <2>3, ConsentKept
  <2>4. CASE approval' = [approval EXCEPT ![RunOf[q]] = "pending"]
    <3>1. \A x \in Runs : approval'[x] = IF x = RunOf[q] THEN "pending" ELSE approval[x]
      BY <1>0, <2>4 DEF SessionTypeOK
    <3>2. Saved'
      BY <1>0, <2>1, <2>2, <3>1 DEF ConsentInv, Saved
    <3>3. QED BY <1>2, <2>1, <2>4, <3>2 DEF ConsentInv
  <2>5. QED BY <1>4, <2>3, <2>4 DEF Show
<1>5. QED BY <1>3, <1>4

\* A confirmation request moves on, links nothing and leaves the approvals alone.
LEMMA ClickKept ==
    ASSUME ConsentInv, NEW k \in Clicks, UNCHANGED <<approval, turn, linked, task>>,
           \A l \in Clicks \ {k} : click'[l] = click[l],
           click'[k].pc \notin {"executing", "linking"},
           click'[k].pc \in Consumed => click[k].pc \in Consumed /\ click'[k].run = click[k].run
    PROVE  ConsentInv'
<1>1. Saved' /\ LinkedConsent' /\ TaskConsent'
  BY DEF ConsentInv, Saved, LinkedConsent, TaskConsent
<1>2. \A l \in Clicks : click'[l].pc \in Consumed => click[l].pc \in Consumed /\ click'[l].run = click[l].run
  OBVIOUS
<1>3. Executes' /\ ConsumedOnce'
  BY <1>2 DEF ConsentInv, Executes, ConsumedOnce
<1>4. Unlinked'
  BY DEF ConsentInv, Unlinked
<1>5. QED BY <1>1, <1>3, <1>4 DEF ConsentInv

\* The pending approval of the request's run gets the status s.
LEMMA ClickDecides ==
    ASSUME TypeInv, ConsentInv, NEW k \in Clicks, NEW s \in {"consumed", "rejected"}, UNCHANGED <<turn, linked, task>>,
           click[k].run \in Runs, click[k].pc \notin Consumed, approval[click[k].run] = "pending",
           approval' = [approval EXCEPT ![click[k].run] = s],
           \A l \in Clicks \ {k} : click'[l] = click[l],
           click'[k].run = click[k].run, click'[k].pc # "linking",
           click'[k].pc \in Consumed => s = "consumed"
    PROVE  ConsentInv'
<1>0. PICK r \in Runs : r = click[k].run
  OBVIOUS
<1>1. /\ LinkedConsent' /\ TaskConsent'
      /\ \A x \in Runs : x # r => approval'[x] = approval[x]
      /\ \A x \in Runs : approval[x] = "consumed" => approval'[x] = "consumed"
      /\ approval'[r] = s
  <2>1. /\ SessionTypeOK /\ approval[r] # "consumed" /\ approval' = [approval EXCEPT ![r] = s]
        /\ UNCHANGED <<linked, task>>
    BY <1>0 DEF TypeInv
  <2>2. QED BY ONLY <2>1, ConsentInv, r \in Runs, ApprovalWritten
<1>2. Saved'
  BY <1>0, <1>1, RunAssumption DEF ConsentInv, Saved
<1>3. \A l \in Clicks : click[l].pc \in Consumed => click[l].run \in Runs /\ click[l].run # r
  BY <1>0 DEF TypeInv, Routed, Consumed, ConsentInv, Executes
<1>4. Executes'
  BY <1>0, <1>1, <1>3 DEF ConsentInv, Executes
<1>5. ConsumedOnce'
  BY <1>0, <1>3 DEF ConsentInv, ConsumedOnce
<1>6. \A j \in Items : <<r, j>> \notin linked
  BY <1>0 DEF ConsentInv, LinkedConsent
<1>7. Unlinked'
  BY <1>0, <1>6 DEF ConsentInv, Unlinked
<1>8. QED BY <1>1, <1>2, <1>4, <1>5, <1>7 DEF ConsentInv

\* A task is made for the item that the request executes.
LEMMA TaskMade ==
    ASSUME TypeInv, ConsentInv, NEW k \in Clicks, click[k].pc = "executing", NEW s,
           task' = [task EXCEPT ![<<click[k].run, click[k].item>>] = s] \/ task' = task,
           approval' = approval
    PROVE  TaskConsent'
<1>0. PICK r \in Runs, i \in Items : r = click[k].run /\ i = click[k].item
  BY DEF TypeInv, Routed, SessionTypeOK
<1>1. \A x \in Runs, j \in Items : task'[<<x, j>>] # task[<<x, j>>] => x = r
  BY <1>0 DEF TypeInv, SessionTypeOK, Tasks
<1>2. approval[r] = "consumed"
  BY <1>0 DEF ConsentInv, Executes, Consumed
<1>3. QED BY <1>1, <1>2 DEF ConsentInv, TaskConsent

LEMMA ExecuteConsent ==
    ASSUME TypeInv, ConsentInv, NEW k \in Clicks, NEW state \in TaskStates, Execute(k, state)
    PROVE  ConsentInv'
<1>0. /\ SessionTypeOK /\ click[k].pc = "executing" /\ Advance(k, "linking")
      /\ UNCHANGED <<approval, linked, turn>>
  BY DEF Execute, At, TypeInv, runVars
<1>1. TaskConsent'
  BY <1>0, TaskMade DEF Execute
<1>2. /\ click'[k].run = click[k].run /\ click'[k].pc \in {"executing", "linking"}
      /\ \A l \in Clicks \ {k} : click'[l] = click[l]
  BY <1>0, AdvanceWrites
<1>3. Saved' /\ LinkedConsent'
  BY <1>0 DEF ConsentInv, Saved, LinkedConsent
<1>4. \A l \in Clicks : click'[l].pc \in Consumed => click[l].pc \in Consumed /\ click'[l].run = click[l].run
  BY <1>0, <1>2 DEF Consumed
<1>5. Executes' /\ ConsumedOnce'
  BY <1>0, <1>4 DEF ConsentInv, Executes, ConsumedOnce
<1>6. Unlinked'
  BY <1>0, <1>2 DEF ConsentInv, Unlinked
<1>7. QED BY <1>1, <1>3, <1>5, <1>6 DEF ConsentInv

LEMMA LinkConsent ==
    ASSUME TypeInv, ConsentInv, NEW k \in Clicks, Link(k)
    PROVE  ConsentInv'
<1>0. /\ SessionTypeOK /\ click[k].pc = "linking" /\ Advance(k, "parking")
      /\ UNCHANGED <<approval, task, turn>>
  BY DEF Link, At, TypeInv, runVars
<1>a. PICK r \in Runs, i \in Items : r = click[k].run /\ i = click[k].item /\ linked' = linked \cup {<<r, i>>}
  BY <1>0 DEF Link, TypeInv, Routed, SessionTypeOK
<1>1. /\ click'[k].run = click[k].run
      /\ \/ click'[k].pc = "linking" /\ click'[k].item = i + 1
         \/ click'[k].pc = "parking"
      /\ \A l \in Clicks \ {k} : click'[l] = click[l]
  BY <1>0, <1>a, AdvanceWrites
<1>2. approval[r] = "consumed"
  BY <1>0, <1>a DEF ConsentInv, Executes, Consumed
<1>3. Saved' /\ LinkedConsent' /\ TaskConsent'
  BY <1>0, <1>a, <1>2 DEF ConsentInv, Saved, LinkedConsent, TaskConsent
<1>4. \A l \in Clicks : click'[l].pc \in Consumed => click[l].pc \in Consumed /\ click'[l].run = click[l].run
  BY <1>0, <1>1 DEF Consumed
<1>5. Executes' /\ ConsumedOnce'
  BY <1>0, <1>4 DEF ConsentInv, Executes, ConsumedOnce
<1>6. Unlinked'
  <2> SUFFICES ASSUME NEW l \in Clicks, NEW j \in Items,
                      \/ click'[l].pc = "executing"
                      \/ click'[l].pc = "linking" /\ j >= click'[l].item
               PROVE  <<click'[l].run, j>> \notin linked'
    BY DEF Unlinked
  <2>1. CASE l = k
    <3>1. j >= i + 1 /\ i \in Nat /\ j \in Nat
      BY <1>1, <2>1, SessionAssumption
    <3>2. <<r, j>> \notin linked /\ j # i
      BY <1>0, <1>a, <3>1 DEF ConsentInv, Unlinked
    <3>3. QED BY <1>1, <1>a, <2>1, <3>2
  <2>2. CASE l # k
    <3>1. click'[l] = click[l] /\ click[l].pc \in Consumed
      BY <1>1, <2>2 DEF Consumed
    <3>2. click[l].run # r
      BY <1>0, <1>a, <2>2, <3>1 DEF ConsentInv, ConsumedOnce, Consumed
    <3>3. <<click[l].run, j>> \notin linked
      BY <3>1 DEF ConsentInv, Unlinked
    <3>4. QED BY <1>a, <3>1, <3>2, <3>3
  <2>3. QED BY <2>1, <2>2
<1>7. QED BY <1>3, <1>5, <1>6 DEF ConsentInv

LEMMA ClickConsent ==
    ASSUME TypeInv, ConsentInv, NEW k \in Clicks, Click(k)
    PROVE  /\ ConsentInv'
           /\ \A r \in Runs : approval[r] \in {"consumed", "rejected"} => approval'[r] = approval[r]
<1> DEFINE Stands == \A r \in Runs : approval[r] \in {"consumed", "rejected"} => approval'[r] = approval[r]
<1>0. SessionTypeOK /\ Routed /\ \A l \in Clicks \ {k} : click'[l] = click[l]
  BY ClickWrites DEF TypeInv
<1>1. ASSUME NEW pc, Move(k, pc), UNCHANGED <<approval, turn, linked, task>>, pc \notin {"executing", "linking"},
             pc \in Consumed => click[k].pc \in Consumed
      PROVE  ConsentInv' /\ Stands
  <2>1. click'[k].pc = pc /\ (pc # "done" => click'[k].run = click[k].run)
    BY <1>0, <1>1, MoveWrites
  <2>2. "done" \notin Consumed
    BY DEF Consumed
  <2>3. QED BY <1>0, <1>1, <2>1, <2>2, ClickKept
<1>2. CASE RejectAction(k) \/ RejectClose(k) \/ RejectLog(k) \/ Refuse(k) \/ Wait(k) \/ Announce(k) \/ AcceptCatch(k)
  BY <1>1, <1>2 DEF RejectAction, RejectClose, RejectLog, Refuse, Wait, Announce, AcceptCatch, At, Consumed, runVars
<1>3. ASSUME NEW r \in Runs, ReadApproval(k, r) PROVE ConsentInv' /\ Stands
  <2>1. click'[k].pc \in {"reject", "consume"} /\ UNCHANGED <<approval, turn, linked, task>>
    BY <1>3 DEF ReadApproval, SessionTypeOK, TypeInv, runVars
  <2>2. QED BY <1>0, <2>1, ClickKept DEF Consumed
<1>4. CASE RejectFind(k) \/ FindRun(k)
  <2>1. ASSUME NEW x, NEW pc, click' = [click EXCEPT ![k] = [@ EXCEPT !.pc = pc, !.at = x]]
        PROVE  click'[k].pc = pc /\ click'[k].run = click[k].run
    BY <2>1 DEF TypeInv, SessionTypeOK
  <2>2. UNCHANGED <<approval, turn, linked, task>>
    BY <1>4 DEF RejectFind, FindRun, runVars
  <2>3. CASE RejectFind(k)
    <3>0. PICK x : IF x = NoRun THEN Move(k, "done")
                                ELSE click' = [click EXCEPT ![k] = [@ EXCEPT !.pc = "closing", !.at = x]]
      BY <2>3 DEF RejectFind
    <3>1. click'[k].pc \in {"closing", "done"}
      <4>1. CASE x = NoRun
        BY <1>0, <3>0, <4>1, MoveWrites
      <4>2. CASE x # NoRun
        BY <2>1, <3>0, <4>2
      <4>3. QED BY <4>1, <4>2
    <3>2. QED BY <1>0, <2>2, <3>1, ClickKept DEF Consumed
  <2>4. CASE FindRun(k)
    <3>1. click'[k].pc \in {"accepted", "waiting"} /\ click'[k].run = click[k].run /\ click[k].pc = "parking"
      BY <2>1, <2>4 DEF FindRun, At
    <3>2. QED BY <1>0, <2>2, <3>1, ClickKept DEF Consumed
  <2>5. QED BY <1>4, <2>3, <2>4
<1>5. ASSUME NEW s \in {"consumed", "rejected"}, approval[click[k].run] = "pending", click[k].run \in Runs,
             approval' = [approval EXCEPT ![click[k].run] = s], UNCHANGED <<turn, linked, task>>,
             NEW pc \in {"rejectAction", "executing"}, Move(k, pc), pc = "executing" => s = "consumed",
             click[k].pc \in {"reject", "consume"}
      PROVE  ConsentInv' /\ Stands
  <2>1. click'[k].pc = pc /\ click'[k].run = click[k].run /\ click[k].pc \notin Consumed
    BY <1>0, <1>5, MoveWrites DEF Consumed
  <2>2. ConsentInv'
    BY <1>0, <1>5, <2>1, ClickDecides DEF Consumed
  <2>3. Stands
    BY <1>5 DEF TypeInv, SessionTypeOK
  <2>4. QED BY <2>2, <2>3
<1>6. CASE RejectApproval(k)
  <2>1. click[k].pc = "reject" /\ click[k].run \in Runs /\ Move(k, "rejectAction") /\ UNCHANGED <<turn, linked, task>>
    BY <1>0, <1>6 DEF RejectApproval, At, Routed, runVars
  <2>2. CASE approval[click[k].run] = "pending"
    <3>1. approval' = [approval EXCEPT ![click[k].run] = "rejected"]
      BY <1>6, <2>2 DEF RejectApproval
    <3>2. QED BY <1>5, <2>1, <2>2, <3>1
  <2>3. CASE approval[click[k].run] # "pending"
    <3>1. approval' = approval
      BY <1>6, <2>3 DEF RejectApproval
    <3>2. QED BY <1>1, <2>1, <3>1 DEF Consumed
  <2>4. QED BY <2>2, <2>3
<1>7. CASE Consume(k)
  <2>1. click[k].pc = "consume" /\ click[k].run \in Runs /\ UNCHANGED <<turn, linked, task>>
    BY <1>0, <1>7 DEF Consume, At, Routed, runVars
  <2>2. CASE approval[click[k].run] = "pending"
    <3>1. approval' = [approval EXCEPT ![click[k].run] = "consumed"] /\ Move(k, "executing")
      BY <1>7, <2>2 DEF Consume
    <3>2. QED BY <1>5, <2>1, <2>2, <3>1
  <2>3. CASE approval[click[k].run] # "pending"
    <3>1. approval' = approval /\ Move(k, "done")
      BY <1>7, <2>3 DEF Consume
    <3>2. QED BY <1>1, <2>1, <3>1 DEF Consumed
  <2>4. QED BY <2>2, <2>3
<1>8. ASSUME NEW state \in TaskStates, Execute(k, state) PROVE ConsentInv' /\ Stands
  BY <1>8, ExecuteConsent DEF Execute
<1>9. CASE Link(k)
  BY <1>9, LinkConsent DEF Link
<1>10. ASSUME NEW frozen \in BOOLEAN, ExecuteFails(k, frozen) PROVE ConsentInv' /\ Stands
  <2>1. /\ click[k].pc = "executing" /\ Move(k, "catch") /\ UNCHANGED <<approval, turn, linked>>
        /\ \/ task' = task
           \/ task' = [task EXCEPT ![<<click[k].run, click[k].item>>] = "live"]
    BY <1>10 DEF ExecuteFails, At, runVars
  <2>2. TaskConsent'
    BY <2>1, TaskMade
  <2>3. click'[k].pc = "catch" /\ click'[k].run = click[k].run
    BY <1>0, <2>1, MoveWrites
  <2>4. Saved' /\ LinkedConsent'
    BY <2>1 DEF ConsentInv, Saved, LinkedConsent
  <2>5. \A l \in Clicks : click'[l].pc \in Consumed => click[l].pc \in Consumed /\ click'[l].run = click[l].run
    BY <1>0, <2>1, <2>3 DEF Consumed
  <2>6. Executes' /\ ConsumedOnce'
    BY <2>1, <2>5 DEF ConsentInv, Executes, ConsumedOnce
  <2>7. Unlinked'
    BY <1>0, <2>1, <2>3 DEF ConsentInv, Unlinked
  <2>8. QED BY <2>1, <2>2, <2>4, <2>6, <2>7 DEF ConsentInv
<1>11. QED BY <1>2, <1>3, <1>4, <1>6, <1>7, <1>8, <1>9, <1>10 DEF Click

LEMMA OtherConsent ==
    ASSUME TypeInv, ConsentInv, \/ \E q \in Requests : Turn(q) /\ UNCHANGED askVars
                                \/ \E c \in Cancels : Cancel(c) /\ UNCHANGED askVars
                                \/ \E b \in Callbacks : Callback(b)
                                \/ UNCHANGED vars
    PROVE  ConsentInv' /\ UNCHANGED <<approval, click, linked, task>>
<1>0. SessionTypeOK /\ RunTypeOK
  BY DEF TypeInv, SessionTypeOK
<1>1. ASSUME NEW q \in Requests, Turn(q)
      PROVE  \A p \in Requests : turn'[p].pc = "asking" => turn[p].pc = "asking"
  <2>1. ASSUME NEW pc, Goto(q, pc), pc # "asking"
        PROVE  \A p \in Requests : turn'[p].pc = "asking" => turn[p].pc = "asking"
    BY <1>0, <2>1, GotoWrites
  <2>2. ASSUME NEW end \in Ends, EndTurn(q, end)
        PROVE  \A p \in Requests : turn'[p].pc = "asking" => turn[p].pc = "asking"
    BY <1>0, <2>2 DEF EndTurn, RunTypeOK
  <2>3. CASE Catch(q)
    BY <1>0, <2>3 DEF Catch, RunTypeOK
  <2>4. CASE Look(q) \/ StartRun(q) \/ PrepareFails(q) \/ BeginTurn(q) \/ DirectReply(q) \/ Answer(q) \/ Throw(q)
    BY <2>1, <2>4 DEF Look, StartRun, PrepareFails, BeginTurn, DirectReply, Answer, Throw
  <2>5. CASE Stop(q) \/ Check(q) \/ Finish(q) \/ Log(q) \/ Finally(q)
    BY <2>1, <2>5 DEF Stop, Check, Finish, Log, Finally
  <2>6. QED BY <1>1, <2>2, <2>3, <2>4, <2>5 DEF Turn
<1>2. ASSUME NEW c \in Cancels, Cancel(c) PROVE UNCHANGED turn
  BY <1>2 DEF Cancel, CancelRead, CancelUpdate, CancelLog, CancelThrow
<1>3. ASSUME NEW b \in Callbacks, Callback(b)
      PROVE  /\ UNCHANGED <<approval, click, linked, task>>
             /\ \A p \in Requests : turn'[p].pc = "asking" => turn[p].pc = "asking"
  <2>1. CASE Continue(b)
    BY <1>0, <2>1 DEF Continue, RunTypeOK
  <2>2. CASE ~ Continue(b)
    BY <1>3, <2>2 DEF Callback, Notify, FindTask, Mark, ReadRun, AppendStatus, Decide, WaitMore,
                      FinishRun, LogRun, runVars
  <2>3. QED BY <2>1, <2>2
<1>4. CASE UNCHANGED vars
  BY <1>4, ConsentKept DEF vars, runVars, askVars
<1>5. QED BY <1>1, <1>2, <1>3, <1>4, ConsentKept DEF askVars

LEMMA RestartConsent ==
    ASSUME TypeInv, ConsentInv, Restart
    PROVE  ConsentInv' /\ UNCHANGED approval
<1>1. UNCHANGED <<approval, linked, task>>
  BY DEF Restart
<1>2. Saved' /\ LinkedConsent' /\ TaskConsent'
  BY <1>1, RestartWrites DEF ConsentInv, Saved, LinkedConsent, TaskConsent
<1>3. \A k \in Clicks : click'[k].pc \in {"idle", "done"}
  BY RestartWrites
<1>4. Executes' /\ ConsumedOnce' /\ Unlinked'
  BY <1>3 DEF Executes, ConsumedOnce, Unlinked, Consumed
<1>5. QED BY <1>1, <1>2, <1>4 DEF ConsentInv

LEMMA ConsentStep ==
    ASSUME TypeInv, ConsentInv, [Next]_vars
    PROVE  /\ ConsentInv'
           /\ \A r \in Runs : approval[r] \in {"consumed", "rejected"} => approval'[r] = approval[r]
BY AskConsent, ClickConsent, OtherConsent, RestartConsent DEF Next

LEMMA InitConsent == Init => ConsentInv
BY DEF Init, RunInit, ConsentInv, Saved, Executes, ConsumedOnce, Unlinked, LinkedConsent, TaskConsent,
       Consumed, Tasks

LEMMA ConsentAlways == Spec => [](TypeInv /\ ConsentInv)
<1>1. TypeInv /\ ConsentInv /\ [Next]_vars => TypeInv' /\ ConsentInv'
  BY TypeStep, ConsentStep
<1>2. QED BY <1>1, InitTypes, InitConsent, PTL DEF Spec

\* A confirmation is executed by one request, however often it is clicked and
\* whatever a rejection does meanwhile.
THEOREM ConsumesOnce == Spec => []ConsumedOnce
<1>1. ConsentInv => ConsumedOnce
  BY DEF ConsentInv
<1>2. QED BY <1>1, ConsentAlways, PTL

\* No points are frozen for a task the user has not accepted.
THEOREM NoTaskUnasked == Spec => []ConsentBeforeTask
<1>1. ConsentInv => ConsentBeforeTask
  BY TaskConsentIs DEF ConsentInv
<1>2. QED BY <1>1, ConsentAlways, PTL

\* The first decision on a confirmation stands, against a second click, a
\* rejection that read the approval before, and a turn that asks again.
THEOREM FirstDecisionStands == Spec => DecisionStands
<1>1. TypeInv /\ ConsentInv /\ [Next]_vars
          => [\A r \in Runs : approval[r] \in {"consumed", "rejected"} => approval'[r] = approval[r]]_vars
  BY ConsentStep
<1>2. QED BY <1>1, ConsentAlways, PTL DEF Spec, DecisionStands

-----------------------------------------------------------------------------
(* Callbacks *)

\* The steps of a callback that has written the notice of its task.
Told == {"reading", "appending", "deciding", "waiting", "finishing", "logging", "continuing"}

Uncounted == {"reading", "appending", "deciding"}

Known == \A b \in Callbacks : /\ call[b].pc \notin {"idle", "done"} => call[b].task \in Tasks
                              /\ call[b].pc = "marking" => call[b].task \in linked

\* The first report of a task's end is handled by one callback.
OneTeller == \A b \in Callbacks : call[b].pc \in Told =>
                 /\ notice[call[b].task] # "none"
                 /\ \A d \in Callbacks : call[d].pc \in Told /\ call[d].task = call[b].task => d = b

Counts == /\ \A b \in Callbacks : call[b].pc \in Uncounted =>
                 notice[call[b].task] = call[b].out /\ counted[call[b].task] = 0
          /\ \A t \in Tasks : notice[t] = "none" => counted[t] = 0
          /\ CountedOnce

\* A continuation has been started by a callback that is done with its task.
Continued == \A q \in Continuations : turn[q].pc # "idle" =>
                 /\ notice[After[q]] # "none"
                 /\ \A b \in Callbacks : call[b].pc \in Told => call[b].task # After[q]

ReportsLinked == \A t \in Tasks : notice[t] # "none" => t \in linked

CallInv == Known /\ OneTeller /\ Counts /\ Continued /\ ReportsLinked /\ RowFollowsNotice

\* Steps of the other handlers.
LEMMA CallsKept ==
    ASSUME CallInv, UNCHANGED <<call, notice, counted>>, linked \subseteq linked',
           \A q \in Continuations : turn'[q].pc # "idle" => turn[q].pc # "idle",
           Batch => \A t \in Tasks : notice[t] # "none" => action'[t] = action[t]
    PROVE  CallInv'
<1>1. Known' /\ OneTeller' /\ ReportsLinked'
  BY DEF CallInv, Known, OneTeller, ReportsLinked
<1>2. Counts'
  BY DEF CallInv, Counts, CountedOnce
<1>3. Continued'
  BY DEF CallInv, Continued
<1>4. RowFollowsNotice'
  BY DEF CallInv, RowFollowsNotice, Batch
<1>5. QED BY <1>1, <1>2, <1>3, <1>4 DEF CallInv

\* The callback b counts the task it has yet to decide on.
CountsOnce(b) == \A x \in Tasks :
    \/ counted'[x] = counted[x]
    \/ /\ x = call[b].task /\ call[b].pc \in Uncounted /\ call'[b].pc \notin Uncounted
       /\ counted'[x] = 1 /\ notice[x] = "succeeded"

\* A callback that goes on without writing a notice.
LEMMA CallGoes ==
    ASSUME CallInv, NEW b \in Callbacks, UNCHANGED <<notice, action, linked>>, CountsOnce(b),
           \A d \in Callbacks \ {b} : call'[d] = call[d],
           call'[b].pc \notin {"idle", "done"} => call'[b].task \in Tasks,
           call'[b].pc = "marking" => call'[b].task \in linked,
           call'[b].pc \in Told => call[b].pc \in Told /\ call'[b].task = call[b].task,
           call'[b].pc \in Uncounted => call[b].pc \in Uncounted /\ call'[b].out = call[b].out,
           \A q \in Continuations : turn'[q].pc # "idle" =>
               \/ turn[q].pc # "idle"
               \/ call[b].pc \in Told /\ call[b].task = After[q] /\ call'[b].pc = "done"
    PROVE  CallInv'
<1>0. /\ "done" \notin Told /\ Uncounted \subseteq Told
      /\ \A d \in Callbacks : call'[d].pc \in Told => call[d].pc \in Told /\ call'[d].task = call[d].task
  BY DEF Told, Uncounted
<1>1. Known' /\ OneTeller' /\ ReportsLinked'
  BY <1>0 DEF CallInv, Known, OneTeller, ReportsLinked
<1>2. Counts'
  <2>1. \A d \in Callbacks : call'[d].pc \in Uncounted =>
            /\ d # b \/ counted'[call[d].task] = counted[call[d].task]
            /\ call[d].pc \in Uncounted /\ call'[d].out = call[d].out /\ call'[d].task = call[d].task
            /\ call[d].task \in Tasks
    <3>1. "idle" \notin Told /\ "done" \notin Told
      BY DEF Told
    <3>2. QED BY <1>0, <3>1 DEF CallInv, Known, CountsOnce
  <2>2. \A d \in Callbacks : call'[d].pc \in Uncounted => counted'[call[d].task] = counted[call[d].task]
    BY <1>0, <2>1 DEF CallInv, OneTeller, CountsOnce
  <2>3. \A d \in Callbacks : call'[d].pc \in Uncounted =>
            notice'[call'[d].task] = call'[d].out /\ counted'[call'[d].task] = 0
    BY <2>1, <2>2 DEF CallInv, Counts
  <2>4. (\A x \in Tasks : notice'[x] = "none" => counted'[x] = 0) /\ CountedOnce'
    BY DEF CallInv, Counts, CountedOnce, CountsOnce
  <2>5. QED BY <2>3, <2>4 DEF Counts
<1>3. Continued'
  <2> SUFFICES ASSUME NEW q \in Continuations, turn'[q].pc # "idle"
               PROVE  /\ notice'[After[q]] # "none"
                      /\ \A d \in Callbacks : call'[d].pc \in Told => call'[d].task # After[q]
    BY DEF Continued
  <2>1. CASE turn[q].pc # "idle"
    BY <1>0, <2>1 DEF CallInv, Continued
  <2>2. CASE turn[q].pc = "idle"
    BY <1>0, <2>2 DEF CallInv, OneTeller
  <2>3. QED BY <2>1, <2>2
<1>4. RowFollowsNotice'
  BY DEF CallInv, RowFollowsNotice, Batch
<1>5. QED BY <1>1, <1>2, <1>3, <1>4 DEF CallInv

LEMMA TasksAreRows ==
    /\ Tasks \subseteq Rows
    /\ \A t \in Tasks : t[1] \in Runs /\ \A r : t # <<r, 0>>
BY SessionAssumption DEF Tasks, Rows

LEMMA MarkCalls ==
    ASSUME TypeInv, CallInv, NEW b \in Callbacks, Mark(b)
    PROVE  CallInv'
<1>0. /\ SessionTypeOK /\ call[b].pc = "marking" /\ UNCHANGED <<linked, counted, turn>>
      /\ call[b].out \in Outcomes /\ "none" \notin Outcomes
  BY DEF Mark, In, TypeInv, SessionTypeOK, Outcomes, runVars
<1>a. PICK t \in Tasks, out \in Outcomes : t = call[b].task /\ out = call[b].out /\ t \in linked
  BY <1>0 DEF CallInv, Known
<1>1. CASE notice[t] # "none"
  <2>1. UNCHANGED <<notice, action>> /\ Go(b, "done")
    BY <1>a, <1>1 DEF Mark
  <2>2. call'[b].pc = "done" /\ \A d \in Callbacks \ {b} : call'[d] = call[d]
    BY <1>0, <2>1, GoWrites
  <2>3. QED BY <1>0, <2>1, <2>2, CallGoes DEF Told, Uncounted, CountsOnce
<1>2. CASE notice[t] = "none"
  <2>1. /\ notice' = [notice EXCEPT ![t] = out] /\ action' = [action EXCEPT ![RowOf(t)] = out]
        /\ Go(b, "reading")
    BY <1>a, <1>2 DEF Mark
  <2>2. /\ call'[b].pc = "reading" /\ call'[b].task = t /\ call'[b].out = out
        /\ \A d \in Callbacks \ {b} : call'[d] = call[d]
    BY <1>0, <1>a, <2>1, GoWrites
  <2>3. \A x \in Tasks : notice'[x] = IF x = t THEN out ELSE notice[x]
    BY <2>1 DEF TypeInv, SessionTypeOK
  <2>4. \A d \in Callbacks : call[d].pc \in Told => call[d].task # t /\ call[d].task \in Tasks
    BY <1>2 DEF CallInv, OneTeller, Known, Told
  <2>5. \A q \in Continuations : turn[q].pc # "idle" => After[q] # t /\ After[q] \in Tasks
    BY <1>2, SessionAssumption DEF CallInv, Continued
  <2>6. Known' /\ ReportsLinked'
    BY <1>0, <1>a, <2>2, <2>3 DEF CallInv, Known, ReportsLinked
  <2>7. OneTeller'
    BY <1>0, <2>2, <2>3, <2>4 DEF CallInv, OneTeller
  <2>8. Counts'
    <3>1. \A d \in Callbacks : call'[d].pc \in Uncounted =>
              notice'[call'[d].task] = call'[d].out /\ counted'[call'[d].task] = 0
      <4> SUFFICES ASSUME NEW d \in Callbacks, call'[d].pc \in Uncounted
                   PROVE  notice'[call'[d].task] = call'[d].out /\ counted'[call'[d].task] = 0
        OBVIOUS
      <4>1. CASE d = b
        BY <1>0, <1>2, <2>2, <2>3, <4>1 DEF CallInv, Counts
      <4>2. CASE d # b
        BY <1>0, <2>2, <2>3, <2>4, <4>2 DEF CallInv, Counts, Uncounted, Told
      <4>3. QED BY <4>1, <4>2
    <3>2. \A x \in Tasks : notice'[x] = "none" => counted'[x] = 0
      BY <1>0, <2>3 DEF CallInv, Counts
    <3>3. CountedOnce'
      BY <1>0, <1>2, <2>3 DEF CallInv, Counts, CountedOnce
    <3>4. QED BY <3>1, <3>2, <3>3 DEF Counts
  <2>9. Continued'
    BY <1>0, <2>2, <2>3, <2>5 DEF CallInv, Continued
  <2>10. RowFollowsNotice'
    <3>1. Batch => \A x \in Tasks : action'[x] = IF x = t THEN out ELSE action[x]
      BY <2>1, TasksAreRows DEF RowOf, TypeInv, SessionTypeOK
    <3>2. QED BY <2>3, <3>1 DEF CallInv, RowFollowsNotice, Batch
  <2>11. QED BY <2>6, <2>7, <2>8, <2>9, <2>10 DEF CallInv
<1>3. QED BY <1>1, <1>2

LEMMA DecideCalls ==
    ASSUME TypeInv, CallInv, NEW b \in Callbacks, Decide(b)
    PROVE  CallInv'
<1>0. /\ SessionTypeOK /\ call[b].pc = "deciding" /\ UNCHANGED <<linked, notice, turn, action>>
      /\ call[b].pc \in Told /\ call[b].pc \in Uncounted
  BY DEF Decide, In, TypeInv, Told, Uncounted, runVars
<1>a. PICK t \in Tasks : t = call[b].task /\ notice[t] = call[b].out /\ counted[t] = 0
  BY <1>0 DEF CallInv, Known, Counts
<1>1. /\ call'[b].pc \in {"waiting", "finishing"} /\ call'[b].task = t
      /\ \A d \in Callbacks \ {b} : call'[d] = call[d]
  BY <1>0, <1>a DEF Decide, SessionTypeOK
<1>2. \/ counted' = counted
      \/ counted' = [counted EXCEPT ![t] = counted[t] + 1] /\ notice[t] = "succeeded"
  BY <1>a DEF Decide
<1>3. \A x \in Tasks : \/ counted'[x] = counted[x]
                       \/ x = t /\ counted'[x] = 1 /\ notice[x] = "succeeded"
  BY <1>0, <1>a, <1>2 DEF SessionTypeOK
<1>4. CountsOnce(b)
  BY <1>0, <1>1, <1>3, <1>a DEF CountsOnce, Uncounted
<1>5. QED BY <1>0, <1>1, <1>4, <1>a, CallGoes DEF Uncounted

LEMMA CallbackCalls ==
    ASSUME TypeInv, CallInv, NEW b \in Callbacks, Callback(b)
    PROVE  CallInv'
<1>0. /\ SessionTypeOK /\ RunTypeOK
      /\ call[b].pc \notin {"idle", "done"} => call[b].task \in Tasks
  BY DEF TypeInv, SessionTypeOK, CallInv, Known
<1>1. ASSUME UNCHANGED <<notice, counted, action, linked, turn>>, NEW pc \in CallSteps, Go(b, pc),
             call[b].pc \notin {"idle", "done"}, pc # "idle",
             pc = "marking" => call[b].task \in linked, pc \in Told => call[b].pc \in Told,
             pc \in Uncounted => call[b].pc \in Uncounted
      PROVE  CallInv'
  <2>1. /\ call'[b].pc = pc /\ (pc # "done" => call'[b].task = call[b].task /\ call'[b].out = call[b].out)
        /\ \A d \in Callbacks \ {b} : call'[d] = call[d]
    BY <1>0, <1>1, GoWrites
  <2>2. "done" \notin Told /\ "done" \notin Uncounted
    BY DEF Told, Uncounted
  <2>3. QED BY <1>0, <1>1, <2>1, <2>2, CallGoes DEF CountsOnce
<1>2. CASE FindTask(b)
  <2>1. PICK pc \in {"marking", "done"} : Go(b, pc) /\ (pc = "marking" => call[b].task \in linked)
    BY <1>2 DEF FindTask
  <2>2. QED BY <1>1, <1>2, <2>1 DEF FindTask, In, Told, Uncounted, CallSteps, runVars
<1>3. CASE ReadRun(b) \/ AppendStatus(b)
  <2>1. CASE ReadRun(b)
    BY <1>1, <2>1 DEF ReadRun, In, Told, Uncounted, CallSteps, runVars
  <2>2. CASE AppendStatus(b)
    BY <1>1, <2>2 DEF AppendStatus, In, Told, Uncounted, CallSteps, runVars
  <2>3. QED BY <1>3, <2>1, <2>2
<1>4. CASE WaitMore(b) \/ FinishRun(b) \/ LogRun(b)
  <2>1. CASE WaitMore(b)
    BY <1>1, <2>1 DEF WaitMore, In, Told, Uncounted, CallSteps
  <2>2. CASE FinishRun(b)
    BY <1>1, <2>2 DEF FinishRun, In, Told, Uncounted, CallSteps
  <2>3. CASE LogRun(b)
    <3>1. PICK pc \in {"continuing", "done"} : Go(b, pc)
      BY <2>3 DEF LogRun
    <3>2. QED BY <1>1, <2>3, <3>1 DEF LogRun, In, Told, Uncounted, CallSteps
  <2>4. QED BY <1>4, <2>1, <2>2, <2>3
<1>5. ASSUME NEW t \in Tasks, NEW out \in Outcomes, Notify(b, t, out) PROVE CallInv'
  <2>1. /\ call'[b].pc = "finding" /\ call'[b].task = t
        /\ \A d \in Callbacks \ {b} : call'[d] = call[d]
    BY <1>0, <1>5 DEF Notify, SessionTypeOK
  <2>2. UNCHANGED <<notice, counted, action, linked, turn>>
    BY <1>5 DEF Notify, runVars
  <2>3. QED BY <2>1, <2>2, CallGoes DEF Told, Uncounted, CountsOnce
<1>6. CASE Continue(b)
  <2>1. /\ call[b].pc = "continuing" /\ Go(b, "done") /\ UNCHANGED <<notice, counted, action, linked>>
    BY <1>6 DEF Continue, In
  <2>2. call'[b].pc = "done" /\ \A d \in Callbacks \ {b} : call'[d] = call[d]
    BY <1>0, <2>1, GoWrites
  <2>3. \A q \in Continuations : turn'[q].pc # "idle" => turn[q].pc # "idle" \/ call[b].task = After[q]
    BY <1>0, <1>6, RunAssumption DEF Continue, RunTypeOK
  <2>4. QED BY <2>1, <2>2, <2>3, CallGoes DEF Told, Uncounted, CountsOnce
<1>7. QED BY <1>2, <1>3, <1>4, <1>5, <1>6, MarkCalls, DecideCalls DEF Callback

LEMMA ClickCalls ==
    ASSUME TypeInv, ConsentInv, CallInv, NEW k \in Clicks, Click(k)
    PROVE  CallInv'
<1>1. CASE Link(k)
  <2>0. PICK r \in Runs, i \in Items : r = click[k].run /\ i = click[k].item
    BY <1>1 DEF Link, At, TypeInv, Routed, SessionTypeOK
  <2>1. linked' = linked \cup {<<r, i>>} /\ UNCHANGED <<call, notice, counted, turn>>
    BY <1>1, <2>0 DEF Link, runVars
  <2>2. <<r, i>> \notin linked /\ i >= i
    BY <1>1, <2>0, SessionAssumption DEF Link, At, ConsentInv, Unlinked
  <2>3. Batch => \A w \in Rows : w # <<r, i>> /\ w # <<r, 0>> => action'[w] = action[w]
    BY <1>1, <2>0 DEF Link, RowOf
  <2>4. Batch => \A t \in Tasks : notice[t] # "none" => action'[t] = action[t]
    BY <2>2, <2>3, TasksAreRows DEF CallInv, ReportsLinked
  <2>5. QED BY <2>1, <2>4, CallsKept
<1>2. CASE ~ Link(k)
  <2>1. /\ UNCHANGED <<call, notice, counted, turn, linked>>
        /\ \/ action' = action
           \/ \E s : action' = [action EXCEPT ![<<click[k].run, 0>>] = s]
    <3>1. CASE RejectAction(k)
      BY <3>1 DEF RejectAction, runVars
    <3>2. CASE AcceptCatch(k)
      BY <3>2 DEF AcceptCatch, runVars
    <3>3. CASE ~ RejectAction(k) /\ ~ AcceptCatch(k)
      BY <1>2, <3>3 DEF Click, ReadApproval, RejectApproval, RejectFind, RejectClose, RejectLog, Consume,
                        Refuse, Execute, ExecuteFails, FindRun, Wait, Announce, runVars
    <3>4. QED BY <3>1, <3>2, <3>3
  <2>2. \A t \in Tasks : action'[t] = action[t]
    BY <2>1, TasksAreRows DEF TypeInv, SessionTypeOK
  <2>3. QED BY <2>1, <2>2, CallsKept
<1>3. QED BY <1>1, <1>2

LEMMA RestartCalls ==
    ASSUME CallInv, Restart
    PROVE  CallInv'
<1>1. UNCHANGED <<notice, counted, action, linked>> /\ \A b \in Callbacks : call'[b].pc \in {"idle", "done"}
  BY RestartWrites DEF Restart
<1>2. Known' /\ OneTeller' /\ ReportsLinked'
  BY <1>1 DEF CallInv, Known, OneTeller, ReportsLinked, Told
<1>3. Counts'
  BY <1>1 DEF CallInv, Counts, CountedOnce, Uncounted
<1>4. Continued'
  BY <1>1, RestartWrites, RunAssumption DEF CallInv, Continued, Told
<1>5. RowFollowsNotice'
  BY <1>1 DEF CallInv, RowFollowsNotice, Batch
<1>6. QED BY <1>2, <1>3, <1>4, <1>5 DEF CallInv

LEMMA CallStep ==
    ASSUME TypeInv, ConsentInv, CallInv, [Next]_vars
    PROVE  CallInv'
<1>0. SessionTypeOK /\ RunTypeOK
  BY DEF TypeInv, SessionTypeOK
<1>1. ASSUME NEW q \in Requests, Turn(q), UNCHANGED askVars PROVE CallInv'
  <2>1. ASSUME NEW pc, Goto(q, pc) PROVE \A p \in Requests \ {q} : turn'[p] = turn[p]
    BY <1>0, <2>1, GotoWrites
  <2>2. ASSUME NEW end \in Ends, EndTurn(q, end) PROVE \A p \in Requests \ {q} : turn'[p] = turn[p]
    BY <1>0, <2>2 DEF EndTurn, RunTypeOK
  <2>3. Catch(q) => \A p \in Requests \ {q} : turn'[p] = turn[p]
    BY <1>0 DEF Catch, RunTypeOK
  <2>4. \A p \in Requests \ {q} : turn'[p] = turn[p]
    <3>1. CASE Look(q) \/ StartRun(q) \/ PrepareFails(q) \/ BeginTurn(q) \/ DirectReply(q) \/ Answer(q) \/ Throw(q)
      BY <2>1, <3>1 DEF Look, StartRun, PrepareFails, BeginTurn, DirectReply, Answer, Throw
    <3>2. CASE Stop(q) \/ Check(q) \/ Finish(q) \/ Log(q) \/ Finally(q)
      BY <2>1, <3>2 DEF Stop, Check, Finish, Log, Finally
    <3>3. QED BY <1>1, <2>2, <2>3, <3>1, <3>2 DEF Turn
  <2>5. q \in Continuations => turn[q].pc # "idle"
    BY <1>1 DEF Turn, Look, StartRun, PrepareFails, BeginTurn, DirectReply, Answer, EndTurn, Throw, Stop,
                Check, Catch, Finish, Log, Finally
  <2>6. QED BY <1>1, <2>4, <2>5, CallsKept, RunAssumption DEF askVars
<1>2. ASSUME NEW c \in Cancels, Cancel(c), UNCHANGED askVars PROVE CallInv'
  <2>1. UNCHANGED turn
    BY <1>2 DEF Cancel, CancelRead, CancelUpdate, CancelLog, CancelThrow
  <2>2. QED BY <1>2, <2>1, CallsKept DEF askVars
<1>3. ASSUME NEW q \in Requests, Ask(q) \/ Show(q) PROVE CallInv'
  <2>1. \E pc : Goto(q, pc)
    BY <1>3 DEF Ask, Show
  <2>2. turn[q].pc # "idle" /\ \A p \in Requests \ {q} : turn'[p] = turn[p]
    BY <1>0, <1>3, <2>1, GotoWrites DEF Ask, Show
  <2>3. UNCHANGED <<call, notice, counted, linked>> /\ \A t \in Tasks : action'[t] = action[t]
    BY <1>0, <1>3, TasksAreRows DEF Ask, Show, SessionTypeOK
  <2>4. \A p \in Continuations : turn'[p].pc # "idle" => turn[p].pc # "idle"
    BY <2>2, RunAssumption
  <2>5. QED BY <2>3, <2>4, CallsKept
<1>4. CASE UNCHANGED vars
  BY <1>4, CallsKept DEF vars, runVars, askVars
<1>5. QED BY <1>1, <1>2, <1>3, <1>4, ClickCalls, CallbackCalls, RestartCalls DEF Next

LEMMA InitCalls == Init => CallInv
<1> SUFFICES ASSUME Init PROVE CallInv
  OBVIOUS
<1>1. /\ \A b \in Callbacks : call[b].pc = "idle"
      /\ \A t \in Tasks : notice[t] = "none" /\ counted[t] = 0
      /\ \A q \in Continuations : turn[q].pc = "idle"
  BY RunAssumption DEF Init, RunInit
<1>2. Known /\ OneTeller /\ Continued
  BY ONLY <1>1 DEF Known, OneTeller, Continued, Told
<1>3. Counts /\ ReportsLinked /\ RowFollowsNotice
  BY ONLY <1>1 DEF Counts, CountedOnce, ReportsLinked, RowFollowsNotice, Uncounted
<1>4. QED BY <1>2, <1>3 DEF CallInv

LEMMA CallsAlways == Spec => [](TypeInv /\ ConsentInv /\ CallInv)
<1>1. TypeInv /\ ConsentInv /\ CallInv /\ [Next]_vars => TypeInv' /\ ConsentInv' /\ CallInv'
  BY TypeStep, ConsentStep, CallStep
<1>2. QED BY <1>1, InitTypes, InitConsent, InitCalls, PTL DEF Spec

\* A task's cost is counted at most once, and only if it succeeded, however often
\* its end is reported and whatever the reports say.
THEOREM CostsCountOnce == Spec => []CountedOnce
<1>1. CallInv => CountedOnce
  BY DEF CallInv, Counts
<1>2. QED BY <1>1, CallsAlways, PTL

\* Linking, rejecting and failing an action never overwrite the reported end of an
\* item of a batch.
THEOREM RowsKeepTheEnd == Spec => []RowFollowsNotice
<1>1. CallInv => RowFollowsNotice
  BY DEF CallInv
<1>2. QED BY <1>1, CallsAlways, PTL

-----------------------------------------------------------------------------
(* The event log *)

\* The end e of run r is in the log after this step, or nobody can log it any more.
Settles(r, e) == e \in ends'[r] \/ e \in unlogged'[r]

\* What the log and the history hold, they keep.
HistoryKept == \A r \in Runs : ends[r] \subseteq ends'[r] /\ unlogged[r] \subseteq unlogged'[r]

\* What a handler had to log, it still has to, or it has been settled.
TurnLogs == \A q \in Requests : turn[q].pc \in Writing =>
    turn'[q] = turn[q] \/ Settles(RunOf[q], turn[q].end)
CancelLogs == \A c \in Cancels : cancel[c].pc = "logging" /\ cancel[c].run \in Runs =>
    cancel'[c] = cancel[c] \/ Settles(cancel[c].run, "aborted")
ClickLogs == \A k \in Clicks : click[k].pc = "closed" /\ click[k].at \in Runs =>
    click'[k] = click[k] \/ Settles(click[k].at, "completed")
CallLogs == \A b \in Callbacks : call[b].pc = "logging" /\ call[b].task[1] \in Runs =>
    call'[b] = call[b] \/ Settles(call[b].task[1], RunOutcome(b))

LEMMA LogKept ==
    ASSUME EndIsLogged, TurnLogs, CancelLogs, ClickLogs, CallLogs, HistoryKept,
           \A r \in Runs : status'[r] \in Ends => status'[r] = status[r] \/ Owes(r, status[r])'
    PROVE  EndIsLogged'
<1>1. ASSUME NEW r \in Runs, NEW e, Owes(r, e) PROVE Settles(r, e) \/ Owes(r, e)'
  <2>1. ASSUME NEW q \in Requests, turn[q].pc \in Writing /\ RunOf[q] = r /\ turn[q].end = e
        PROVE  Settles(r, e) \/ Owes(r, e)'
    BY <2>1 DEF TurnLogs, Owes
  <2>2. ASSUME NEW c \in Cancels, cancel[c].pc = "logging" /\ cancel[c].run = r /\ e = "aborted"
        PROVE  Settles(r, e) \/ Owes(r, e)'
    BY <2>2 DEF CancelLogs, Owes
  <2>3. ASSUME NEW k \in Clicks, click[k].pc = "closed" /\ click[k].at = r /\ e = "completed"
        PROVE  Settles(r, e) \/ Owes(r, e)'
    BY <2>3 DEF ClickLogs, Owes
  <2>4. ASSUME NEW b \in Callbacks, call[b].pc = "logging" /\ call[b].task[1] = r /\ e = RunOutcome(b)
        PROVE  Settles(r, e) \/ Owes(r, e)'
    BY <2>4 DEF CallLogs, Owes, RunOutcome
  <2>5. QED BY <1>1, <2>1, <2>2, <2>3, <2>4 DEF Owes
<1>2. ASSUME NEW r \in Runs, status'[r] \in Ends
      PROVE  Settles(r, status'[r]) \/ Owes(r, status[r])'
  <2>1. PICK e : e = status'[r]
    OBVIOUS
  <2>2. CASE e = status[r]
    <3>1. e \in ends[r] \/ e \in unlogged[r] \/ Owes(r, e)
      BY <1>2, <2>1, <2>2 DEF EndIsLogged
    <3>2. Settles(r, e) \/ Owes(r, e)'
      BY <1>1, <3>1 DEF HistoryKept, Settles
    <3>3. QED BY <2>1, <3>2 DEF Owes
  <2>3. CASE e # status[r]
    BY <1>2, <2>1, <2>3
  <2>4. QED BY <2>2, <2>3
<1>3. QED BY <1>2 DEF EndIsLogged, Settles

LEMMA AppendSettles ==
    ASSUME RunTypeOK, NEW r, NEW e, \/ Append(r, e) /\ UNCHANGED unlogged
                                    \/ Unlogged(r, e) /\ UNCHANGED ends
    PROVE  HistoryKept /\ (r \in Runs => Settles(r, e))
BY DEF RunTypeOK, Append, Unlogged, HistoryKept, Settles

LEMMA HistoryUnchanged == UNCHANGED <<ends, unlogged>> => HistoryKept
BY DEF HistoryKept

LEMMA TurnLogStep ==
    ASSUME RunTypeOK, EndIsLogged, NEW q \in Requests, Turn(q), UNCHANGED askVars
    PROVE  EndIsLogged'
<1>0. /\ CancelLogs /\ ClickLogs /\ CallLogs /\ RunOf[q] \in Runs
      /\ turn[q] \in [pc : TurnSteps, end : Ends] /\ "queued" \notin Ends /\ "running" \notin Ends
  BY RunAssumption DEF Turn, Look, StartRun, PrepareFails, BeginTurn, DirectReply, Answer, EndTurn, Throw,
                       Stop, Check, Catch, Finish, Log, Finally, CancelLogs, ClickLogs, CallLogs, askVars, RunTypeOK, Ends
<1>1. ASSUME NEW pc, Goto(q, pc), turn[q].pc \notin Writing PROVE TurnLogs
  BY <1>1, GotoWrites DEF TurnLogs
<1>2. ASSUME TurnLogs, UNCHANGED <<ends, unlogged>>, \A r \in Runs : status'[r] \in Ends => status'[r] = status[r]
      PROVE  EndIsLogged'
  BY <1>0, <1>2, LogKept, HistoryUnchanged
<1>3. CASE Look(q) \/ PrepareFails(q) \/ Answer(q) \/ Stop(q) \/ Check(q) \/ Finally(q)
  <2>1. turn[q].pc \notin Writing /\ (\E pc : Goto(q, pc)) /\ UNCHANGED <<status, ends, unlogged>>
    BY <1>3 DEF Look, PrepareFails, Answer, Stop, Check, Finally, Writing
  <2>2. QED BY <1>1, <1>2, <2>1
<1>4. CASE StartRun(q) \/ BeginTurn(q) \/ DirectReply(q)
  <2>1. turn[q].pc \notin Writing /\ (\E pc : Goto(q, pc)) /\ UNCHANGED <<ends, unlogged>>
    BY <1>4 DEF StartRun, BeginTurn, DirectReply, Writing
  <2>2. \/ status' = status
        \/ status' = [status EXCEPT ![RunOf[q]] = "queued"]
        \/ status' = [status EXCEPT ![RunOf[q]] = "running"]
    BY <1>4 DEF StartRun, BeginTurn, DirectReply
  <2>3. \A r \in Runs : status'[r] \in Ends => status'[r] = status[r]
    BY <1>0, <2>2 DEF RunTypeOK
  <2>4. QED BY <1>1, <1>2, <2>1, <2>3
<1>5. ASSUME NEW end \in Ends, EndTurn(q, end) PROVE EndIsLogged'
  <2>1. TurnLogs
    BY <1>5 DEF EndTurn, TurnLogs, RunTypeOK, Writing
  <2>2. HistoryKept
    BY <1>5, AppendSettles, HistoryUnchanged DEF EndTurn
  <2>3. QED BY <1>0, <1>5, <2>1, <2>2, LogKept DEF EndTurn
<1>6. CASE Catch(q)
  <2>1. TurnLogs
    BY <1>6 DEF Catch, TurnLogs, RunTypeOK, Writing
  <2>2. QED BY <1>2, <1>6, <2>1 DEF Catch
<1>7. CASE Finish(q)
  <2>1. turn[q].pc \notin Writing /\ (\E pc : Goto(q, pc)) /\ UNCHANGED <<ends, unlogged>>
    BY <1>7 DEF Finish, Writing
  <2>2. CASE status' = status
    BY <1>1, <1>2, <2>1, <2>2
  <2>3. CASE ~ (status' = status)
    <3>0. PICK pc \in Writing : Goto(q, pc) /\ status' = [status EXCEPT ![RunOf[q]] = turn[q].end]
      BY <1>7, <2>3 DEF Finish, Writing
    <3>1. turn'[q].pc \in Writing /\ turn'[q].end = turn[q].end
      BY <3>0, GotoWrites DEF Writing
    <3>2. \A r \in Runs : status'[r] = IF r = RunOf[q] THEN turn[q].end ELSE status[r]
      BY <3>0 DEF RunTypeOK
    <3>3. \A r \in Runs : status'[r] = status[r] \/ Owes(r, status[r])'
      BY <1>0, <3>1, <3>2 DEF Owes
    <3>4. TurnLogs
      BY <1>1, <2>1
    <3>5. HistoryKept
      BY <2>1, HistoryUnchanged
    <3>6. QED BY <1>0, <3>3, <3>4, <3>5, LogKept
  <2>4. QED BY <2>2, <2>3
<1>8. ASSUME NEW pc, Goto(q, pc), UNCHANGED status,
             \/ turn[q].pc \notin Writing /\ UNCHANGED <<ends, unlogged>>
             \/ Append(RunOf[q], turn[q].end) /\ UNCHANGED unlogged
             \/ Unlogged(RunOf[q], turn[q].end) /\ UNCHANGED ends
      PROVE  EndIsLogged'
  <2>1. CASE turn[q].pc \notin Writing /\ UNCHANGED <<ends, unlogged>>
    BY <1>1, <1>2, <1>8, <2>1
  <2>2. CASE \/ Append(RunOf[q], turn[q].end) /\ UNCHANGED unlogged
             \/ Unlogged(RunOf[q], turn[q].end) /\ UNCHANGED ends
    <3>1. HistoryKept /\ Settles(RunOf[q], turn[q].end)
      BY <1>0, <2>2, AppendSettles
    <3>2. \A p \in Requests \ {q} : turn'[p] = turn[p]
      BY <1>8, GotoWrites
    <3>3. TurnLogs
      BY <3>1, <3>2 DEF TurnLogs
    <3>4. QED BY <1>0, <1>8, <3>1, <3>3, LogKept
  <2>3. QED BY <1>8, <2>1, <2>2
<1>9. CASE Log(q)
  <2>1. (\E pc : Goto(q, pc)) /\ UNCHANGED status /\ Append(RunOf[q], turn[q].end) /\ UNCHANGED unlogged
    BY <1>9 DEF Log
  <2>2. QED BY <1>8, <2>1
<1>10. CASE Throw(q)
  <2>1. (\E pc : Goto(q, pc)) /\ UNCHANGED <<status, ends>>
    BY <1>10 DEF Throw
  <2>2. \/ turn[q].pc \notin Writing /\ UNCHANGED unlogged
        \/ Unlogged(RunOf[q], turn[q].end)
    BY <1>10 DEF Throw
  <2>3. QED BY <1>8, <2>1, <2>2
<1>11. QED BY <1>3, <1>4, <1>5, <1>6, <1>7, <1>9, <1>10 DEF Turn

LEMMA CancelLogStep ==
    ASSUME RunTypeOK, EndIsLogged, NEW c \in Cancels, Cancel(c), UNCHANGED askVars
    PROVE  EndIsLogged'
<1>0. TurnLogs /\ ClickLogs /\ CallLogs
  BY DEF Cancel, CancelRead, CancelUpdate, CancelLog, CancelThrow, TurnLogs, ClickLogs, CallLogs, askVars
<1>1. CASE CancelRead(c)
  <2>1. CancelLogs
    BY <1>1 DEF CancelRead, CancelLogs, RunTypeOK
  <2>2. QED BY <1>0, <1>1, <2>1, LogKept, HistoryUnchanged DEF CancelRead
<1>2. CASE CancelUpdate(c)
  <2>0. cancel[c].pc = "aborting" /\ UNCHANGED <<ends, unlogged>>
    BY <1>2 DEF CancelUpdate
  <2>1. CancelLogs
    BY <1>2 DEF CancelUpdate, CancelLogs, RunTypeOK
  <2>2. CASE status' = status
    BY <1>0, <2>0, <2>1, <2>2, LogKept, HistoryUnchanged
  <2>3. CASE ~ (status' = status)
    <3>1. /\ status' = [status EXCEPT ![cancel[c].run] = "aborted"]
          /\ cancel' = [cancel EXCEPT ![c] = [pc |-> "logging", run |-> cancel[c].run]]
      BY <1>2, <2>3 DEF CancelUpdate
    <3>2. cancel'[c].pc = "logging" /\ cancel'[c].run = cancel[c].run
      BY <3>1 DEF RunTypeOK
    <3>3. \A r \in Runs : status'[r] = IF r = cancel[c].run THEN "aborted" ELSE status[r]
      BY <3>1 DEF RunTypeOK
    <3>4. \A r \in Runs : status'[r] = status[r] \/ Owes(r, status[r])'
      BY <3>2, <3>3 DEF Owes
    <3>5. QED BY <1>0, <2>0, <2>1, <3>4, LogKept, HistoryUnchanged
  <2>4. QED BY <2>2, <2>3
<1>3. CASE CancelLog(c) \/ CancelThrow(c)
  <2>1. /\ \/ Append(cancel[c].run, "aborted") /\ UNCHANGED unlogged
           \/ Unlogged(cancel[c].run, "aborted") /\ UNCHANGED ends
        /\ UNCHANGED status /\ \A d \in Cancels \ {c} : cancel'[d] = cancel[d]
    BY <1>3 DEF CancelLog, CancelThrow, RunTypeOK
  <2>2. HistoryKept /\ (cancel[c].run \in Runs => Settles(cancel[c].run, "aborted"))
    BY <2>1, AppendSettles
  <2>3. CancelLogs
    BY <2>1, <2>2 DEF CancelLogs
  <2>4. QED BY <1>0, <2>1, <2>2, <2>3, LogKept
<1>4. QED BY <1>1, <1>2, <1>3 DEF Cancel

LEMMA AskLogStep ==
    ASSUME RunTypeOK, EndIsLogged, NEW q \in Requests, Ask(q) \/ Show(q)
    PROVE  EndIsLogged'
<1>0. CancelLogs /\ ClickLogs /\ CallLogs /\ UNCHANGED <<ends, unlogged>>
  BY DEF Ask, Show, CancelLogs, ClickLogs, CallLogs
<1>1. turn[q].pc \notin Writing /\ \E pc : Goto(q, pc)
  BY DEF Ask, Show, Writing
<1>2. TurnLogs
  BY <1>1, GotoWrites DEF TurnLogs
<1>3. status' = status \/ status' = [status EXCEPT ![RunOf[q]] = "waiting_confirmation"]
  BY DEF Ask, Show
<1>4. \A r \in Runs : status'[r] \in Ends => status'[r] = status[r]
  BY <1>3 DEF RunTypeOK, Ends
<1>5. QED BY <1>0, <1>2, <1>4, LogKept, HistoryUnchanged

LEMMA ClickLogStep ==
    ASSUME TypeInv, EndIsLogged, NEW k \in Clicks, Click(k)
    PROVE  EndIsLogged'
<1>0. /\ SessionTypeOK /\ RunTypeOK /\ \A l \in Clicks \ {k} : click'[l] = click[l]
  BY ClickWrites DEF TypeInv, SessionTypeOK
<1>a. TurnLogs /\ CancelLogs /\ CallLogs
  <2>1. UNCHANGED <<turn, cancel, call>>
    BY DEF Click, ReadApproval, RejectApproval, RejectAction, RejectFind, RejectClose, RejectLog, Consume, Refuse,
           Execute, ExecuteFails, Link, FindRun, Wait, Announce, AcceptCatch, runVars
  <2>2. QED BY <2>1 DEF TurnLogs, CancelLogs, CallLogs
<1>1. CASE RejectClose(k)
  <2>1. click[k].pc = "closing" /\ Move(k, "closed") /\ UNCHANGED <<ends, unlogged>>
    BY <1>1 DEF RejectClose, At
  <2>2. click'[k].pc = "closed" /\ click'[k].at = click[k].at
    BY <1>0, <2>1, MoveWrites
  <2>3. \A r \in Runs : status'[r] = IF r = click[k].at THEN "completed" ELSE status[r]
    BY <1>0, <1>1 DEF RejectClose, RunTypeOK
  <2>4. \A r \in Runs : status'[r] = status[r] \/ Owes(r, status[r])'
    BY <2>2, <2>3 DEF Owes
  <2>5. ClickLogs
    BY <1>0, <2>1 DEF ClickLogs
  <2>6. QED BY <1>a, <2>1, <2>4, <2>5, LogKept, HistoryUnchanged
<1>2. CASE RejectLog(k)
  <2>1. /\ \/ Append(click[k].at, "completed") /\ UNCHANGED unlogged
           \/ Unlogged(click[k].at, "completed") /\ UNCHANGED ends
        /\ UNCHANGED status
    BY <1>2 DEF RejectLog
  <2>2. HistoryKept /\ (click[k].at \in Runs => Settles(click[k].at, "completed"))
    BY <1>0, <2>1, AppendSettles
  <2>3. ClickLogs
    BY <1>0, <2>2 DEF ClickLogs
  <2>4. QED BY <1>a, <2>1, <2>2, <2>3, LogKept
<1>3. CASE ~ RejectClose(k) /\ ~ RejectLog(k)
  <2>1. click[k].pc # "closed" /\ UNCHANGED <<ends, unlogged>>
    BY <1>3 DEF Click, ReadApproval, RejectApproval, RejectAction, RejectFind, Consume, Refuse,
                Execute, ExecuteFails, Link, FindRun, Wait, Announce, AcceptCatch, runVars, At
  <2>2. ClickLogs
    BY <1>0, <2>1 DEF ClickLogs
  <2>3. status' = status \/ \E x : status' = [status EXCEPT ![x] = "waiting_task"]
    <3>1. CASE Wait(k)
      BY <3>1 DEF Wait
    <3>2. CASE ~ Wait(k)
      BY <1>3, <3>2 DEF Click, ReadApproval, RejectApproval, RejectAction, RejectFind, Consume, Refuse,
                        Execute, ExecuteFails, Link, FindRun, Announce, AcceptCatch, runVars
    <3>3. QED BY <3>1, <3>2
  <2>4. \A r \in Runs : status'[r] \in Ends => status'[r] = status[r]
    BY <1>0, <2>3 DEF RunTypeOK, Ends
  <2>5. QED BY <1>a, <2>1, <2>2, <2>4, LogKept, HistoryUnchanged
<1>4. QED BY <1>1, <1>2, <1>3

LEMMA CallLogStep ==
    ASSUME TypeInv, CallInv, EndIsLogged, NEW b \in Callbacks, Callback(b)
    PROVE  EndIsLogged'
<1>0. /\ SessionTypeOK /\ RunTypeOK
      /\ call[b].pc \notin {"idle", "done"} => call[b].task \in Tasks
  BY DEF TypeInv, SessionTypeOK, CallInv, Known
<1>a. CancelLogs /\ ClickLogs
  <2>1. UNCHANGED <<cancel, click>>
    BY DEF Callback, Notify, FindTask, Mark, ReadRun, AppendStatus, Decide, WaitMore, FinishRun,
           LogRun, Continue, runVars
  <2>2. QED BY <2>1 DEF CancelLogs, ClickLogs
<1>b. \A d \in Callbacks \ {b} : call'[d] = call[d]
  <2>1. ASSUME NEW pc, Go(b, pc) PROVE \A d \in Callbacks \ {b} : call'[d] = call[d]
    BY <1>0, <2>1, GoWrites
  <2>2. ASSUME NEW t \in Tasks, NEW out \in Outcomes, Notify(b, t, out)
        PROVE  \A d \in Callbacks \ {b} : call'[d] = call[d]
    BY <1>0, <2>2 DEF Notify, SessionTypeOK
  <2>3. Decide(b) => \A d \in Callbacks \ {b} : call'[d] = call[d]
    BY <1>0 DEF Decide, SessionTypeOK
  <2>4. Mark(b) => \E pc : Go(b, pc)
    BY DEF Mark
  <2>5. WaitMore(b) \/ FinishRun(b) \/ LogRun(b) \/ Continue(b) => \E pc : Go(b, pc)
    BY DEF WaitMore, FinishRun, LogRun, Continue
  <2>6. FindTask(b) \/ ReadRun(b) \/ AppendStatus(b) => \E pc : Go(b, pc)
    BY DEF FindTask, ReadRun, AppendStatus
  <2>7. QED BY <2>1, <2>2, <2>3, <2>4, <2>5, <2>6 DEF Callback
<1>1. CASE FinishRun(b)
  <2>1. call[b].pc = "finishing" /\ Go(b, "logging") /\ UNCHANGED <<ends, unlogged, turn>>
    BY <1>1 DEF FinishRun, In
  <2>2. call'[b].pc = "logging" /\ call'[b].task = call[b].task /\ call'[b].out = call[b].out
    BY <1>0, <2>1, GoWrites
  <2>3. \A r \in Runs : status'[r] = IF r = call[b].task[1] THEN RunOutcome(b) ELSE status[r]
    BY <1>0, <1>1 DEF FinishRun, RunTypeOK
  <2>4. \A r \in Runs : status'[r] = status[r] \/ Owes(r, status[r])'
    BY <2>2, <2>3 DEF Owes, RunOutcome
  <2>5. CallLogs /\ TurnLogs
    BY <1>b, <2>1 DEF CallLogs, TurnLogs
  <2>6. QED BY <1>a, <2>1, <2>4, <2>5, LogKept, HistoryUnchanged
<1>2. CASE LogRun(b)
  <2>1. /\ \/ Append(call[b].task[1], RunOutcome(b)) /\ UNCHANGED unlogged
           \/ Unlogged(call[b].task[1], RunOutcome(b)) /\ UNCHANGED ends
        /\ UNCHANGED <<status, turn>>
    BY <1>2 DEF LogRun
  <2>2. HistoryKept /\ (call[b].task[1] \in Runs => Settles(call[b].task[1], RunOutcome(b)))
    BY <1>0, <2>1, AppendSettles
  <2>3. CallLogs /\ TurnLogs
    BY <1>b, <2>1, <2>2 DEF CallLogs, TurnLogs
  <2>4. QED BY <1>a, <2>1, <2>2, <2>3, LogKept
<1>3. CASE Continue(b)
  <2>1. call[b].pc = "continuing" /\ UNCHANGED <<status, ends, unlogged>>
    BY <1>3 DEF Continue, In
  <2>2. \A q \in Requests : turn[q].pc \in Writing => turn'[q] = turn[q]
    <3>1. \A q \in Continuations : After[q] = call[b].task => turn[q].pc = "idle"
      BY <2>1 DEF CallInv, Continued, Told
    <3>2. \A q \in Requests : turn'[q] = turn[q] \/ (q \in Continuations /\ After[q] = call[b].task)
      BY <1>3 DEF Continue
    <3>3. QED BY <3>1, <3>2 DEF Writing
  <2>3. CallLogs /\ TurnLogs
    BY <1>b, <2>1, <2>2 DEF CallLogs, TurnLogs
  <2>4. QED BY <1>a, <2>1, <2>3, LogKept, HistoryUnchanged
<1>4. CASE ~ FinishRun(b) /\ ~ LogRun(b) /\ ~ Continue(b)
  <2>1. call[b].pc # "logging" /\ UNCHANGED <<ends, unlogged, turn>>
    BY <1>4 DEF Callback, Notify, FindTask, Mark, ReadRun, AppendStatus, Decide, WaitMore, runVars, In
  <2>2. status' = status \/ \E x : status' = [status EXCEPT ![x] = "waiting_task"]
    <3>1. CASE WaitMore(b)
      BY <3>1 DEF WaitMore
    <3>2. CASE ~ WaitMore(b)
      BY <1>4, <3>2 DEF Callback, Notify, FindTask, Mark, ReadRun, AppendStatus, Decide, runVars
    <3>3. QED BY <3>1, <3>2
  <2>3. \A r \in Runs : status'[r] \in Ends => status'[r] = status[r]
    BY <1>0, <2>2 DEF RunTypeOK, Ends
  <2>4. CallLogs /\ TurnLogs
    BY <1>b, <2>1 DEF CallLogs, TurnLogs
  <2>5. QED BY <1>a, <2>1, <2>3, <2>4, LogKept, HistoryUnchanged
<1>5. QED BY <1>1, <1>2, <1>3, <1>4

\* What a restart cuts off is history.
LEMMA RestartLogStep ==
    ASSUME EndIsLogged, Restart
    PROVE  EndIsLogged'
<1>1. UNCHANGED <<status, ends>>
  BY DEF Restart
<1>2. \A r \in Runs : unlogged'[r] = unlogged[r] \cup {e \in Ends : Owes(r, e)}
  BY DEF Restart
<1>3. ASSUME NEW r \in Runs, status[r] \in Ends
      PROVE  status[r] \in ends[r] \/ status[r] \in unlogged'[r]
  BY <1>2, <1>3 DEF EndIsLogged
<1>4. QED BY <1>1, <1>3 DEF EndIsLogged

LEMMA LogStep ==
    ASSUME TypeInv, CallInv, EndIsLogged, [Next]_vars
    PROVE  EndIsLogged'
<1>0. RunTypeOK
  BY DEF TypeInv, SessionTypeOK
<1>1. CASE UNCHANGED vars
  BY <1>1 DEF vars, runVars, askVars, EndIsLogged, Owes, RunOutcome
<1>2. QED BY <1>0, <1>1, TurnLogStep, CancelLogStep, AskLogStep, ClickLogStep, CallLogStep, RestartLogStep DEF Next

\* A run that is shown as ended has that end in its log, or a handler that is
\* about to write it, or lost it with an append that threw or a restart: no
\* interleaving of the handlers ends a run whose end nobody has to log.
THEOREM EndsAreLogged == Spec => []EndIsLogged
<1>1. Init => EndIsLogged
  BY DEF Init, RunInit, EndIsLogged, Ends
<1>2. TypeInv /\ ConsentInv /\ CallInv /\ EndIsLogged /\ [Next]_vars
          => TypeInv' /\ ConsentInv' /\ CallInv' /\ EndIsLogged'
  BY TypeStep, ConsentStep, CallStep, LogStep
<1>3. QED BY <1>1, <1>2, InitTypes, InitConsent, InitCalls, PTL DEF Spec
=============================================================================
