---------------------------- MODULE GenerationTask ----------------------------
(***************************************************************************)
(* generation-service: the status of generation_tasks, the executions that *)
(* run a task and the HTTP handlers that cancel, expire and retry one.     *)
(*                                                                         *)
(* A handler reads the row (db.get), decides, and writes it by primary key *)
(* at db.commit(): the UPDATE carries no condition on the status, so the   *)
(* read and the write are two steps.  What an execution tells the canvas,  *)
(* the agent and billing afterwards is a list of calls made one by one.    *)
(***************************************************************************)
EXTENDS Naturals, Sequences

CONSTANTS
    Tasks,
    Workers,     \* executor threads (or Celery workers) and request handlers
    NoTask,
    Executors,   \* task_executor: "celery", which acks late, or "inline", a thread
    Raises,      \* environment is production or staging: notify_agent_resume raises
    MaxRetries,  \* bound on retry requests
    MaxCrashes   \* bound on process crashes

ASSUME TaskAssumption ==
    /\ NoTask \notin Tasks
    /\ Executors \subseteq {"celery", "inline"} /\ Raises \in BOOLEAN
    /\ MaxRetries \in Nat /\ MaxCrashes \in Nat

VARIABLES
    status,     \* generation_tasks.status, "absent" before the insert
    attempts,   \* task_attempts that have succeeded
    jobs,       \* executions dispatched and not picked up yet
    node,       \* the status last written to the canvas node
    worker,     \* what each worker is doing
    calls,      \* POSTs to billing-service that are on their way
    retries, crashes

task     == <<status, attempts, jobs, node>>
genVars  == <<task, worker, calls, retries, crashes>>

Active   == {"queued", "running"}
Terminal == {"succeeded", "failed", "cancelled", "expired"}
Statuses == Active \cup Terminal \cup {"absent"}

Idle == [pc |-> "idle", task |-> NoTask, said |-> "none", todo |-> <<>>]

At(w, pc) == worker[w].pc = pc /\ worker[w].todo = <<>>

\* Worker w goes on with task t at pc, after the calls `todo` that report `said`.
Goto(w, pc, t, said, todo) ==
    worker' = [worker EXCEPT ![w] = [pc |-> pc, task |-> t, said |-> said, todo |-> todo]]

Stop(w) == worker' = [worker EXCEPT ![w] = Idle]

\* A call of w's list is done; the last one of a notification ends the handler.
Proceed(w) ==
    LET rest == Tail(worker[w].todo)
    IN  IF rest = <<>> /\ worker[w].pc = "notify" THEN Stop(w)
        ELSE worker' = [worker EXCEPT ![w].todo = rest]

Init ==
    /\ status = [t \in Tasks |-> "absent"]
    /\ attempts = [t \in Tasks |-> 0]
    /\ jobs = [t \in Tasks |-> 0]
    /\ node = [t \in Tasks |-> "idle"]
    /\ worker = [w \in Workers |-> Idle]
    /\ calls = {}
    /\ retries = 0
    /\ crashes = 0

-----------------------------------------------------------------------------
(* create_task, dispatch *)

\* Mutant of Create: a task that exists is dispatched once more.
CreateAgain(t) ==
    /\ status' = [status EXCEPT ![t] = IF @ = "absent" THEN "queued" ELSE @]
    /\ jobs' = [jobs EXCEPT ![t] = @ + 1]
    /\ UNCHANGED <<attempts, node, worker, calls, retries, crashes>>

\* A task that exists is returned as it is, and not dispatched.
Create(t) ==
    /\ status[t] = "absent"
    /\ status' = [status EXCEPT ![t] = "queued"]
    /\ jobs' = [jobs EXCEPT ![t] = @ + 1]
    /\ UNCHANGED <<attempts, node, worker, calls, retries, crashes>>

\* The process stops between db.commit() and dispatch(), or the thread's start.
LoseJob(t) ==
    /\ crashes < MaxCrashes
    /\ crashes' = crashes + 1
    /\ jobs[t] > 0
    /\ jobs' = [jobs EXCEPT ![t] = @ - 1]
    /\ UNCHANGED <<status, attempts, node, worker, calls, retries>>

-----------------------------------------------------------------------------
(* execute_task *)

\* Mutant of Claim: a task nobody dispatched is picked up.
ClaimAny(w, t) ==
    /\ At(w, "idle")
    /\ status[t] = "queued"
    /\ jobs' = [jobs EXCEPT ![t] = @ - 1]
    /\ Goto(w, "claimed", t, "none", <<>>)
    /\ UNCHANGED <<status, attempts, node, calls, retries, crashes>>

\* A "running" task is let through, but transition() refuses running -> running.
Claim(w, t) ==
    /\ At(w, "idle")
    /\ jobs[t] > 0
    /\ jobs' = [jobs EXCEPT ![t] = @ - 1]
    /\ IF status[t] = "queued" THEN Goto(w, "claimed", t, "none", <<>>) ELSE Stop(w)
    /\ UNCHANGED <<status, attempts, node, calls, retries, crashes>>

Start(w) ==
    /\ At(w, "claimed")
    /\ status' = [status EXCEPT ![worker[w].task] = "running"]
    /\ Goto(w, "working", worker[w].task, "running", <<"canvas">>)
    /\ UNCHANGED <<attempts, jobs, node, calls, retries, crashes>>

\* The provider's job succeeded: the status is not read again before it is set.
\* The outputs stored with it are those the provider returned, none perhaps; the
\* task succeeds, and is settled, all the same.
Succeed(w) ==
    LET t == worker[w].task
    IN  /\ At(w, "working")
        /\ status' = [status EXCEPT ![t] = "succeeded"]
        /\ attempts' = [attempts EXCEPT ![t] = @ + 1]
        /\ Goto(w, "notify", t, "succeeded", <<"canvas", "agent", "billing">>)
        /\ UNCHANGED <<jobs, node, calls, retries, crashes>>

\* The provider's job failed.
Fail(w) ==
    LET t == worker[w].task
    IN  /\ At(w, "working")
        /\ status' = [status EXCEPT ![t] = "failed"]
        /\ Goto(w, "notify", t, "failed", <<"canvas", "agent", "billing">>)
        /\ UNCHANGED <<attempts, jobs, node, calls, retries, crashes>>

\* except Exception: the row is read again, and only an active task is failed.
Except(w) ==
    IF status[worker[w].task] \in Active
    THEN Goto(w, "except", worker[w].task, "none", <<>>)
    ELSE Stop(w)

Raise(w) == At(w, "working") /\ Except(w) /\ UNCHANGED <<task, calls, retries, crashes>>

FailRaised(w) ==
    LET t == worker[w].task
    IN  /\ At(w, "except")
        /\ status' = [status EXCEPT ![t] = "failed"]
        /\ Goto(w, "notify", t, "failed", <<"billing", "canvas", "agent">>)
        /\ UNCHANGED <<attempts, jobs, node, calls, retries, crashes>>

-----------------------------------------------------------------------------
(* notify_canvas_node, notify_agent_resume, notify_billing *)

Calling(w, what) == worker[w].todo # <<>> /\ Head(worker[w].todo) = what

\* Five version conflicts, or an error, lose the write: it is only logged.
NotifyCanvas(w) ==
    /\ Calling(w, "canvas")
    /\ \E s \in {worker[w].said, node[worker[w].task]} :
          node' = [node EXCEPT ![worker[w].task] = s]
    /\ Proceed(w)
    /\ UNCHANGED <<status, attempts, jobs, calls, retries, crashes>>

NotifyAgent(w) ==
    /\ Calling(w, "agent")
    /\ Proceed(w)
    /\ UNCHANGED <<task, calls, retries, crashes>>

\* A 4xx or three failures raise, in production.  In execute_task's try block
\* that is one more exception; elsewhere it ends the handler.
AgentUnreachable(w) ==
    /\ Raises
    /\ Calling(w, "agent")
    /\ IF worker[w].todo = <<"agent", "billing">> THEN Except(w) ELSE Stop(w)
    /\ UNCHANGED <<task, calls, retries, crashes>>

\* One POST, its answer ignored and its exception swallowed: lost or sent.
NotifyBilling(w) ==
    /\ Calling(w, "billing")
    /\ \E sent \in {{}, {[type |-> IF worker[w].said = "succeeded" THEN "settle" ELSE "fail",
                          task |-> worker[w].task]}} :
          calls' = calls \cup sent
    /\ Proceed(w)
    /\ UNCHANGED <<task, retries, crashes>>

-----------------------------------------------------------------------------
(* cancel, expire, retry_task *)

CancelRead(w, t) ==
    /\ At(w, "idle")
    /\ status[t] \in Active
    /\ Goto(w, "end", t, "cancelled", <<>>)
    /\ UNCHANGED <<task, calls, retries, crashes>>

ExpireRead(w, t) ==
    /\ At(w, "idle")
    /\ status[t] = "queued"
    /\ Goto(w, "end", t, "expired", <<>>)
    /\ UNCHANGED <<task, calls, retries, crashes>>

EndWrite(w) ==
    /\ At(w, "end")
    /\ status' = [status EXCEPT ![worker[w].task] = worker[w].said]
    /\ Goto(w, "notify", worker[w].task, worker[w].said, <<"canvas", "agent">>)
    /\ UNCHANGED <<attempts, jobs, node, calls, retries, crashes>>

\* The route answers 400 unless the task has failed (every failure is retryable).
RetryRead(w, t) ==
    /\ retries < MaxRetries
    /\ retries' = retries + 1
    /\ At(w, "idle")
    /\ status[t] = "failed"
    /\ Goto(w, "retry", t, "none", <<>>)
    /\ UNCHANGED <<task, calls, crashes>>

\* Mutant of RetryWrite: nothing is dispatched.
RetryUndispatched(w) ==
    /\ At(w, "retry")
    /\ status' = [status EXCEPT ![worker[w].task] = "queued"]
    /\ Stop(w)
    /\ UNCHANGED <<attempts, jobs, node, calls, retries, crashes>>

RetryWrite(w) ==
    LET t == worker[w].task
    IN  /\ At(w, "retry")
        /\ status' = [status EXCEPT ![t] = "queued"]
        /\ jobs' = [jobs EXCEPT ![t] = @ + 1]
        /\ Stop(w)
        /\ UNCHANGED <<attempts, node, calls, retries, crashes>>

\* A worker process dies.  Celery may hand an execution it has not acknowledged
\* to another worker; a thread is gone, and so is what a handler had left to do.
Executing(w) ==
    \/ worker[w].pc \in {"claimed", "working", "except"}
    \/ worker[w].pc = "notify" /\ worker[w].said \in {"succeeded", "failed"}

Crash(w) ==
    /\ crashes < MaxCrashes
    /\ crashes' = crashes + 1
    /\ worker[w].pc # "idle"
    /\ \/ jobs' = jobs
       \/ /\ "celery" \in Executors /\ Executing(w)
          /\ jobs' = [jobs EXCEPT ![worker[w].task] = @ + 1]
    /\ Stop(w)
    /\ UNCHANGED <<status, attempts, node, calls, retries>>

-----------------------------------------------------------------------------
\* What an execution does next.
Run(w) ==
    \/ Start(w) \/ Succeed(w) \/ Fail(w) \/ Raise(w) \/ FailRaised(w)
    \/ NotifyCanvas(w) \/ NotifyAgent(w) \/ AgentUnreachable(w) \/ NotifyBilling(w)

Next ==
    \/ \E t \in Tasks : Create(t) \/ LoseJob(t)
    \/ \E w \in Workers :
          \/ Run(w) \/ EndWrite(w) \/ RetryWrite(w) \/ Crash(w)
          \/ \E t \in Tasks : Claim(w, t) \/ CancelRead(w, t) \/ ExpireRead(w, t) \/ RetryRead(w, t)

Spec == Init /\ [][Next]_genVars

\* Threads run, and a call has a timeout.
Fairness ==
    /\ \A w \in Workers : WF_genVars(Run(w) \/ EndWrite(w) \/ RetryWrite(w))
    /\ \A t \in Tasks : SF_genVars(\E w \in Workers : Claim(w, t))

FairSpec == Spec /\ Fairness

-----------------------------------------------------------------------------
(* Properties *)

TypeOK ==
    /\ status \in [Tasks -> Statuses]
    /\ attempts \in [Tasks -> Nat]
    /\ jobs \in [Tasks -> Nat]
    /\ node \in [Tasks -> Statuses \cup {"idle"}]
    /\ worker \in [Workers -> [pc : {"idle", "claimed", "working", "except", "notify", "end", "retry"},
                               task : Tasks \cup {NoTask}, said : Statuses \cup {"none"},
                               todo : Seq({"canvas", "agent", "billing"})]]
    /\ calls \subseteq [type : {"settle", "fail"}, task : Tasks]
    /\ retries \in 0..MaxRetries /\ crashes \in 0..MaxCrashes

\* A task that nobody retries is generated once: at most one execution of it is
\* waiting or in hand, and one redelivered after a crash does not generate again.
OneRunPerTask ==
    retries = 0 =>
        \A t \in Tasks :
            /\ jobs[t] <= 1 /\ attempts[t] <= 1
            /\ \A v \in Workers : worker[v].task = t /\ Executing(v) =>
                  jobs[t] = 0 /\ \A w \in Workers \ {v} : ~ (worker[w].task = t /\ Executing(w))

\* Billing is told of one outcome only, unless the task is retried.
OneOutcomeBilled ==
    retries = 0 =>
        \A t \in Tasks : ~ {[type |-> "settle", task |-> t], [type |-> "fail", task |-> t]} \subseteq calls

\* A task that was created, or queued again, ends, unless a process crashes.
EveryTaskEnds ==
    \A t \in Tasks : status[t] \in Active ~> (status[t] \in Terminal \/ crashes > 0)
=============================================================================
