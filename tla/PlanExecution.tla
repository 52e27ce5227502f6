--------------------------- MODULE PlanExecution ---------------------------
(***************************************************************************)
(* One plan and the calls of executeReadyReads that work on it, each step  *)
(* of a call behind the ReadGate of the user.  PgPlanRepository changes a  *)
(* plan in one transaction that locks its row, so claimStep, completeStep, *)
(* failStep, attachTask and completeTaskStep are one action each; a read   *)
(* goes on in between, and may outlive the lease of its step.              *)
(***************************************************************************)
EXTENDS ReadGate

CONSTANTS
    Calls,        \* calls of executeReadyReads
    Steps,        \* 1..n, in the order of plan.steps
    DependsOn,    \* step.dependsOn
    KeyOf,        \* step.concurrencyKey
    NoKey,
    TaskSteps,    \* the steps with effect create_task; the others read
    ChunkSize,    \* reads of one partition, 4 in the code
    MaxAttempts,  \* bound on the claims of a step
    MaxCrashes    \* bound on the restarts of the process

Jobs == Calls \X Steps

ASSUME PlanAssumption ==
    /\ Callers = Jobs
    /\ Steps \subseteq Nat
    /\ DependsOn \in [Steps -> SUBSET Steps]
    /\ KeyOf \in [Steps -> STRING] /\ NoKey \in STRING
    /\ TaskSteps \subseteq Steps
    /\ ChunkSize \in Nat \ {0} /\ MaxAttempts \in Nat /\ MaxCrashes \in Nat

VARIABLES
    step,     \* agent_plans.plan_json, by step: status, attemptCount, outputRef
    linked,   \* the steps whose taskId is set
    expired,  \* the running steps whose leaseUntil is past
    call,     \* where each call is
    todo,     \* the reads of its later partitions
    job,      \* where each read of a call is
    attempt,  \* the attemptCount a read has claimed
    crashes

planVars == <<step, linked, expired>>
jobVars  == <<call, todo, job, attempt>>
vars     == <<gateVars, planVars, jobVars, crashes>>

-----------------------------------------------------------------------------
StepStates == {"pending", "running", "completed", "failed"}
JobStates  == {"none", "arriving", "waiting", "claiming", "executing", "failing", "leaving",
               "hung", "done"}

Is(s, state)  == step[s].status = state
DepsDone(s)   == \A d \in DependsOn[s] : Is(d, "completed")
Ready(s)      == Is(s, "pending") /\ DepsDone(s)
Busy(c)       == \E s \in Steps : job[<<c, s>>] \notin {"none", "done"}
FirstOf(S)    == {s \in S : Cardinality({r \in S : r < s}) < ChunkSize}
Move(j, to)   == job' = [job EXCEPT ![j] = to]

Init ==
    /\ GateInit
    /\ step = [s \in Steps |-> [status |-> "pending", attempts |-> 0, output |-> 0]]
    /\ linked = {}
    /\ expired = {}
    /\ call = [c \in Calls |-> "idle"]
    /\ todo = [c \in Calls |-> {}]
    /\ job = [j \in Jobs |-> "none"]
    /\ attempt = [j \in Jobs |-> 0]
    /\ crashes = 0

-----------------------------------------------------------------------------
(* The plan *)

\* releaseExpiredLeases leaves a step that claimPlanStep may claim.
Claimable(s) ==
    /\ Is(s, "pending") \/ s \in expired
    /\ DepsDone(s)

\* Mutant of KeyFree: the key is compared with the step itself only.
KeyIgnored(s) == TRUE

\* No step that still has its lease runs under the same concurrencyKey.
KeyFree(s) ==
    KeyOf[s] # NoKey =>
        \A r \in Steps \ {s} : KeyOf[r] = KeyOf[s] => ~ (Is(r, "running") /\ r \notin expired)

\* The bound on attempts counts as a refusal.
MayClaim(s) == Claimable(s) /\ KeyFree(s) /\ step[s].attempts < MaxAttempts

\* Mutant of ClaimStep: an attempt is counted when the step is new.
ClaimUncounted(s) ==
    /\ MayClaim(s)
    /\ step' = [r \in Steps |->
           IF r = s THEN [step[r] EXCEPT !.status = "running", !.attempts = 1]
           ELSE IF r \in expired THEN [step[r] EXCEPT !.status = "pending"] ELSE step[r]]
    /\ expired' = {}
    /\ UNCHANGED linked

\* claimStep releases every expired lease of the plan and claims s, or throws
\* and rolls both back.
ClaimStep(s) ==
    /\ MayClaim(s)
    /\ step' = [r \in Steps |->
           IF r = s THEN [step[r] EXCEPT !.status = "running", !.attempts = @ + 1]
           ELSE IF r \in expired THEN [step[r] EXCEPT !.status = "pending"] ELSE step[r]]
    /\ expired' = {}
    /\ UNCHANGED linked

\* Mutant of EndStep: the idempotencyKey stands in for the status.
EndAnyStep(s, state, output) ==
    /\ step[s].attempts > 0
    /\ step' = [step EXCEPT ![s].status = state, ![s].output = output]
    /\ expired' = expired \ {s}
    /\ UNCHANGED linked

\* completePlanStep and failPlanStep; every attempt has the same idempotencyKey.
EndStep(s, state, output) ==
    /\ Is(s, "running")
    /\ step' = [step EXCEPT ![s].status = state, ![s].output = output]
    /\ expired' = expired \ {s}
    /\ UNCHANGED linked

LeaseExpires(s) ==
    /\ Is(s, "running") /\ s \notin expired
    /\ expired' = expired \cup {s}
    /\ UNCHANGED <<gateVars, step, linked, jobVars, crashes>>

\* A worker claims a create_task step,
ClaimTask(s) ==
    /\ s \in TaskSteps
    /\ ClaimStep(s)
    /\ UNCHANGED <<gateVars, jobVars, crashes>>

\* Mutant of AttachTask: the effect of the step is not compared.
AttachAny(s) ==
    /\ s \in Steps \ linked
    /\ Is(s, "running")
    /\ linked' = linked \cup {s}
    /\ UNCHANGED <<gateVars, step, expired, jobVars, crashes>>

\* links the task it submitted,
AttachTask(s) ==
    /\ s \in TaskSteps \ linked
    /\ Is(s, "running")
    /\ linked' = linked \cup {s}
    /\ UNCHANGED <<gateVars, step, expired, jobVars, crashes>>

\* and the terminal callback ends the step if it is (again) running.
CompleteTaskStep(s, state) ==
    /\ s \in linked
    /\ state \in {"completed", "failed"}
    /\ EndStep(s, state, step[s].attempts)
    /\ UNCHANGED <<gateVars, jobVars, crashes>>

-----------------------------------------------------------------------------
(* executeReadyReads *)

\* readySet and its read partitions.
StartCall(c) ==
    /\ call[c] = "idle"
    /\ call' = [call EXCEPT ![c] = "running"]
    /\ todo' = [todo EXCEPT ![c] = {s \in Steps \ TaskSteps : Ready(s)}]
    /\ UNCHANGED <<gateVars, planVars, job, attempt, crashes>>

\* Promise.all over the next partition.  Its reads arrive at the gate in one
\* go; here others may come in between.
StartPartition(c) ==
    /\ call[c] = "running" /\ ~ Busy(c) /\ todo[c] # {}
    /\ job' = [j \in Jobs |-> IF j[1] = c /\ j[2] \in FirstOf(todo[c]) THEN "arriving" ELSE job[j]]
    /\ todo' = [todo EXCEPT ![c] = @ \ FirstOf(@)]
    /\ UNCHANGED <<gateVars, planVars, call, attempt, crashes>>

Return(c) ==
    /\ call[c] = "running" /\ ~ Busy(c) /\ todo[c] = {}
    /\ call' = [call EXCEPT ![c] = "done"]
    /\ UNCHANGED <<gateVars, planVars, todo, job, attempt, crashes>>

EnterGate(j) ==
    /\ job[j] = "arriving"
    /\ Arrive(j)
    /\ Move(j, IF active < MaxPerUser THEN "claiming" ELSE "waiting")
    /\ UNCHANGED <<planVars, call, todo, attempt, crashes>>

PassGate ==
    /\ Resume
    /\ Move(Head(woken), "claiming")
    /\ UNCHANGED <<planVars, call, todo, attempt, crashes>>

\* executeOne: a claim that throws is an outcome, "failed".
Claim(j) ==
    /\ job[j] = "claiming"
    /\ \/ /\ ClaimStep(j[2])
          /\ Move(j, "executing")
          /\ attempt' = [attempt EXCEPT ![j] = step'[j[2]].attempts]
       \/ /\ ~ MayClaim(j[2])
          /\ Move(j, "leaving")
          /\ UNCHANGED <<planVars, attempt>>
    /\ UNCHANGED <<gateVars, call, todo, crashes>>

\* The read returns and its step is completed, or completeStep throws.
Complete(j) ==
    /\ job[j] = "executing"
    /\ \/ EndStep(j[2], "completed", attempt[j]) /\ Move(j, "leaving")
       \/ ~ Is(j[2], "running") /\ Move(j, "failing") /\ UNCHANGED planVars
    /\ UNCHANGED <<gateVars, call, todo, attempt, crashes>>

\* The read, or the call to the database, throws.
ReadFails(j) ==
    /\ job[j] = "executing"
    /\ Move(j, "failing")
    /\ UNCHANGED <<gateVars, planVars, call, todo, attempt, crashes>>

\* failStep; when it throws too, the call is rejected with its later partitions.
Fail(j) ==
    /\ job[j] = "failing"
    /\ Move(j, "leaving")
    /\ \/ EndStep(j[2], "failed", 0) /\ UNCHANGED <<call, todo>>
       \/ /\ ~ Is(j[2], "running")
          /\ call' = [call EXCEPT ![j[1]] = "done"]
          /\ todo' = [todo EXCEPT ![j[1]] = {}]
          /\ UNCHANGED planVars
    /\ UNCHANGED <<gateVars, attempt, crashes>>

LeaveGate(j) ==
    /\ job[j] = "leaving"
    /\ Leave(j)
    /\ job' = [job EXCEPT ![j] = "done"]
    /\ attempt' = [attempt EXCEPT ![j] = 0]
    /\ UNCHANGED <<planVars, call, todo, crashes>>

\* A query never returns, its transaction done or not: the pool has no timeout
\* (database.ts), as opposed to the reads.  The slot at the gate stays taken.
Hang(j) ==
    /\ job[j] \in {"claiming", "executing", "failing", "leaving"}
    /\ Move(j, "hung")
    /\ attempt' = [attempt EXCEPT ![j] = 0]
    /\ UNCHANGED <<gateVars, planVars, call, todo, crashes>>

\* The process restarts: calls and gate are gone, the plan stays.
Crash ==
    /\ crashes < MaxCrashes
    /\ crashes' = crashes + 1
    /\ active' = 0 /\ waiters' = << >> /\ woken' = << >> /\ inside' = {}
    /\ call' = [c \in Calls |-> IF call[c] = "running" THEN "done" ELSE call[c]]
    /\ todo' = [c \in Calls |-> {}]
    /\ job' = [j \in Jobs |-> IF job[j] = "none" THEN "none" ELSE "done"]
    /\ attempt' = [j \in Jobs |-> 0]
    /\ UNCHANGED planVars

Job(j) ==
    \/ EnterGate(j) \/ Claim(j) \/ Complete(j) \/ ReadFails(j) \/ Fail(j) \/ LeaveGate(j)

CallStep(c) == StartPartition(c) \/ Return(c)

Next ==
    \/ \E s \in Steps : LeaseExpires(s) \/ ClaimTask(s) \/ AttachTask(s)
    \/ \E s \in Steps, state \in StepStates : CompleteTaskStep(s, state)
    \/ \E c \in Calls : StartCall(c) \/ CallStep(c)
    \/ \E j \in Jobs : Job(j) \/ Hang(j)
    \/ PassGate
    \/ Crash

Spec == Init /\ [][Next]_vars

\* The event loop runs what it can, reads return (each has a timeout), and so do
\* the queries that do not hang.  Nothing makes a call start or a lease end.
FairSpec ==
    /\ Spec
    /\ WF_vars(PassGate)
    /\ \A j \in Jobs : WF_vars(Job(j))
    /\ \A c \in Calls : WF_vars(CallStep(c))

-----------------------------------------------------------------------------
(* Properties *)

PlanTypeOK ==
    /\ GateTypeOK
    /\ step \in [Steps -> [status : StepStates, attempts : 0..MaxAttempts, output : 0..MaxAttempts]]
    /\ linked \subseteq TaskSteps
    /\ expired \subseteq Steps
    /\ call \in [Calls -> {"idle", "running", "done"}]
    /\ todo \in [Calls -> SUBSET Steps]
    /\ job \in [Jobs -> JobStates]
    /\ attempt \in [Jobs -> 0..MaxAttempts]
    /\ crashes \in 0..MaxCrashes

\* Whatever claims, late completions and expiries overlap, two steps with one
\* concurrencyKey never hold a lease together (claimPlanStep).
KeyExclusive ==
    \A r, s \in Steps :
        Is(r, "running") /\ Is(s, "running") /\ KeyOf[r] = KeyOf[s] /\ KeyOf[r] # NoKey => r = s

\* A step has started only if all it depends on is complete, also when results
\* of an earlier attempt arrive late (isReady).
DependenciesDone == \A s \in Steps : ~ Is(s, "pending") => DepsDone(s)

\* A read that is in progress is the only one of its attempt: a step whose lease
\* ran out is read again under another attemptCount, so that the outputRef of
\* two reads never coincide (read-plan-step-executor.ts).
OneReadPerAttempt ==
    \A i, j \in Jobs :
        /\ job[i] \in {"executing", "failing"} /\ job[j] \in {"executing", "failing"}
        /\ i[2] = j[2] /\ attempt[i] = attempt[j]
        => i = j

\* A step that has ended is never started, ended or overwritten again by a read
\* whose lease was taken over (assertRunningAndIdempotent).
EndedStays ==
    [][\A s \in Steps : step[s].status \in {"completed", "failed"} => step'[s] = step[s]]_vars

\* A query of the call hangs, or queries that hang hold every slot of the user.
Stuck(c) ==
    LET hung == {j \in Jobs : job[j] = "hung"} IN
    \/ \E s \in Steps : <<c, s>> \in hung
    \/ Cardinality(hung) >= MaxPerUser

\* However many reads fail or come late, no call waits for ever at the gate: a
\* time comes again and again when the calls still running are kept by hanging
\* queries, their own or one at every slot (executeReadyReads, acquire).
CallsReturn == []<>(\A c \in Calls : call[c] = "running" => Stuck(c))
=============================================================================
