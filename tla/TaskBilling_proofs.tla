-------------------------- MODULE TaskBilling_proofs --------------------------
(***************************************************************************)
(* Proofs about TaskBilling: what a charge and a refund say of the task,   *)
(* for every number of tasks, workers, retries and crashes, with reports   *)
(* lost and events repeated or overtaken.                                  *)
(***************************************************************************)
EXTENDS TaskBilling, GenerationTask_proofs

Ending(w, t) == worker[w].task = t /\ worker[w].pc = "end"

\* What billing and generation know of t, while nobody has retried a task.
Billed(t) ==
    /\ status[t] # "absent" \/ Event("created", t) \in outbox => hold[t] # "none"
    /\ \A end \in EndEvents : Event(end, t) \in outbox => hold[t] = end
    /\ \A w \in Workers : Ending(w, t) => hold[t] \in EndEvents
    /\ status[t] \in {"cancelled", "expired"} => hold[t] \in EndEvents
    /\ status[t] \in {"succeeded", "failed"} => \A w \in Workers : ~ Running(w, t)
    /\ status[t] = "failed" => attempts[t] = 0
    /\ hold[t] = "refunded" => status[t] = "failed"

AllBilled == retries = 0 => \A t \in Tasks : Billed(t)

TBInv == GenInv /\ TBTypeOK /\ ChargedForSuccess /\ AllBilled

-----------------------------------------------------------------------------
(* GenInv in the composition *)

\* A call that arrives leaves generation-service as it is.
LEMMA CallArrives ==
    ASSUME GenInv, calls' \subseteq calls, UNCHANGED <<task, worker, retries, crashes>>
    PROVE  GenInv'
<1> USE DEF GenInv, task
<1>1. TypeOK' /\ WorkersOK'
  BY DEF TypeOK, WorkersOK
<1>2. \A t, type : Told(t, type)' => Told(t, type)
  BY DEF Told
<1>3. \A t, s : Says(t, s)' <=> Says(t, s)
  BY DEF Says
<1>4. SuccessKept'
  BY <1>2, <1>3 DEF SuccessKept
<1>5. ASSUME retries = 0, NEW t \in Tasks PROVE SingleRun(t)'
  <2>1. Done(t)' => Done(t)
    BY <1>2, <1>3 DEF Done
  <2>2. \A w \in Workers : (Running(w, t)' <=> Running(w, t)) /\ (Holds(w, t)' <=> Holds(w, t))
    BY DEF Running, Holds, Executing
  <2>3. QED BY <1>2, <1>3, <1>5, <2>1, <2>2 DEF OneRun, SingleRun
<1>6. QED BY <1>1, <1>4, <1>5 DEF OneRun

LEMMA GenUnchanged == GenInv /\ UNCHANGED genVars => GenInv'
  BY NextInv

LEMMA GenStep ==
    ASSUME GenInv, [TBNext]_tbVars
    PROVE  GenInv'
<1>1. ASSUME NEW t \in Tasks, Billing(t) PROVE GenInv'
  <2>1. CASE Settle(t) \/ Refund(t)
    BY <2>1, CallArrives DEF Settle, Refund, Report, B!Close, billVars
  <2>2. CASE PublishCreated(t)
    BY <2>2, CreateInv, GenUnchanged DEF PublishCreated
  <2>3. CASE \E end \in EndEvents, w \in Workers : PublishEnd(w, t, end)
    BY <2>3, CancelReadInv DEF PublishEnd
  <2>4. CASE Freeze(t) \/ UserCancel(t) \/ Timeout(t) \/ DeadlinePasses(t)
    BY <2>4, GenUnchanged DEF Freeze, UserCancel, Timeout, DeadlinePasses
  <2>5. CASE \E end \in EndEvents : Publish(t, end)
    BY <2>5, GenUnchanged DEF Publish
  <2>6. CASE \E end \in EndEvents, w \in Workers : Answer(w, t, end)
    BY <2>6, NotifyInv DEF Answer
  <2>7. QED BY <1>1, <2>1, <2>2, <2>3, <2>4, <2>5, <2>6 DEF Billing
<1>2. Generation => Next
  BY DEF Generation, Next
<1>3. CASE UNCHANGED tbVars
  BY <1>3, GenUnchanged DEF tbVars
<1>4. QED BY <1>1, <1>2, <1>3, NextInv DEF TBNext

-----------------------------------------------------------------------------
(* billing-service *)

\* What a step leaves of a worker that billing depends on.
SameWorkers(t) ==
    \A w \in Workers :
        /\ Ending(w, t)' => Ending(w, t)
        /\ Running(w, t)' => Running(w, t) \/ status[t] \in Active

LEMMA SameBilled ==
    ASSUME NEW t \in Tasks, Billed(t), SameWorkers(t),
           status'[t] = status[t], attempts'[t] = attempts[t], hold'[t] = hold[t],
           \A type : Event(type, t) \in outbox' => Event(type, t) \in outbox
    PROVE  Billed(t)'
  BY DEF Billed, SameWorkers, Active, Event, EndEvents

LEMMA StillWorkers == worker' = worker => \A t \in Tasks : SameWorkers(t)
  BY DEF SameWorkers, Ending, Running

LEMMA FreezeInv ==
    ASSUME TBInv, NEW t \in Tasks, Freeze(t)
    PROVE  TBTypeOK' /\ ChargedForSuccess' /\ AllBilled'
<1> USE DEF TBInv, Freeze, B!Freeze, genVars, task
<1>1. TBTypeOK'
  BY DEF TBTypeOK, TypeOK, Event, EndEvents
<1>2. ChargedForSuccess'
  BY DEF ChargedForSuccess, TBTypeOK
<1>3. ASSUME retries' = 0, NEW u \in Tasks PROVE Billed(u)'
  <2>1. Billed(u) /\ SameWorkers(u)
    BY <1>3, StillWorkers DEF AllBilled
  <2>2. CASE u # t
    <3>1. hold'[u] = hold[u] /\ \A type : Event(type, u) \in outbox' => Event(type, u) \in outbox
      BY <2>2 DEF TBTypeOK, Event
    <3>2. QED BY <2>1, <3>1, SameBilled
  <2>3. CASE u = t
    <3>1. hold'[u] = "pending" /\ hold[u] = "none"
      BY <2>3 DEF TBTypeOK
    <3>2. \A end \in EndEvents : Event(end, u) \notin outbox'
      BY <2>1, <3>1 DEF Billed, Event, EndEvents
    <3>3. status'[u] = "absent" /\ \A w \in Workers : ~ Ending(w, u)'
      BY <2>1, <3>1 DEF Billed, Ending, EndEvents
    <3>4. QED BY <3>1, <3>2, <3>3 DEF Billed
  <2>4. QED BY <2>2, <2>3
<1>4. QED BY <1>1, <1>2, <1>3 DEF AllBilled

\* A charge follows a success, a refund a failure; and each is the first
\* word on a task that billing has not ended itself.
LEMMA ReportInv ==
    ASSUME TBInv, NEW t \in Tasks, Settle(t) \/ Refund(t)
    PROVE  TBTypeOK' /\ ChargedForSuccess' /\ AllBilled'
<1> USE DEF TBInv, task
<1>1. PICK type \in {"settle", "fail"}, end \in {"settled", "refunded"} :
         /\ type = "settle" <=> end = "settled"
         /\ Report(t, type, end)
  BY DEF Settle, Refund
<1>2. /\ Told(t, type) /\ calls' \subseteq calls
      /\ hold' = [hold EXCEPT ![t] = IF @ = "pending" THEN end ELSE @]
      /\ UNCHANGED <<status, attempts, jobs, node, worker, retries, crashes, due, outbox>>
  BY <1>1 DEF Report, Told, Event, B!Close, billVars, TBTypeOK
<1>3. TBTypeOK'
  BY <1>2 DEF TBTypeOK, TypeOK
<1>4. ChargedForSuccess'
  <2>1. end = "settled" => attempts[t] > 0
    BY <1>1, <1>2 DEF GenInv, SuccessKept
  <2>2. QED BY <1>2, <2>1 DEF ChargedForSuccess, TBTypeOK
<1>5. ASSUME retries' = 0, NEW u \in Tasks PROVE Billed(u)'
  <2>1. Billed(u) /\ SameWorkers(u) /\ SingleRun(u)
    BY <1>2, <1>5, StillWorkers DEF AllBilled, GenInv, OneRun
  <2>2. CASE hold'[u] = hold[u]
    BY <1>2, <2>1, <2>2, SameBilled
  <2>3. CASE hold'[u] # hold[u]
    <3>1. u = t /\ hold[u] = "pending" /\ hold'[u] = end
      BY <1>2, <2>3 DEF TBTypeOK
    <3>2. end = "refunded" => Told(u, "fail")
      BY <1>1, <1>2, <3>1
    <3>3. end = "refunded" => status[u] = "failed"
      <4>1. SUFFICES ASSUME end = "refunded" PROVE status[u] = "failed"
        OBVIOUS
      <4>2. Done(u) /\ attempts[u] = 0
        BY <2>1, <3>2, <4>1 DEF Done, SingleRun
      <4>3. status[u] \in Terminal /\ status[u] \notin {"cancelled", "expired"}
        BY <2>1, <3>1, <4>2 DEF SingleRun, Billed, EndEvents
      <4>4. status[u] # "succeeded"
        BY <4>2 DEF GenInv, SuccessKept
      <4>5. QED BY <4>3, <4>4 DEF Terminal
    <3>4. \A w \in Workers : ~ Ending(w, u)'
      BY <1>2, <2>1, <3>1 DEF Billed, Ending, EndEvents
    <3>5. \A e \in EndEvents : Event(e, u) \notin outbox
      BY <2>1, <3>1 DEF Billed, EndEvents
    <3>6. \A w \in Workers : Running(w, u)' => Running(w, u)
      BY <1>2 DEF Running
    <3>7. hold'[u] # "none" /\ status'[u] = status[u] /\ attempts'[u] = attempts[u] /\ outbox' = outbox
      BY <1>1, <1>2, <3>1
    <3>8. status[u] \notin {"cancelled", "expired"}
      BY <2>1, <3>1 DEF Billed, EndEvents
    <3>9. QED
      BY <2>1, <3>1, <3>3, <3>4, <3>5, <3>6, <3>7, <3>8 DEF Billed
  <2>4. QED BY <2>2, <2>3
<1>6. QED BY <1>3, <1>4, <1>5 DEF AllBilled

LEMMA ReleaseInv ==
    ASSUME TBInv, NEW t \in Tasks, NEW end \in EndEvents, B!Release(t, end), UNCHANGED genVars
    PROVE  TBTypeOK' /\ ChargedForSuccess' /\ AllBilled'
<1> USE DEF TBInv, B!Release, genVars, task
<1>1. TBTypeOK'
  BY DEF TBTypeOK, TypeOK, Event, EndEvents
<1>2. ChargedForSuccess'
  BY DEF ChargedForSuccess, TBTypeOK, EndEvents
<1>3. ASSUME retries' = 0, NEW u \in Tasks PROVE Billed(u)'
  <2>1. Billed(u) /\ SameWorkers(u)
    BY <1>3, StillWorkers DEF AllBilled
  <2>2. CASE u # t
    <3>1. hold'[u] = hold[u] /\ \A type : Event(type, u) \in outbox' => Event(type, u) \in outbox
      BY <2>2 DEF TBTypeOK, Event
    <3>2. QED BY <2>1, <3>1, SameBilled
  <2>3. CASE u = t
    <3>1. hold'[u] = end /\ hold[u] = "pending"
      BY <2>3 DEF TBTypeOK
    <3>2. \A e \in EndEvents : Event(e, u) \in outbox' => e = end
      BY <2>1, <3>1 DEF Billed, Event, EndEvents
    <3>3. \A w \in Workers : Running(w, u)' => Running(w, u)
      BY DEF Running
    <3>4. QED BY <2>1, <3>1, <3>2, <3>3 DEF Billed, EndEvents
  <2>4. QED BY <2>2, <2>3
<1>4. QED BY <1>1, <1>2, <1>3 DEF AllBilled

-----------------------------------------------------------------------------
(* OutboxPublisher *)

\* An event leaves the outbox, or its deadline passes, and nothing else happens.
LEMMA PublisherInv ==
    ASSUME TBInv, NEW t \in Tasks, UNCHANGED <<genVars, hold>>,
           due' \subseteq Tasks, outbox' \subseteq outbox
    PROVE  TBTypeOK' /\ ChargedForSuccess' /\ AllBilled'
<1> USE DEF TBInv, genVars, task
<1>1. TBTypeOK' /\ ChargedForSuccess'
  BY DEF TBTypeOK, TypeOK, ChargedForSuccess
<1>2. ASSUME retries' = 0, NEW u \in Tasks PROVE Billed(u)'
  BY <1>2, StillWorkers, SameBilled DEF AllBilled
<1>3. QED BY <1>1, <1>2 DEF AllBilled

LEMMA CreatedInv ==
    ASSUME TBInv, GenInv', NEW t \in Tasks, PublishCreated(t)
    PROVE  TBTypeOK' /\ ChargedForSuccess' /\ AllBilled'
<1> USE DEF TBInv, genVars, task
<1>1. /\ Event("created", t) \in outbox /\ outbox' \subseteq outbox
      /\ UNCHANGED <<hold, due>>
  BY DEF PublishCreated, Sent
<1>2. CASE UNCHANGED genVars
  BY <1>1, <1>2, PublisherInv DEF TBTypeOK
<1>3. CASE Create(t)
  <2>1. TBTypeOK' /\ ChargedForSuccess'
    BY <1>1, <1>3 DEF TBTypeOK, GenInv, ChargedForSuccess, Create
  <2>2. ASSUME retries' = 0, NEW u \in Tasks PROVE Billed(u)'
    <3>1. Billed(u) /\ SameWorkers(u)
      BY <1>3, <2>2, StillWorkers DEF AllBilled, Create
    <3>2. CASE u # t
      BY <1>1, <1>3, <3>1, <3>2, SameBilled DEF Create, TBTypeOK, TypeOK
    <3>3. CASE u = t
      <4>1. status'[u] = "queued" /\ status[u] = "absent" /\ UNCHANGED <<worker, hold>>
        BY <1>1, <1>3, <3>3 DEF Create, TBTypeOK, TypeOK
      <4>2. hold[u] # "none" /\ hold[u] # "refunded"
        BY <1>1, <3>1, <3>3, <4>1 DEF Billed
      <4>3. \A w \in Workers : Ending(w, u)' <=> Ending(w, u)
        BY <4>1 DEF Ending
      <4>4. QED BY <1>1, <3>1, <4>1, <4>2, <4>3 DEF Billed
    <3>4. QED BY <3>2, <3>3
  <2>3. QED BY <2>1, <2>2 DEF AllBilled
<1>4. QED BY <1>2, <1>3 DEF PublishCreated

LEMMA EndInv ==
    ASSUME TBInv, GenInv', NEW t \in Tasks, NEW w \in Workers, NEW end \in EndEvents,
           PublishEnd(w, t, end)
    PROVE  TBTypeOK' /\ ChargedForSuccess' /\ AllBilled'
<1> DEFINE x == [pc |-> "end", task |-> t, said |-> "cancelled", todo |-> <<>>]
<1> USE DEF TBInv, task
<1>1. /\ Event(end, t) \in outbox
      /\ UNCHANGED <<status, attempts, jobs, node, calls, retries, crashes, hold, due, outbox>>
      /\ worker' = [worker EXCEPT ![w] = x]
  BY DEF PublishEnd, CancelRead, Goto, billVars
<1>2. TBTypeOK' /\ ChargedForSuccess'
  BY <1>1 DEF TBTypeOK, GenInv, ChargedForSuccess
<1>3. \A v \in Workers : worker'[v] = IF v = w THEN x ELSE worker[v]
  BY <1>1 DEF TBTypeOK, TypeOK
<1>4. ASSUME retries' = 0, NEW u \in Tasks PROVE Billed(u)'
  <2>1. Billed(u) /\ (u = t => hold[u] \in EndEvents)
    BY <1>1, <1>4 DEF AllBilled, Billed
  <2>2. \A v \in Workers : Running(v, u)' => Running(v, u)
    BY <1>3 DEF Running
  <2>3. \A v \in Workers : Ending(v, u)' => Ending(v, u) \/ u = t
    BY <1>3 DEF Ending
  <2>4. QED BY <1>1, <2>1, <2>2, <2>3 DEF Billed
<1>5. QED BY <1>2, <1>4 DEF AllBilled

-----------------------------------------------------------------------------
(* generation-service *)

\* Outputs are only ever added, and what billing decides it decides alone.
LEMMA GenerationKeeps ==
    ASSUME TBInv, GenInv', Generation
    PROVE  TBTypeOK' /\ ChargedForSuccess'
<1> USE DEF TBInv
<1>1. UNCHANGED <<hold, due, outbox>>
  BY DEF Generation, billVars
<1>2. TBTypeOK'
  BY <1>1 DEF TBTypeOK, GenInv
<1>3. \A t \in Tasks : attempts'[t] \in Nat /\ attempts[t] \in Nat /\ attempts'[t] >= attempts[t]
  <2>1. attempts \in [Tasks -> Nat] /\ attempts' \in [Tasks -> Nat]
    BY <1>2 DEF TBTypeOK, TypeOK
  <2>2. attempts' = attempts \/ \E w \in Workers : Succeed(w)
    BY DEF Generation, LoseJob, Run, Start, Fail, Raise, FailRaised, NotifyCanvas, NotifyAgent,
           AgentUnreachable, NotifyBilling, EndWrite, RetryWrite, Crash, Claim, RetryRead, task
  <2>3. QED BY <2>1, <2>2 DEF Succeed
<1>4. QED BY <1>1, <1>2, <1>3 DEF ChargedForSuccess

\* A step that writes neither a status nor an attempt, and announces no end.
LEMMA QuietBilled ==
    ASSUME TBInv, retries' = 0 => retries = 0, UNCHANGED <<status, attempts, hold>>,
           outbox' \subseteq outbox, \A t \in Tasks : SameWorkers(t)
    PROVE  AllBilled'
<1>1. ASSUME retries' = 0, NEW t \in Tasks PROVE Billed(t)'
  BY <1>1, SameBilled DEF TBInv, AllBilled
<1>2. QED BY <1>1 DEF AllBilled

\* A handler that stops, or goes on to pc, without a run or an end to write.
LEMMA Going ==
    ASSUME TypeOK, NEW w \in Workers, NEW pc, NEW t, NEW said, NEW todo,
           Goto(w, pc, t, said, todo), pc # "end",
           pc \notin {"claimed", "working", "except"} \/ status[t] \in Active
    PROVE  \A u \in Tasks : SameWorkers(u)
<1> DEFINE x == [pc |-> pc, task |-> t, said |-> said, todo |-> todo]
<1>1. \A v \in Workers : worker'[v] = IF v = w THEN x ELSE worker[v]
  BY DEF TypeOK, Goto
<1>2. x.pc = pc /\ x.task = t
  OBVIOUS
<1> HIDE DEF x
<1>3. QED BY <1>1, <1>2 DEF SameWorkers, Ending, Running

LEMMA Stopping ==
    ASSUME TypeOK, NEW w \in Workers, Stop(w)
    PROVE  \A u \in Tasks : SameWorkers(u)
<1>1. Goto(w, "idle", NoTask, "none", <<>>)
  BY DEF Stop, Goto, Idle
<1>2. QED BY <1>1, Going

LEMMA Proceeding ==
    ASSUME TypeOK, NEW w \in Workers, Proceed(w)
    PROVE  \A u \in Tasks : SameWorkers(u)
<1>1. CASE Stop(w)
  BY <1>1, Stopping
<1>2. CASE ~ Stop(w)
  <2>1. /\ worker' = [worker EXCEPT ![w].todo = Tail(worker[w].todo)]
        /\ worker \in [Workers -> WorkerType]
    BY <1>2 DEF Proceed, TypeOK, WorkerType
  <2>2. \A v \in Workers : worker'[v].pc = worker[v].pc /\ worker'[v].task = worker[v].task
    BY <2>1 DEF WorkerType
  <2>3. QED BY <2>2 DEF SameWorkers, Ending, Running
<1>3. QED BY <1>1, <1>2

LEMMA QuietWorker ==
    ASSUME TBInv, NEW w \in Workers, Generation,
           \/ Raise(w) \/ NotifyCanvas(w) \/ NotifyAgent(w) \/ AgentUnreachable(w)
           \/ NotifyBilling(w) \/ Crash(w) \/ (\E t \in Tasks : Claim(w, t))
    PROVE  AllBilled'
<1> USE DEF TBInv
<1>1. UNCHANGED <<status, attempts, retries, hold>> /\ outbox' \subseteq outbox
  BY DEF Generation, billVars, Raise, NotifyCanvas, NotifyAgent, AgentUnreachable, NotifyBilling, Crash,
         Claim, task
<1>2. Stop(w) \/ Proceed(w) \/ Except(w)
        \/ \E t \in Tasks : status[t] = "queued" /\ Goto(w, "claimed", t, "none", <<>>)
  BY DEF Raise, NotifyCanvas, NotifyAgent, AgentUnreachable, NotifyBilling, Crash, Claim
<1>3. TypeOK
  BY DEF GenInv
<1>4. CASE Stop(w)
  BY <1>1, <1>3, <1>4, Stopping, QuietBilled
<1>5. CASE \E t \in Tasks : status[t] = "queued" /\ Goto(w, "claimed", t, "none", <<>>)
  <2>1. PICK t \in Tasks : status[t] = "queued" /\ Goto(w, "claimed", t, "none", <<>>)
    BY <1>5
  <2>2. \A u \in Tasks : SameWorkers(u)
    BY <1>3, <2>1, Going DEF Active
  <2>3. QED BY <1>1, <2>2, QuietBilled
<1>6. CASE Except(w)
  <2>1. CASE status[worker[w].task] \in Active /\ Goto(w, "except", worker[w].task, "none", <<>>)
    <3>1. \A u \in Tasks : SameWorkers(u)
      BY <1>3, <2>1, Going
    <3>2. QED BY <1>1, <3>1, QuietBilled
  <2>2. QED BY <1>4, <1>6, <2>1 DEF Except
<1>7. CASE Proceed(w)
  BY <1>1, <1>3, <1>7, Proceeding, QuietBilled
<1>8. QED BY <1>2, <1>4, <1>5, <1>6, <1>7

\* The steps of an execution that write the status.
LEMMA RunBilled ==
    ASSUME TBInv, NEW w \in Workers, Generation,
           Start(w) \/ Succeed(w) \/ Fail(w) \/ FailRaised(w)
    PROVE  AllBilled'
<1> DEFINE t == worker[w].task
<1> USE DEF TBInv
<1>1. PICK s \in {"running", "succeeded", "failed"},
           todo \in {<<"canvas">>, <<"canvas", "agent", "billing">>, <<"billing", "canvas", "agent">>} :
         /\ status' = [status EXCEPT ![t] = s]
         /\ Goto(w, IF s = "running" THEN "working" ELSE "notify", t, s, todo)
         /\ attempts' = IF s = "succeeded" THEN [attempts EXCEPT ![t] = @ + 1] ELSE attempts
  BY DEF Start, Succeed, Fail, FailRaised
<1>2. worker[w].pc \in {"claimed", "working", "except"} /\ t \in Tasks /\ retries' = retries
  BY DEF Start, Succeed, Fail, FailRaised, At, GenInv, TypeOK, WorkersOK, WorkerOK
<1>3. UNCHANGED <<hold, due, outbox>>
  BY DEF Generation, billVars
<1>4. /\ worker'[w].task = t
      /\ worker'[w].pc = IF s = "running" THEN "working" ELSE "notify"
      /\ \A v \in Workers \ {w} : worker'[v] = worker[v]
  BY <1>1 DEF Goto, GenInv, TypeOK
<1>5. status \in [Tasks -> Statuses] /\ attempts \in [Tasks -> Nat]
  BY DEF GenInv, TypeOK
<1>6. ASSUME retries' = 0, NEW u \in Tasks PROVE Billed(u)'
  <2>1. Billed(u) /\ SingleRun(u)
    BY <1>2, <1>6 DEF AllBilled, GenInv, OneRun
  <2>2. \A v \in Workers : Ending(v, u)' => Ending(v, u)
    BY <1>1, <1>4 DEF Ending
  <2>3. CASE u # t
    <3>1. \A v \in Workers : Running(v, u)' => Running(v, u)
      BY <1>1, <1>4, <2>3 DEF Running
    <3>2. status'[u] = status[u] /\ attempts'[u] = attempts[u]
      BY <1>1, <1>5, <2>3
    <3>3. QED BY <1>3, <2>1, <2>2, <3>1, <3>2, SameBilled DEF SameWorkers
  <2>4. CASE u = t
    <3>1. Running(w, u) /\ Holds(w, u)
      BY <1>2, <2>4 DEF Running, Holds, Executing
    <3>2. ~ Done(u) /\ attempts[u] = 0 /\ hold[u] # "refunded" /\ hold[u] # "none"
      BY <1>5, <2>1, <3>1 DEF SingleRun, Done, Billed, Running
    <3>3. status'[u] = s /\ s \in {"running", "succeeded", "failed"} /\ (s = "failed" => attempts'[u] = 0)
      BY <1>1, <1>2, <1>5, <2>4, <3>2
    <3>4. s # "running" => \A v \in Workers : ~ Running(v, u)'
      BY <1>1, <1>4, <2>1, <3>1 DEF SingleRun, Running, Holds, Executing
    <3>5. QED BY <1>3, <2>1, <2>2, <3>2, <3>3, <3>4 DEF Billed
  <2>5. QED BY <2>3, <2>4
<1>7. QED BY <1>6 DEF AllBilled

LEMMA EndBilled ==
    ASSUME TBInv, NEW w \in Workers, Generation, EndWrite(w)
    PROVE  AllBilled'
<1> DEFINE t == worker[w].task
           x == [pc |-> "notify", task |-> t, said |-> worker[w].said, todo |-> <<"canvas", "agent">>]
<1> USE DEF TBInv
<1>1. /\ t \in Tasks /\ worker[w].pc = "end" /\ worker[w].said \in {"cancelled", "expired"}
      /\ status' = [status EXCEPT ![t] = worker[w].said]
      /\ worker' = [worker EXCEPT ![w] = x]
      /\ attempts' = attempts /\ retries' = retries /\ UNCHANGED <<hold, due, outbox>>
  BY DEF EndWrite, At, Goto, GenInv, TypeOK, WorkersOK, WorkerOK, Generation, billVars
<1>2. TypeOK
  BY DEF GenInv
<1>3. ASSUME retries' = 0, NEW u \in Tasks PROVE Billed(u)'
  <2>1. Billed(u) /\ SameWorkers(u)
    BY <1>1, <1>2, <1>3, Going DEF AllBilled, EndWrite
  <2>2. CASE u # t
    BY <1>1, <1>2, <2>1, <2>2, SameBilled DEF TypeOK
  <2>3. CASE u = t
    <3>1. hold[u] \in EndEvents
      BY <1>1, <2>1, <2>3 DEF Billed, Ending
    <3>2. status'[u] \in {"cancelled", "expired"}
      BY <1>1, <1>2, <2>3 DEF TypeOK
    <3>3. QED BY <1>1, <2>1, <3>1, <3>2 DEF Billed, EndEvents, SameWorkers
  <2>4. QED BY <2>2, <2>3
<1>4. QED BY <1>3 DEF AllBilled

LEMMA GenerationBilled ==
    ASSUME TBInv, Generation
    PROVE  AllBilled'
<1>1. CASE \E t \in Tasks : LoseJob(t)
  BY <1>1, StillWorkers, QuietBilled DEF LoseJob, Generation, billVars
<1>2. ASSUME NEW w \in Workers, Run(w) PROVE AllBilled'
  BY <1>2, QuietWorker, RunBilled DEF Run
<1>3. ASSUME NEW w \in Workers, RetryWrite(w) \/ \E t \in Tasks : RetryRead(w, t) PROVE AllBilled'
  BY <1>3 DEF RetryWrite, RetryRead, At, TBInv, GenInv, TypeOK, WorkersOK, WorkerOK, AllBilled
<1>4. ASSUME NEW w \in Workers, Crash(w) \/ \E t \in Tasks : Claim(w, t) PROVE AllBilled'
  BY <1>4, QuietWorker
<1>5. ASSUME NEW w \in Workers, EndWrite(w) PROVE AllBilled'
  BY <1>5, EndBilled
<1>6. QED BY <1>1, <1>2, <1>3, <1>4, <1>5 DEF Generation

\* The last call of a handler that has written an end, and the mark of its event.
LEMMA AnswerInv ==
    ASSUME TBInv, GenInv', NEW t \in Tasks, NEW w \in Workers, NEW end \in EndEvents,
           Answer(w, t, end)
    PROVE  TBTypeOK' /\ ChargedForSuccess' /\ AllBilled'
<1> USE DEF TBInv
<1>1. /\ UNCHANGED <<status, attempts, retries, hold, due>> /\ outbox' \subseteq outbox
      /\ Proceed(w)
  BY DEF Answer, NotifyAgent, task
<1>2. TBTypeOK' /\ ChargedForSuccess'
  BY <1>1 DEF TBTypeOK, GenInv, ChargedForSuccess
<1>3. AllBilled'
  BY <1>1, Proceeding, QuietBilled DEF GenInv
<1>4. QED BY <1>2, <1>3

-----------------------------------------------------------------------------
(* The invariant and what follows from it *)

LEMMA TBInitInv == TBInit => TBInv
<1> SUFFICES ASSUME TBInit PROVE TBInv
  OBVIOUS
<1>1. GenInv
  BY InitInv DEF TBInit
<1>2. TBTypeOK /\ ChargedForSuccess
  BY <1>1 DEF TBInit, B!Init, GenInv, TBTypeOK, ChargedForSuccess
<1>3. \A t \in Tasks : Billed(t)
  BY DEF TBInit, B!Init, Init, Idle, Billed, Ending
<1>4. QED BY <1>1, <1>2, <1>3 DEF TBInv, AllBilled

LEMMA TBNextInv == TBInv /\ [TBNext]_tbVars => TBInv'
<1> SUFFICES ASSUME TBInv, [TBNext]_tbVars PROVE TBInv'
  OBVIOUS
<1>1. GenInv'
  BY GenStep DEF TBInv
<1>2. ASSUME NEW t \in Tasks, Billing(t) PROVE TBTypeOK' /\ ChargedForSuccess' /\ AllBilled'
  <2>1. CASE Freeze(t)
    BY <2>1, FreezeInv
  <2>2. CASE Settle(t) \/ Refund(t)
    BY <2>2, ReportInv
  <2>3. CASE UserCancel(t) \/ Timeout(t)
    BY <2>3, ReleaseInv DEF UserCancel, Timeout, B!Cancel, B!Timeout, EndEvents
  <2>4. CASE DeadlinePasses(t) \/ \E end \in EndEvents : Publish(t, end)
    BY <2>4, PublisherInv DEF DeadlinePasses, B!DeadlinePasses, Publish, TBInv, TBTypeOK
  <2>5. CASE PublishCreated(t)
    BY <1>1, <2>5, CreatedInv
  <2>6. CASE \E end \in EndEvents, w \in Workers : PublishEnd(w, t, end)
    BY <1>1, <2>6, EndInv
  <2>7. CASE \E end \in EndEvents, w \in Workers : Answer(w, t, end)
    BY <1>1, <2>7, AnswerInv
  <2>8. QED BY <1>2, <2>1, <2>2, <2>3, <2>4, <2>5, <2>6, <2>7 DEF Billing
<1>3. CASE Generation
  BY <1>1, <1>3, GenerationKeeps, GenerationBilled DEF TBInv
<1>4. CASE UNCHANGED tbVars
  BY <1>1, <1>4 DEF tbVars, billVars, genVars, task, TBInv, TBTypeOK, GenInv, ChargedForSuccess,
                    AllBilled, Billed, Ending, Running
<1>5. QED BY <1>1, <1>2, <1>3, <1>4 DEF TBNext, TBInv

LEMMA TBInvariant == TBSpec => []TBInv
  BY TBInitInv, TBNextInv, PTL DEF TBSpec

\* Both services' variables keep their types.
THEOREM BothTyped == TBSpec => []TBTypeOK
<1>1. TBInv => TBTypeOK
  BY DEF TBInv
<1>2. QED BY <1>1, TBInvariant, PTL

\* Points are charged only if an execution succeeded (settle).
THEOREM NoChargeWithoutSuccess == TBSpec => []ChargedForSuccess
<1>1. TBInv => ChargedForSuccess
  BY DEF TBInv
<1>2. QED BY <1>1, TBInvariant, PTL

\* A charged task has succeeded and stays so, unless it is retried.
THEOREM ChargeStands == TBSpec => []ChargedIsSucceeded
<1>1. ASSUME TBInv PROVE ChargedIsSucceeded
  <2>1. SUFFICES ASSUME NEW t \in Tasks, hold[t] = "settled", retries = 0
                 PROVE  status[t] = "succeeded"
    BY DEF ChargedIsSucceeded
  <2>2. attempts[t] > 0 /\ Billed(t) /\ SingleRun(t)
    BY <1>1, <2>1 DEF TBInv, ChargedForSuccess, AllBilled, GenInv, OneRun
  <2>3. status[t] \in Terminal \ {"cancelled", "expired", "failed"}
    BY <2>1, <2>2 DEF SingleRun, Done, Billed, EndEvents
  <2>4. QED BY <2>3 DEF Terminal
<1>2. QED BY <1>1, TBInvariant, PTL

\* A refund that generation reported is for a task that failed and delivered
\* nothing, unless it is retried.
THEOREM RefundStands == TBSpec => []RefundedHasFailed
<1>1. TBInv => RefundedHasFailed
  BY DEF TBInv, AllBilled, Billed, RefundedHasFailed
<1>2. QED BY <1>1, TBInvariant, PTL

-----------------------------------------------------------------------------
(* Billing's part *)

LEMMA PublisherHolds ==
    ASSUME NEW event \in outbox, outbox' \in {outbox, outbox \ {event}}, UNCHANGED <<hold, due>>
    PROVE  [B!Next]_(B!holdVars)
  BY DEF B!Published, B!Next, B!holdVars

LEMMA BillingHolds ==
    ASSUME TBTypeOK, NEW t \in Tasks, Billing(t)
    PROVE  [B!Next]_(B!holdVars)
<1>1. CASE Freeze(t) \/ UserCancel(t) \/ Timeout(t) \/ DeadlinePasses(t)
  BY <1>1 DEF Freeze, UserCancel, Timeout, DeadlinePasses, B!Next
<1>2. CASE Settle(t) \/ Refund(t)
  BY <1>2 DEF Settle, Refund, Report, billVars, B!Next, B!holdVars
<1>3. CASE PublishCreated(t)
  <2>1. outbox' \in {outbox, outbox \ {Event("created", t)}}
    BY <1>3 DEF PublishCreated, Sent
  <2>2. QED BY <1>3, <2>1, PublisherHolds DEF PublishCreated
<1>4. CASE \E end \in EndEvents : Publish(t, end)
  BY <1>4, PublisherHolds DEF Publish
<1>5. CASE \E end \in EndEvents, w \in Workers : PublishEnd(w, t, end)
  BY <1>5 DEF PublishEnd, billVars, B!holdVars
<1>6. CASE \E end \in EndEvents, w \in Workers : Answer(w, t, end)
  BY <1>6, PublisherHolds DEF Answer
<1>7. QED BY <1>1, <1>2, <1>3, <1>4, <1>5, <1>6 DEF Billing

\* The reservation and the outbox of a task take the steps of Holds and no others:
\* generation-service moves them only through the calls it makes and answers.
THEOREM BillingIsHolds == TBSpec => B!Spec
<1>1. TBInit => B!Init
  BY DEF TBInit
<1>2. ASSUME TBInv, [TBNext]_tbVars PROVE [B!Next]_(B!holdVars)
  <2>1. CASE \E t \in Tasks : Billing(t)
    BY <1>2, <2>1, BillingHolds DEF TBInv
  <2>2. CASE Generation \/ UNCHANGED tbVars
    BY <2>2 DEF Generation, tbVars, billVars, B!holdVars
  <2>3. QED BY <1>2, <2>1, <2>2 DEF TBNext
<1>3. QED BY <1>1, <1>2, TBInvariant, PTL DEF TBSpec, B!Spec
=============================================================================
