------------------------ MODULE GenerationTask_proofs ------------------------
(***************************************************************************)
(* Proofs about GenerationTask: its types, and what it says of successes,   *)
(* executions and outcomes, for every number of tasks, workers, retries    *)
(* and crashes.                                                            *)
(***************************************************************************)
EXTENDS GenerationTask, TLAPS

WorkerType == [pc : {"idle", "claimed", "working", "except", "notify", "end", "retry"},
               task : Tasks \cup {NoTask}, said : Statuses \cup {"none"},
               todo : Seq({"canvas", "agent", "billing"})]

\* What the place of a handler says about it.
WorkerOK(x, n) ==
    /\ x.pc # "idle" => x.task \in Tasks
    /\ x.pc = "idle" => x.task = NoTask
    /\ x.pc = "end" => x.said \in {"cancelled", "expired"}
    /\ x.pc = "retry" => n > 0
    /\ x.said \in {"succeeded", "failed"} => x.pc = "notify"
    /\ x.todo # <<>> => x.pc \in {"working", "notify"} /\ x.said # "none"
    /\ \A i \in 1..Len(x.todo) : x.todo[i] = "billing" => x.said \in {"succeeded", "failed"}

WorkersOK == \A w \in Workers : WorkerOK(worker[w], retries)

Says(t, s) == \E w \in Workers : worker[w].task = t /\ worker[w].said = s
Told(t, type) == [type |-> type, task |-> t] \in calls

\* A success that is stored, shown or told, here or to billing, is an execution's:
\* also one about to be announced.
SuccessKept ==
    \A t \in Tasks :
        status[t] = "succeeded" \/ node[t] = "succeeded" \/ Told(t, "settle") \/ Says(t, "succeeded")
            => attempts[t] > 0

\* An execution of t has reached its outcome.
Done(t) == attempts[t] > 0 \/ Told(t, "fail") \/ Says(t, "failed") \/ Says(t, "succeeded")

\* w is running t, short of its outcome.
Running(w, t) == worker[w].task = t /\ worker[w].pc \in {"claimed", "working", "except"}
Holds(w, t)   == worker[w].task = t /\ Executing(w)

\* What holds of t while nobody has retried a task.
SingleRun(t) ==
    /\ status[t] = "absent" => jobs[t] = 0 /\ ~ Done(t) /\ \A w \in Workers : worker[w].task # t
    /\ jobs[t] <= 1 /\ attempts[t] <= 1
    /\ \A w \in Workers : Holds(w, t) => jobs[t] = 0
    /\ \A v, w \in Workers : Holds(v, t) /\ Holds(w, t) => v = w
    /\ Done(t) => status[t] \in Terminal /\ \A w \in Workers : ~ Running(w, t)
    /\ Told(t, "fail") \/ Says(t, "failed") => attempts[t] = 0

OneRun == retries = 0 => \A t \in Tasks : SingleRun(t)

GenInv == TypeOK /\ WorkersOK /\ SuccessKept /\ OneRun

-----------------------------------------------------------------------------
\* Worker w becomes x and no other worker changes.
Becomes(w, x) == worker'[w] = x /\ \A v \in Workers \ {w} : worker'[v] = worker[v]

LEMMA WorkerStep ==
    ASSUME TypeOK, WorkersOK, NEW w \in Workers, NEW x \in WorkerType,
           worker' = [worker EXCEPT ![w] = x],
           retries' \in Nat, retries' >= retries, WorkerOK(x, retries')
    PROVE  /\ worker' \in [Workers -> WorkerType]
           /\ WorkersOK'
           /\ Becomes(w, x)
<1>1. worker \in [Workers -> WorkerType] /\ retries \in Nat
  BY TaskAssumption DEF TypeOK, WorkerType
<1>2. worker' \in [Workers -> WorkerType] /\ Becomes(w, x)
  BY <1>1 DEF Becomes
<1>3. ASSUME NEW v \in Workers, v # w PROVE WorkerOK(worker'[v], retries')
  BY <1>1, <1>2, <1>3 DEF WorkersOK, WorkerOK, Becomes
<1>4. WorkerOK(worker'[w], retries')
  BY <1>2 DEF Becomes, WorkerOK
<1>5. QED BY <1>2, <1>3, <1>4 DEF WorkersOK

LEMMA IdleOK == Idle \in WorkerType /\ \A n \in Nat : WorkerOK(Idle, n)
  BY DEF Idle, WorkerType, WorkerOK

-----------------------------------------------------------------------------
\* A handler that goes on from y to x without starting a run or an outcome.
ExecutingAt(x) ==
    \/ x.pc \in {"claimed", "working", "except"}
    \/ x.pc = "notify" /\ x.said \in {"succeeded", "failed"}

Silent(x, y) == x.said \in {"succeeded", "failed"} => x.said = y.said /\ x.task = y.task

Tame(x, y) ==
    /\ x.task \in Tasks => x.task = y.task \/ status[x.task] # "absent"
    /\ Silent(x, y)
    /\ x.pc \in {"claimed", "working", "except"} =>
          y.pc \in {"claimed", "working", "except"} /\ x.task = y.task
    /\ ExecutingAt(x) => ExecutingAt(y) /\ x.task = y.task

LEMMA SilentWorker ==
    ASSUME NEW w \in Workers, NEW x, Becomes(w, x), Silent(x, worker[w]), NEW u \in Tasks
    PROVE  \A s \in {"succeeded", "failed"} : Says(u, s)' => Says(u, s)
  BY DEF Says, Silent, Becomes

LEMMA TameWorker ==
    ASSUME NEW w \in Workers, NEW x, Becomes(w, x), Tame(x, worker[w]), NEW u \in Tasks
    PROVE  /\ \A s \in {"succeeded", "failed"} : Says(u, s)' => Says(u, s)
           /\ \A v \in Workers : Running(v, u)' => Running(v, u)
           /\ \A v \in Workers : Holds(v, u)' => Holds(v, u)
           /\ \A v \in Workers : worker'[v].task = u => worker[v].task = u \/ status[u] # "absent"
<1>1. \A s \in {"succeeded", "failed"} : Says(u, s)' => Says(u, s)
  BY SilentWorker DEF Tame
<1>2. ASSUME NEW v \in Workers
      PROVE  /\ Running(v, u)' => Running(v, u)
             /\ Holds(v, u)' => Holds(v, u)
             /\ worker'[v].task = u => worker[v].task = u \/ status[u] # "absent"
  BY DEF Running, Holds, Executing, ExecutingAt, Tame, Becomes
<1>3. QED BY <1>1, <1>2

\* Such a step leaves a single run single, whatever it writes that is allowed.
LEMMA TameStep ==
    ASSUME NEW w \in Workers, NEW x, Becomes(w, x), Tame(x, worker[w]),
           NEW u \in Tasks, SingleRun(u),
           \/ status'[u] = status[u]
           \/ status[u] # "absent" /\ status'[u] \in Terminal
           \/ status[u] # "absent" /\ status'[u] # "absent" /\ ~ Done(u),
           attempts'[u] = attempts[u], jobs'[u] = jobs[u],
           Told(u, "fail")' => Told(u, "fail") \/ Says(u, "failed")
    PROVE  SingleRun(u)'
<1>1. Done(u)' => Done(u)
  BY TameWorker DEF Done
<1>2. status'[u] = "absent" => status[u] = "absent"
  BY DEF Terminal
<1>3. QED BY <1>1, <1>2, TameWorker DEF SingleRun

\* What is written of a success was said before, and the rest is tame.
Modest(u) ==
    /\ status'[u] = "succeeded" => status[u] = "succeeded"
    /\ node'[u] = "succeeded" => node[u] = "succeeded" \/ Says(u, "succeeded")
    /\ Told(u, "settle")' => Told(u, "settle") \/ Says(u, "succeeded")
    /\ Told(u, "fail")' => Told(u, "fail") \/ Says(u, "failed")
    /\ retries = 0 =>
          \/ status'[u] = status[u]
          \/ status[u] # "absent" /\ status'[u] \in Terminal
          \/ status[u] # "absent" /\ status'[u] # "absent" /\ ~ Done(u)

LEMMA TameInv ==
    ASSUME SuccessKept, OneRun, NEW w \in Workers, NEW x, Becomes(w, x),
           Silent(x, worker[w]), retries = 0 => Tame(x, worker[w]),
           UNCHANGED <<attempts, jobs>>, retries' = 0 => retries = 0,
           \A u \in Tasks : Modest(u)
    PROVE  SuccessKept' /\ OneRun'
<1>1. SuccessKept'
  BY SilentWorker DEF SuccessKept, Modest
<1>2. ASSUME retries' = 0, NEW u \in Tasks PROVE SingleRun(u)'
  BY <1>2, TameStep DEF OneRun, Modest
<1>3. QED BY <1>1, <1>2 DEF OneRun

\* The next call of a list keeps a handler tame and well formed.
LEMMA ProceedStep ==
    ASSUME TypeOK, WorkersOK, NEW w \in Workers, worker[w].todo # <<>>, Proceed(w),
           retries' = retries
    PROVE  /\ worker' \in [Workers -> WorkerType]
           /\ WorkersOK'
           /\ \E x \in WorkerType : Becomes(w, x) /\ Tame(x, worker[w])
<1> DEFINE rest == Tail(worker[w].todo)
           y == [worker[w] EXCEPT !.todo = rest]
<1>1. worker[w] \in WorkerType /\ WorkerOK(worker[w], retries) /\ retries \in Nat
  BY TaskAssumption DEF TypeOK, WorkersOK, WorkerType
<1>2. rest \in Seq({"canvas", "agent", "billing"}) /\ Len(rest) = Len(worker[w].todo) - 1
      /\ \A i \in 1..Len(rest) : rest[i] = worker[w].todo[i + 1]
  BY <1>1 DEF WorkerType
<1>r. retries' \in Nat /\ retries' >= retries
  BY <1>1
<1>3. CASE worker' = [worker EXCEPT ![w] = Idle]
  <2>1. Tame(Idle, worker[w])
    BY TaskAssumption DEF Tame, Silent, Idle, ExecutingAt
  <2>2. worker' \in [Workers -> WorkerType] /\ WorkersOK' /\ Becomes(w, Idle)
    <3>1. WorkerOK(Idle, retries') /\ Idle \in WorkerType
      BY <1>r, IdleOK
    <3>2. QED BY ONLY <3>1, <1>r, <1>3, WorkerStep, TypeOK, WorkersOK, w \in Workers
  <2>3. QED BY <2>1, <2>2, IdleOK
<1>4. CASE worker' = [worker EXCEPT ![w] = y]
  <2>1. y \in WorkerType
    BY <1>1, <1>2 DEF WorkerType
  <2>2. y.pc = worker[w].pc /\ y.task = worker[w].task /\ y.said = worker[w].said /\ y.todo = rest
    BY <1>1 DEF WorkerType
  <2>3. \A i \in 1..Len(rest) : i + 1 \in 1..Len(worker[w].todo)
    BY <1>1, <1>2 DEF WorkerType
  <2>4. WorkerOK(y, retries')
    BY ONLY <1>1, <1>2, <2>2, <2>3, retries' = retries, worker[w].todo # <<>> DEF WorkerOK
  <2>5. Tame(y, worker[w])
    BY <2>2 DEF Tame, Silent, ExecutingAt
  <2>6. worker' \in [Workers -> WorkerType] /\ WorkersOK' /\ Becomes(w, y)
    <3> HIDE DEF y
    <3>1. QED BY ONLY <1>r, <1>4, <2>1, <2>4, WorkerStep, TypeOK, WorkersOK, w \in Workers
  <2>7. QED BY <2>1, <2>5, <2>6
<1>5. QED BY <1>3, <1>4 DEF Proceed, Stop

-----------------------------------------------------------------------------
LEMMA ClaimInv ==
    ASSUME GenInv, NEW w \in Workers, NEW t \in Tasks, Claim(w, t)
    PROVE  GenInv'
<1> DEFINE x == [pc |-> "claimed", task |-> t, said |-> "none", todo |-> <<>>]
<1> USE TaskAssumption DEF GenInv
<1>1. x \in WorkerType /\ WorkerOK(x, retries')
  BY DEF WorkerType, WorkerOK
<1>2. worker' \in [Workers -> WorkerType] /\ WorkersOK'
  BY <1>1, WorkerStep, IdleOK DEF Claim, Goto, Stop, TypeOK
<1>3. (status[t] = "queued" /\ Becomes(w, x)) \/ (status[t] # "queued" /\ Becomes(w, Idle))
  BY <1>1, WorkerStep, IdleOK DEF Claim, Goto, Stop, TypeOK
<1>4. TypeOK'
  BY <1>2 DEF TypeOK, WorkerType, Claim
<1>5. \A u \in Tasks, s \in {"succeeded", "failed"} : Says(u, s)' => Says(u, s)
  BY <1>3 DEF Says, Idle, Becomes
<1>6. SuccessKept'
  BY <1>5 DEF SuccessKept, Told, Claim
<1>7. ASSUME retries' = 0, NEW u \in Tasks PROVE SingleRun(u)'
  <2>1. SingleRun(u) /\ SingleRun(t) /\ UNCHANGED <<status, attempts, calls>>
    BY <1>7 DEF OneRun, Claim
  <2>2. Done(u)' => Done(u)
    BY <1>5, <2>1 DEF Done, Told
  <2>3. \A v \in Workers : Running(v, u)' =>
           Running(v, u) \/ (v = w /\ u = t /\ status[t] = "queued")
    BY <1>3 DEF Running, Becomes, Idle
  <2>4. \A v \in Workers : Holds(v, u)' => Holds(v, u) \/ (v = w /\ u = t)
    BY <1>3 DEF Holds, Executing, Becomes, Idle
  <2>5. jobs[t] > 0 /\ jobs' = [jobs EXCEPT ![t] = @ - 1] /\ jobs \in [Tasks -> Nat]
    BY DEF Claim, TypeOK
  <2>6. status[u] = "absent" => \A v \in Workers : worker'[v].task # u
    BY <1>3, <2>1, <2>5 DEF SingleRun, Becomes, Idle
  <2>7. \A v \in Workers : Holds(v, u)' => jobs'[u] = 0
    BY <2>1, <2>4, <2>5 DEF SingleRun
  <2>8. \A v1, v2 \in Workers : Holds(v1, u)' /\ Holds(v2, u)' => v1 = v2
    BY <2>1, <2>4, <2>5 DEF SingleRun
  <2>9. Done(u)' => status'[u] \in Terminal /\ \A v \in Workers : ~ Running(v, u)'
    BY <2>1, <2>2, <2>3 DEF SingleRun, Terminal
  <2>10. Told(u, "fail")' \/ Says(u, "failed")' => attempts'[u] = 0
    BY <1>5, <2>1 DEF SingleRun, Told
  <2>11. QED
    BY <2>1, <2>2, <2>5, <2>6, <2>7, <2>8, <2>9, <2>10 DEF SingleRun
<1>8. OneRun'
  BY <1>7 DEF OneRun
<1>9. QED BY <1>2, <1>4, <1>6, <1>8

LEMMA CancelReadInv ==
    ASSUME GenInv, NEW w \in Workers, NEW t \in Tasks, CancelRead(w, t) \/ ExpireRead(w, t)
    PROVE  GenInv'
<1> USE TaskAssumption DEF GenInv
<1>1. PICK s \in {"cancelled", "expired"} :
         worker' = [worker EXCEPT ![w] = [pc |-> "end", task |-> t, said |-> s, todo |-> <<>>]]
  BY DEF CancelRead, ExpireRead, Goto
<1> DEFINE x == [pc |-> "end", task |-> t, said |-> s, todo |-> <<>>]
<1>2. x \in WorkerType /\ WorkerOK(x, retries')
  BY DEF WorkerType, WorkerOK, Statuses, Terminal
<1>3. /\ UNCHANGED <<task, calls, retries, crashes>> /\ status[t] # "absent"
      /\ retries \in Nat /\ retries' = retries
  BY DEF CancelRead, ExpireRead, Active, TypeOK
<1>4. worker' \in [Workers -> WorkerType] /\ WorkersOK' /\ Becomes(w, x)
  <2> HIDE DEF x
  <2>1. worker' = [worker EXCEPT ![w] = x]
    BY <1>1 DEF x
  <2>2. TypeOK /\ WorkersOK /\ retries' \in Nat /\ retries' >= retries
    BY <1>3
  <2>3. QED BY ONLY <1>2, <2>1, <2>2, WorkerStep, w \in Workers
<1>5. TypeOK'
  BY <1>3, <1>4 DEF TypeOK, WorkerType, task
<1>6. Tame(x, worker[w])
  BY <1>3 DEF Tame, Silent, ExecutingAt
<1>7. \A u \in Tasks : Modest(u)
  BY <1>3 DEF Modest, Told, task
<1>8. SuccessKept' /\ OneRun'
  BY <1>3, <1>4, <1>6, <1>7, TameInv DEF Tame, task
<1>9. QED BY <1>4, <1>5, <1>8

LEMMA NotifyInv ==
    ASSUME GenInv, NEW w \in Workers,
           NotifyCanvas(w) \/ NotifyAgent(w) \/ NotifyBilling(w)
    PROVE  GenInv'
<1> USE TaskAssumption DEF GenInv
<1>1. /\ worker[w].todo # <<>> /\ Proceed(w)
      /\ UNCHANGED <<status, attempts, jobs, retries, crashes>>
  BY DEF NotifyCanvas, NotifyAgent, NotifyBilling, Calling, task
<1>2. worker[w] \in WorkerType /\ WorkerOK(worker[w], retries) /\ worker[w].task \in Tasks
  BY <1>1 DEF TypeOK, WorkersOK, WorkerOK, WorkerType
<1>3. worker' \in [Workers -> WorkerType] /\ WorkersOK'
  BY <1>1, ProceedStep
<1>4. PICK x \in WorkerType : Becomes(w, x) /\ Tame(x, worker[w])
  BY <1>1, ProceedStep
<1>5. TypeOK' /\ \A u \in Tasks : Modest(u)
  <2>1. CASE NotifyCanvas(w)
    <3>1. PICK s \in {worker[w].said, node[worker[w].task]} : node' = [node EXCEPT ![worker[w].task] = s]
      BY <2>1 DEF NotifyCanvas
    <3>2. calls' = calls /\ s \in Statuses \cup {"idle", "none"}
      BY <1>2, <2>1 DEF NotifyCanvas, TypeOK, WorkerType
    <3>3. QED
      <4>1. worker[w].said \in Statuses
        BY <1>1, <1>2 DEF WorkerType, WorkerOK
      <4>2. TypeOK'
        BY <1>1, <1>3, <3>1, <3>2, <4>1 DEF TypeOK, WorkerType
      <4>3. \A u \in Tasks : Modest(u)
        BY <1>1, <1>2, <3>1, <3>2 DEF TypeOK, Modest, Told, Says
      <4>4. QED BY <4>2, <4>3
  <2>2. CASE NotifyAgent(w)
    BY <1>1, <1>3, <2>2 DEF NotifyAgent, TypeOK, WorkerType, Modest, Told, task
  <2>3. CASE NotifyBilling(w)
    <3>1. 1 \in 1..Len(worker[w].todo) /\ worker[w].todo[1] = "billing"
      BY <1>2, <2>3 DEF NotifyBilling, Calling, WorkerType
    <3>2. worker[w].said \in {"succeeded", "failed"}
      BY <1>2, <3>1 DEF WorkerOK
    <3>3. calls' \subseteq calls \cup {[type |-> IF worker[w].said = "succeeded" THEN "settle" ELSE "fail",
                                         task |-> worker[w].task]}
      BY <2>3 DEF NotifyBilling
    <3>4. node' = node
      BY <2>3 DEF NotifyBilling, task
    <3>5. TypeOK'
      BY <1>1, <1>2, <1>3, <3>3, <3>4 DEF TypeOK, WorkerType
    <3>6. \A u \in Tasks : Modest(u)
      BY <1>1, <3>2, <3>3, <3>4 DEF Modest, Told, Says
    <3>7. QED BY <3>5, <3>6
  <2>4. QED BY <2>1, <2>2, <2>3
<1>6. SuccessKept' /\ OneRun'
  BY <1>1, <1>4, <1>5, TameInv DEF Tame
<1>7. QED BY <1>3, <1>5, <1>6

-----------------------------------------------------------------------------
(* The other actions *)

LEMMA GotoStep ==
    ASSUME TypeOK, WorkersOK, NEW w \in Workers, NEW pc, NEW t, NEW said, NEW todo,
           Goto(w, pc, t, said, todo), retries' \in Nat, retries' >= retries,
           [pc |-> pc, task |-> t, said |-> said, todo |-> todo] \in WorkerType,
           WorkerOK([pc |-> pc, task |-> t, said |-> said, todo |-> todo], retries')
    PROVE  /\ worker' \in [Workers -> WorkerType]
           /\ WorkersOK'
           /\ Becomes(w, [pc |-> pc, task |-> t, said |-> said, todo |-> todo])
<1> DEFINE x == [pc |-> pc, task |-> t, said |-> said, todo |-> todo]
<1>1. worker' = [worker EXCEPT ![w] = x]
  BY DEF Goto
<1> HIDE DEF x
<1>2. x \in WorkerType /\ WorkerOK(x, retries')
  BY DEF x
<1>3. worker' \in [Workers -> WorkerType] /\ WorkersOK' /\ Becomes(w, x)
  BY <1>1, <1>2, WorkerStep
<1>4. QED BY <1>3 DEF x

LEMMA StopStep ==
    ASSUME TypeOK, WorkersOK, NEW w \in Workers, Stop(w), retries' \in Nat, retries' >= retries
    PROVE  worker' \in [Workers -> WorkerType] /\ WorkersOK' /\ Becomes(w, Idle)
<1>1. Idle \in WorkerType /\ WorkerOK(Idle, retries') /\ worker' = [worker EXCEPT ![w] = Idle]
  BY IdleOK DEF Stop
<1>2. QED BY <1>1, WorkerStep

\* Stopping is tame, whatever the worker was doing.
LEMMA IdleTame == \A w \in Workers : Tame(Idle, worker[w])
  BY TaskAssumption DEF Tame, Silent, Idle, ExecutingAt

LEMMA CreateInv ==
    ASSUME GenInv, NEW t \in Tasks, Create(t) \/ LoseJob(t)
    PROVE  GenInv'
<1> USE TaskAssumption DEF GenInv
<1>1. UNCHANGED <<attempts, node, worker, calls, retries>>
  BY DEF Create, LoseJob
<1>2. TypeOK'
  <2>1. CASE Create(t)
    BY <1>1, <2>1 DEF TypeOK, Create, Statuses, Active
  <2>2. CASE LoseJob(t)
    <3>1. jobs' \in [Tasks -> Nat] /\ crashes' \in 0..MaxCrashes /\ status' = status
      BY <2>2 DEF TypeOK, LoseJob
    <3>2. QED BY <1>1, <3>1 DEF TypeOK
  <2>3. QED BY <2>1, <2>2
<1>3. WorkersOK'
  BY <1>1 DEF WorkersOK
<1>4. status' = status \/ (status[t] = "absent" /\ status' = [status EXCEPT ![t] = "queued"])
  BY DEF Create, LoseJob
<1>5. SuccessKept'
  BY <1>1, <1>4 DEF SuccessKept, Told, Says, TypeOK
<1>6. ASSUME retries' = 0, NEW u \in Tasks PROVE SingleRun(u)'
  <2>1. SingleRun(u) /\ (Done(u)' <=> Done(u))
    BY <1>1, <1>6 DEF OneRun, Done, Told, Says
  <2>2. \A v \in Workers : (Running(v, u)' <=> Running(v, u)) /\ (Holds(v, u)' <=> Holds(v, u))
    BY <1>1 DEF Running, Holds, Executing
  <2>3. CASE Create(t)
    <3>1. (u = t => status[u] = "absent" /\ jobs'[u] = 1 /\ status'[u] = "queued")
          /\ (u # t => status'[u] = status[u] /\ jobs'[u] = jobs[u])
      BY <2>1, <2>3 DEF Create, SingleRun, TypeOK
    <3>2. status[u] = "absent" => \A v \in Workers : ~ Holds(v, u)
      BY <2>1 DEF SingleRun, Holds
    <3>3. QED
      BY <1>1, <2>1, <2>2, <3>1, <3>2 DEF SingleRun, Told, Says
  <2>4. CASE LoseJob(t)
    <3>1. status' = status /\ jobs'[u] \in Nat /\ jobs'[u] <= jobs[u] /\ jobs[u] \in Nat
      BY <2>4 DEF LoseJob, TypeOK
    <3>2. QED
      BY <1>1, <2>1, <2>2, <3>1 DEF SingleRun, Told, Says
  <2>5. QED BY <2>3, <2>4
<1>7. QED BY <1>2, <1>3, <1>5, <1>6 DEF OneRun

LEMMA StartInv ==
    ASSUME GenInv, NEW w \in Workers, Start(w)
    PROVE  GenInv'
<1> DEFINE t == worker[w].task
           x == [pc |-> "working", task |-> t, said |-> "running", todo |-> <<"canvas">>]
<1> USE TaskAssumption DEF GenInv
<1>1. worker[w].pc = "claimed" /\ t \in Tasks /\ retries \in Nat /\ retries' = retries
  BY DEF Start, At, TypeOK, WorkersOK, WorkerOK
<1>2. x \in WorkerType /\ WorkerOK(x, retries')
  BY <1>1 DEF WorkerType, WorkerOK, Statuses, Active
<1>3. worker' \in [Workers -> WorkerType] /\ WorkersOK' /\ Becomes(w, x)
  <2>1. Goto(w, "working", t, "running", <<"canvas">>)
    BY DEF Start
  <2>2. QED BY <1>1, <1>2, <2>1, GotoStep
<1>4. TypeOK'
  BY <1>1, <1>3 DEF TypeOK, WorkerType, Start, Statuses, Active
<1>5. Tame(x, worker[w])
  BY <1>1 DEF Tame, Silent, ExecutingAt
<1>6. ASSUME NEW u \in Tasks PROVE Modest(u)
  <2>1. retries = 0 /\ u = t => status[u] # "absent" /\ ~ Done(u)
    BY <1>1 DEF OneRun, SingleRun, Running
  <2>2. QED BY <1>1, <2>1 DEF Start, TypeOK, Modest, Told
<1>7. UNCHANGED <<attempts, jobs>>
  BY DEF Start
<1>8. SuccessKept' /\ OneRun'
  <2> HIDE DEF x
  <2>1. Silent(x, worker[w])
    BY <1>5 DEF Tame
  <2>2. QED BY <1>1, <1>3, <1>5, <1>6, <1>7, <2>1, TameInv
<1>9. QED BY <1>3, <1>4, <1>8

\* A handler that goes on or stops without writing anything but its own state.
LEMMA QuietInv ==
    ASSUME GenInv, NEW w \in Workers, NEW x, Becomes(w, x), worker' \in [Workers -> WorkerType],
           WorkersOK', Silent(x, worker[w]), retries = 0 => Tame(x, worker[w]),
           UNCHANGED <<task, calls, retries, crashes>>
    PROVE  GenInv'
<1> USE DEF GenInv
<1>1. TypeOK'
  BY DEF TypeOK, WorkerType, task
<1>2. \A u \in Tasks : Modest(u)
  BY DEF Modest, Told, task
<1>3. UNCHANGED <<attempts, jobs>> /\ (retries' = 0 => retries = 0)
  BY DEF task
<1>4. SuccessKept' /\ OneRun'
  BY <1>2, <1>3, TameInv
<1>5. QED BY <1>1, <1>4

LEMMA GiveUpInv ==
    ASSUME GenInv, NEW w \in Workers, Raise(w) \/ AgentUnreachable(w)
    PROVE  GenInv'
<1> DEFINE t == worker[w].task
           x == [pc |-> "except", task |-> t, said |-> "none", todo |-> <<>>]
<1> USE TaskAssumption DEF GenInv
<1>1. UNCHANGED <<task, calls, retries, crashes>> /\ retries \in Nat
  BY DEF Raise, AgentUnreachable, TypeOK
<1>2. worker[w] \in WorkerType /\ WorkerOK(worker[w], retries)
  BY DEF TypeOK, WorkersOK, WorkerType
<1>6. \/ Stop(w)
      \/ /\ Goto(w, "except", t, "none", <<>>) /\ status[t] \in Active
         /\ worker[w].pc = "working" \/ worker[w].todo = <<"agent", "billing">>
  BY DEF Raise, AgentUnreachable, At, Except
<1>3. CASE Stop(w)
  <2>1. worker' \in [Workers -> WorkerType] /\ WorkersOK' /\ Becomes(w, Idle)
    BY <1>1, <1>3, StopStep
  <2>2. Tame(Idle, worker[w]) /\ Silent(Idle, worker[w])
    BY IdleTame DEF Tame
  <2>3. QED BY <1>1, <2>1, <2>2, QuietInv
<1>4. CASE /\ Goto(w, "except", t, "none", <<>>) /\ status[t] \in Active
           /\ worker[w].pc = "working" \/ worker[w].todo = <<"agent", "billing">>
  <2>1. worker[w].pc = "working" \/ worker[w].todo = <<"agent", "billing">>
    BY <1>4
  <2>2. worker[w].todo = <<"agent", "billing">> => worker[w].said \in {"succeeded", "failed"}
    <3>1. SUFFICES ASSUME worker[w].todo = <<"agent", "billing">>
                   PROVE  worker[w].said \in {"succeeded", "failed"}
      OBVIOUS
    <3>2. 2 \in 1..Len(worker[w].todo) /\ worker[w].todo[2] = "billing"
      BY <3>1
    <3>3. QED BY <1>2, <3>2 DEF WorkerOK
  <2>3. worker[w].pc # "idle" /\ t \in Tasks
    BY <1>2, <2>1, <2>2 DEF WorkerOK
  <2>4. retries = 0 => worker[w].pc = "working"
    <3>1. SUFFICES ASSUME retries = 0, worker[w].said \in {"succeeded", "failed"} PROVE FALSE
      BY <2>1, <2>2
    <3>2. Done(t) /\ SingleRun(t)
      BY <2>3, <3>1 DEF Done, Says, OneRun
    <3>3. QED BY <1>4, <3>2 DEF SingleRun, Active, Terminal
  <2>5. x \in WorkerType /\ WorkerOK(x, retries')
    BY <2>3 DEF WorkerType, WorkerOK
  <2>6. worker' \in [Workers -> WorkerType] /\ WorkersOK' /\ Becomes(w, x)
    BY <1>1, <1>4, <2>5, GotoStep
  <2>7. Silent(x, worker[w]) /\ (retries = 0 => Tame(x, worker[w]))
    BY <2>4 DEF Tame, Silent, ExecutingAt
  <2> HIDE DEF x
  <2>8. QED BY <1>1, <2>6, <2>7, QuietInv
<1>5. QED BY <1>3, <1>4, <1>6

LEMMA OutcomeInv ==
    ASSUME GenInv, NEW w \in Workers, Succeed(w) \/ Fail(w) \/ FailRaised(w)
    PROVE  GenInv'
<1> DEFINE t == worker[w].task
<1> USE TaskAssumption DEF GenInv
<1>1. PICK s \in {"succeeded", "failed"}, todo \in {<<"canvas", "agent", "billing">>, <<"billing", "canvas", "agent">>} :
         /\ Goto(w, "notify", t, s, todo)
         /\ status' = [status EXCEPT ![t] = s]
         /\ attempts' = IF s = "succeeded" THEN [attempts EXCEPT ![t] = @ + 1] ELSE attempts
         /\ UNCHANGED <<jobs, node, calls, retries, crashes>>
  BY DEF Succeed, Fail, FailRaised
<1> DEFINE x == [pc |-> "notify", task |-> t, said |-> s, todo |-> todo]
<1>2. worker[w].pc \in {"working", "except"} /\ t \in Tasks /\ retries \in Nat
  BY DEF Succeed, Fail, FailRaised, At, TypeOK, WorkersOK, WorkerOK
<1>3. x \in WorkerType /\ WorkerOK(x, retries')
  <2>1. todo \in Seq({"canvas", "agent", "billing"})
    <3>1. CASE todo = <<"canvas", "agent", "billing">>
      BY <3>1
    <3>2. CASE todo = <<"billing", "canvas", "agent">>
      BY <3>2
    <3>3. QED BY <3>1, <3>2
  <2>2. x \in WorkerType
    BY <1>2, <2>1 DEF WorkerType, Statuses, Terminal
  <2>3. QED BY <1>2, <2>2 DEF WorkerOK
<1>4. worker' \in [Workers -> WorkerType] /\ WorkersOK' /\ Becomes(w, x)
  BY <1>1, <1>2, <1>3, GotoStep
<1>5. TypeOK'
  BY <1>1, <1>2, <1>4 DEF TypeOK, WorkerType, Statuses, Terminal
<1>6. \A u \in Tasks, r \in {"succeeded", "failed"} : Says(u, r)' => Says(u, r) \/ (u = t /\ r = s)
  BY <1>4 DEF Says, Becomes
<1>7. \A u \in Tasks : attempts'[u] >= attempts[u] /\ (u # t => attempts'[u] = attempts[u])
  BY <1>1, <1>2 DEF TypeOK
<1>8. SuccessKept'
  <2>1. s = "succeeded" => attempts'[t] > 0
    BY <1>1, <1>2 DEF TypeOK
  <2>2. \A u \in Tasks : attempts[u] \in Nat /\ attempts'[u] \in Nat
    BY <1>5 DEF TypeOK
  <2>3. \A u \in Tasks : status'[u] = "succeeded" => status[u] = "succeeded" \/ (u = t /\ s = "succeeded")
    BY <1>1, <1>2 DEF TypeOK
  <2>4. QED
    BY <1>1, <1>6, <1>7, <2>1, <2>2, <2>3 DEF SuccessKept, Told
<1>9. ASSUME retries' = 0, NEW u \in Tasks PROVE SingleRun(u)'
  <2>1. SingleRun(u) /\ SingleRun(t)
    BY <1>1, <1>2, <1>9 DEF OneRun
  <2>2. CASE u # t
    <3>1. Done(u)' => Done(u)
      BY <1>1, <1>6, <1>7, <2>2 DEF Done, Told
    <3>2. \A v \in Workers : /\ Running(v, u)' => Running(v, u)
                             /\ Holds(v, u)' => Holds(v, u)
                             /\ worker'[v].task = u => worker[v].task = u
      BY <1>4, <2>2 DEF Running, Holds, Executing, Becomes
    <3>3. status'[u] = status[u] /\ attempts'[u] = attempts[u] /\ jobs'[u] = jobs[u]
      BY <1>1, <1>7, <2>2 DEF TypeOK
    <3>4. Told(u, "fail")' \/ Says(u, "failed")' => Told(u, "fail") \/ Says(u, "failed")
      BY <1>1, <1>6, <2>2 DEF Told
    <3>5. QED BY <2>1, <3>1, <3>2, <3>3, <3>4 DEF SingleRun
  <2>3. CASE u = t
    <3>1. Running(w, t) /\ Holds(w, t)
      BY <1>2 DEF Running, Holds, Executing
    <3>2. ~ Done(t) /\ attempts[t] = 0 /\ jobs[t] = 0
      BY <1>2, <2>1, <3>1 DEF SingleRun, Done, TypeOK
    <3>3. \A v \in Workers \ {w} : ~ Holds(v, t) /\ ~ Running(v, t)
      BY <2>1, <3>1 DEF SingleRun, Running, Holds, Executing
    <3>4. \A v \in Workers : ~ Running(v, u)' /\ (Holds(v, u)' => v = w)
      BY <1>4, <2>3, <3>3 DEF Running, Holds, Executing, Becomes
    <3>5. status'[u] = s /\ s \in Terminal /\ s # "absent" /\ jobs'[u] = 0
      BY <1>1, <1>2, <2>3, <3>2 DEF TypeOK, Terminal
    <3>6. attempts'[u] = IF s = "succeeded" THEN 1 ELSE 0
      BY <1>1, <1>2, <2>3, <3>2 DEF TypeOK
    <3>7. Told(u, "fail")' \/ Says(u, "failed")' => s = "failed"
      BY <1>1, <1>6, <2>3, <3>2 DEF Told, Done
    <3>8. QED BY <2>3, <3>4, <3>5, <3>6, <3>7 DEF SingleRun
  <2>4. QED BY <2>2, <2>3
<1>10. QED BY <1>4, <1>5, <1>8, <1>9 DEF OneRun

LEMMA EndWriteInv ==
    ASSUME GenInv, NEW w \in Workers, EndWrite(w)
    PROVE  GenInv'
<1> DEFINE t == worker[w].task
           s == worker[w].said
           x == [pc |-> "notify", task |-> t, said |-> s, todo |-> <<"canvas", "agent">>]
<1> USE TaskAssumption DEF GenInv
<1>1. /\ t \in Tasks /\ s \in {"cancelled", "expired"} /\ worker[w].pc = "end"
      /\ status' = [status EXCEPT ![t] = s]
      /\ UNCHANGED <<attempts, jobs, node, calls, retries, crashes>>
      /\ retries \in Nat /\ Goto(w, "notify", t, s, <<"canvas", "agent">>)
  BY DEF EndWrite, At, TypeOK, WorkersOK, WorkerOK
<1>2. x \in WorkerType /\ WorkerOK(x, retries')
  BY <1>1 DEF WorkerType, WorkerOK, Statuses, Terminal
<1>3. worker' \in [Workers -> WorkerType] /\ WorkersOK' /\ Becomes(w, x)
  BY <1>1, <1>2, GotoStep
<1>4. TypeOK'
  BY <1>1, <1>3 DEF TypeOK, WorkerType, Statuses, Terminal
<1>5. Tame(x, worker[w]) /\ Silent(x, worker[w])
  BY <1>1 DEF Tame, Silent, ExecutingAt
<1>6. ASSUME NEW u \in Tasks PROVE Modest(u)
  <2>1. retries = 0 => status[t] # "absent"
    BY <1>1 DEF OneRun, SingleRun
  <2>2. QED BY <1>1, <2>1 DEF TypeOK, Modest, Told, Terminal
<1> HIDE DEF x
<1>7. SuccessKept' /\ OneRun'
  BY <1>1, <1>3, <1>5, <1>6, TameInv
<1>8. QED BY <1>3, <1>4, <1>7

LEMMA RetryReadInv ==
    ASSUME GenInv, NEW w \in Workers, NEW t \in Tasks, RetryRead(w, t)
    PROVE  GenInv'
<1> DEFINE x == [pc |-> "retry", task |-> t, said |-> "none", todo |-> <<>>]
<1> USE TaskAssumption DEF GenInv
<1>1. /\ UNCHANGED <<task, calls, crashes>> /\ retries' = retries + 1 /\ retries \in Nat
      /\ retries' \in 0..MaxRetries /\ Goto(w, "retry", t, "none", <<>>)
  BY DEF RetryRead, TypeOK
<1>2. x \in WorkerType /\ WorkerOK(x, retries')
  BY <1>1 DEF WorkerType, WorkerOK
<1>3. worker' \in [Workers -> WorkerType] /\ WorkersOK' /\ Becomes(w, x)
  BY <1>1, <1>2, GotoStep
<1>4. TypeOK'
  BY <1>1, <1>3 DEF TypeOK, WorkerType, task
<1>5. \A u \in Tasks, s \in {"succeeded", "failed"} : Says(u, s)' => Says(u, s)
  BY <1>3, SilentWorker DEF Silent
<1>6. SuccessKept'
  BY <1>1, <1>5 DEF SuccessKept, Told, task
<1>7. OneRun'
  BY <1>1 DEF OneRun
<1>8. QED BY <1>3, <1>4, <1>6, <1>7

LEMMA RetryWriteInv ==
    ASSUME GenInv, NEW w \in Workers, RetryWrite(w)
    PROVE  GenInv'
<1> DEFINE t == worker[w].task
<1> USE TaskAssumption DEF GenInv
<1>1. /\ t \in Tasks /\ retries > 0 /\ retries \in Nat /\ Stop(w)
      /\ status' = [status EXCEPT ![t] = "queued"] /\ jobs' = [jobs EXCEPT ![t] = @ + 1]
      /\ UNCHANGED <<attempts, node, calls, retries, crashes>>
  BY DEF RetryWrite, At, TypeOK, WorkersOK, WorkerOK
<1>2. worker' \in [Workers -> WorkerType] /\ WorkersOK' /\ Becomes(w, Idle)
  BY <1>1, StopStep
<1>3. TypeOK'
  BY <1>1, <1>2 DEF TypeOK, WorkerType, Statuses, Active
<1>4. \A u \in Tasks, s \in {"succeeded", "failed"} : Says(u, s)' => Says(u, s)
  BY <1>2, IdleTame, SilentWorker DEF Tame
<1>5. SuccessKept'
  BY <1>1, <1>4 DEF SuccessKept, Told, TypeOK
<1>6. OneRun'
  BY <1>1 DEF OneRun
<1>7. QED BY <1>2, <1>3, <1>5, <1>6

LEMMA CrashInv ==
    ASSUME GenInv, NEW w \in Workers, Crash(w)
    PROVE  GenInv'
<1> DEFINE t == worker[w].task
<1> USE TaskAssumption DEF GenInv
<1>1. /\ t \in Tasks /\ Stop(w) /\ retries \in Nat /\ crashes' \in 0..MaxCrashes
      /\ UNCHANGED <<status, attempts, node, calls, retries>>
  BY DEF Crash, TypeOK, WorkersOK, WorkerOK
<1>2. jobs' = jobs \/ (Executing(w) /\ jobs' = [jobs EXCEPT ![t] = @ + 1])
  BY DEF Crash
<1>3. worker' \in [Workers -> WorkerType] /\ WorkersOK' /\ Becomes(w, Idle)
  BY <1>1, StopStep
<1>4. TypeOK'
  <2>1. jobs' \in [Tasks -> Nat]
    <3>1. jobs \in [Tasks -> Nat] /\ (jobs' = jobs \/ jobs' = [jobs EXCEPT ![t] = @ + 1])
      BY <1>2 DEF TypeOK
    <3>2. QED BY ONLY <1>1, <3>1
  <2>2. QED BY <1>1, <1>3, <2>1 DEF TypeOK, WorkerType
<1>5. \A u \in Tasks, s \in {"succeeded", "failed"} : Says(u, s)' => Says(u, s)
  BY <1>3, IdleTame, SilentWorker DEF Tame
<1>6. SuccessKept'
  BY <1>1, <1>5 DEF SuccessKept, Told
<1>7. ASSUME retries' = 0, NEW u \in Tasks PROVE SingleRun(u)'
  <2>1. SingleRun(u)
    BY <1>1, <1>7 DEF OneRun
  <2>2. Done(u)' => Done(u)
    BY <1>1, <1>5 DEF Done, Told
  <2>3. \A v \in Workers : /\ Running(v, u)' => Running(v, u)
                           /\ Holds(v, u)' => Holds(v, u) /\ v # w
                           /\ worker'[v].task = u => worker[v].task = u
    BY <1>3 DEF Running, Holds, Executing, Becomes, Idle
  <2>4. Told(u, "fail")' \/ Says(u, "failed")' => Told(u, "fail") \/ Says(u, "failed")
    BY <1>1, <1>5 DEF Told
  <2>5. \/ jobs'[u] = jobs[u]
        \/ Holds(w, u) /\ jobs'[u] = jobs[u] + 1
    BY <1>2 DEF TypeOK, Holds
  <2>6. CASE jobs'[u] = jobs[u]
    BY <1>1, <2>1, <2>2, <2>3, <2>4, <2>6 DEF SingleRun
  <2>7. CASE Holds(w, u) /\ jobs'[u] = jobs[u] + 1
    <3>1. jobs'[u] = 1 /\ status[u] # "absent" /\ \A v \in Workers : ~ Holds(v, u)'
      BY <2>1, <2>3, <2>7 DEF SingleRun, Holds
    <3>2. QED BY <1>1, <2>1, <2>2, <2>3, <2>4, <3>1 DEF SingleRun
  <2>8. QED BY <2>5, <2>6, <2>7
<1>8. QED BY <1>3, <1>4, <1>6, <1>7 DEF OneRun

-----------------------------------------------------------------------------
(* The invariant and what follows from it *)

LEMMA InitInv == Init => GenInv
<1> SUFFICES ASSUME Init PROVE GenInv
  OBVIOUS
<1> USE TaskAssumption
<1>1. TypeOK
  BY IdleOK DEF Init, TypeOK, WorkerType, Statuses
<1>2. WorkersOK
  BY IdleOK DEF Init, WorkersOK
<1>3. \A u \in Tasks, s \in {"succeeded", "failed"} : ~ Says(u, s)
  BY DEF Init, Says, Idle
<1>4. SuccessKept
  BY <1>3 DEF Init, SuccessKept, Told
<1>5. \A u \in Tasks : SingleRun(u)
  <2> TAKE u \in Tasks
  <2>1. ~ Done(u) /\ \A w \in Workers : worker[w].task # u
    BY <1>3 DEF Init, Done, Told, Idle
  <2>2. QED BY <2>1 DEF Init, SingleRun, Holds, Told, Done
<1>6. QED BY <1>1, <1>2, <1>4, <1>5 DEF GenInv, OneRun

LEMMA NextInv == GenInv /\ [Next]_genVars => GenInv'
<1> SUFFICES ASSUME GenInv, [Next]_genVars PROVE GenInv'
  OBVIOUS
<1>1. ASSUME NEW t \in Tasks, Create(t) \/ LoseJob(t) PROVE GenInv'
  BY <1>1, CreateInv
<1>2. ASSUME NEW w \in Workers, Run(w) PROVE GenInv'
  BY <1>2, StartInv, OutcomeInv, GiveUpInv, NotifyInv DEF Run
<1>3. ASSUME NEW w \in Workers, EndWrite(w) \/ RetryWrite(w) \/ Crash(w) PROVE GenInv'
  BY <1>3, EndWriteInv, RetryWriteInv, CrashInv
<1>4. ASSUME NEW w \in Workers, NEW t \in Tasks,
             Claim(w, t) \/ CancelRead(w, t) \/ ExpireRead(w, t) \/ RetryRead(w, t)
      PROVE  GenInv'
  BY <1>4, ClaimInv, CancelReadInv, RetryReadInv
<1>5. CASE UNCHANGED genVars
  BY <1>5 DEF genVars, task, GenInv, TypeOK, WorkersOK, SuccessKept, OneRun, SingleRun,
              Done, Says, Told, Running, Holds, Executing
<1>6. QED BY <1>1, <1>2, <1>3, <1>4, <1>5 DEF Next

LEMMA GenInvariant == Spec => []GenInv
  BY InitInv, NextInv, PTL DEF Spec

\* The variables of the task store and of its handlers keep their types.
THEOREM TypesHold == Spec => []TypeOK
<1>1. GenInv => TypeOK
  BY DEF GenInv
<1>2. QED BY <1>1, GenInvariant, PTL

\* Without a retry, a task has one execution, which succeeds once.
THEOREM RunsOnce == Spec => []OneRunPerTask
<1>1. ASSUME GenInv PROVE OneRunPerTask
  BY <1>1 DEF GenInv, OneRun, SingleRun, Holds, OneRunPerTask
<1>2. QED BY <1>1, GenInvariant, PTL

\* Without a retry, billing hears of one outcome of a task.
THEOREM BilledOnce == Spec => []OneOutcomeBilled
<1>1. ASSUME GenInv PROVE OneOutcomeBilled
  <2>1. SUFFICES ASSUME retries = 0, NEW t \in Tasks, Told(t, "settle"), Told(t, "fail")
                 PROVE  FALSE
    BY DEF OneOutcomeBilled, Told
  <2>2. attempts[t] > 0 /\ attempts[t] = 0
    BY <1>1, <2>1 DEF GenInv, SuccessKept, OneRun, SingleRun
  <2>3. QED BY <2>2
<1>2. QED BY <1>1, GenInvariant, PTL
=============================================================================
