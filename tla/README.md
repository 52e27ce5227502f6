# VibePaper in TLA+

VibePaper is a canvas on which users generate images, video and text. A user's
request freezes points, starts a task at a model provider, shows the result on
a canvas node and charges the points. Several services take part, each with its
own tables, and they tell each other what happened with calls that may fail.
These modules model the parts where that goes wrong: who holds which points,
who runs a task, what the services believe of each other, what an agent may do
without asking again, and which graph a canvas keeps.

## 1. The system

| Part | State | Operations | Talks to |
|---|---|---|---|
| billing-service, `PointService` | `point_accounts` (balance, frozen), `point_reservations`, `point_ledgers`, `outbox_events` | freeze, settle, unfreezeFail, cancel, unfreezeTimeout, allocate, recycle, credit, linkEnterprise | generation through the outbox; enterprise for `sharedPoolEnabled` |
| billing-service, `OutboxPublisher`, `FreezeExpireScheduler` | `outbox_events.published`, `freeze_deadline` | two `@Scheduled` methods | generation-service (`GenerationClient`), or RocketMQ |
| billing-service, recharge | `recharge_orders` | create, markPaid | PointService.credit |
| generation-service | `generation_tasks`, `task_outputs`; Celery queue or threads | create_task, execute_task, cancel, expire, retry_task | provider, canvas, agent, billing |
| canvas-service | `canvases.version`, nodes, edges, `canvas_graph_commands` | graph commands (addNode, updateNode, deleteNode, addEdge, deleteEdge), save, update, share, delete, asset upsert; groups and stacks | browser tabs, generation (node status), agent (nodes, layout) |
| agent-service (TypeScript), runs and events | `agent_runs`, `agent_run_events`; in memory `activeRuns`, `cancelledSessions`, the event stream | message, continuation and cancel routes; append, publish, SSE replay | web client |
| agent-service, approvals and actions | `agent_approvals`, action rows, batch items | ask, accept, reject, execute, compensate, terminal callback | billing (freeze, cancel), canvas, generation |
| agent-service, plans | `agent_plans` (steps, leases), the read gate | claim, complete, fail, attach, executeReadyReads | canvas and billing reads |
| web client | the loaded canvas, the nodes and edges shown, the event cursor | save, drag, create, connect, delete, refetch, reconnect | canvas-service, agent-service |
| enterprise, identity, gallery, asset, admin, gateway | rows of their own | CRUD, tokens, routing | - |

How they interact. A freeze inserts the reservation, the ledger row and a
"created" event in one PostgreSQL transaction; the publisher posts the event to
generation-service, at least once, and generation creates and dispatches the
task. An execution stores its outputs, commits, and then calls the canvas, the
agent and billing, one after the other; the call to billing settles or refunds.
A cancel or a deadline ends the reservation first and reaches generation as an
event. Nothing else keeps the two services' tables together.

A turn of the agent ends in an answer or in a request for approval. An accepted
approval freezes points and creates tasks; the run then waits for the callback
that generation-service makes when a task ends, and continues in a run of its
own. Every step is also an event in the session's log, which the browser reads
over a stream that it reopens with its last sequence number.

A tab of the browser sends single commands for nodes and edges, and after an
edit the whole graph, under the version of the canvas it has loaded. Services
write nodes of the same canvas at the same time.

What is hard here:
* reads without a lock that a later write relies on (`pendingReservation`,
  `createAccountInternal`, `db.get` ... `db.commit`);
* transactions that lock two account rows in different orders;
* a single report per outcome, neither repeated nor recorded, against events
  that are repeated and may overtake each other;
* executions that Celery hands out again when a worker dies, cancel and deadline
  racing the provider, and retries of a task already refunded;
* handlers of one Node.js process that are suspended at their awaits: status
  updates by primary key overwrite what happened meanwhile (`updateStatus`,
  `setStatus`), and rows are read before the await and used after it;
* leases that run out under a read that goes on, and a waiter at the gate that
  nobody wakes;
* events that are stored in one order and published in another, around a
  snapshot and a subscription that are two steps;
* a version that a tab takes over without the nodes it stands for.

What makes each part correct:
* accounts: never overdrawn; balance and frozen points are what the ledger adds up
  to (the pool's with the members' rows that refer to it); a freeze is released
  once and backs a pending task; status, ledger and outbox agree; every freeze
  ends;
* task: one execution and one outcome; every task ends;
* both: only an execution that succeeded is charged; a charged task stays
  succeeded; a refunded one has failed; points do not stay frozen; announced ends
  happen;
* agent: one run of a session is active; an approval is used once and no task
  starts without it; a task's cost counts once; the end a run shows is the one in
  its log, unless writing it was cut off;
* plans: steps that share a key do not overlap; an end stands; every call returns
  that no hanging query keeps;
* events: the SSE route sends each at most once and in order, and the last one
  always; a message's own stream sends none twice;
* canvas: edges join stored nodes; a repeated command makes one node; a version
  stands for one set of nodes; nobody's nodes are overwritten unseen.

`PROJECT.json` lists every part with its status, every hazard at its line with
the properties that cover it, and the source lines each definition stands for.

## 2. Modules

| Module | Models | Form |
|---|---|---|
| `PointService` | the accounts, reservations, ledger and outbox rows, and every method that writes them | one action per transaction, or two where it waits for a lock |
| `MCPointService` | instances, the serialised specification, fairness | |
| `Escrow` | the abstract specification of the accounts: free points, and holds opened once and closed once | |
| `Holds` | the abstract specification of the reservations: one hold per task, its end, its events | |
| `PointEscrow` | `PointService` with the endings of a task in turn (`SerialSpec`), and the refinement mappings to `Escrow` and `Holds` | refinement |
| `PointService_proofs`, `PointEscrow_proofs` | 7 and 7 theorems | |
| `GenerationTask` | task status, executions, notifications, cancel/expire/retry | one action per step between two commits or calls |
| `MCGenerationTask` | symmetry of the workers | |
| `GenerationTask_proofs` | 3 theorems | |
| `TaskBilling` | both services: EXTENDS `GenerationTask`, and INSTANCEs `Holds` for reservations, deadlines and the outbox | composition |
| `MCTaskBilling` | symmetry | |
| `TaskBilling_proofs` | 5 theorems | |
| `AgentRun` | the runs of a session: messages, continuations, cancels | one action per await |
| `AgentSession` | EXTENDS `AgentRun` with approvals, actions, tasks and callbacks | composition |
| `MCAgentSession`, `AgentSession_proofs` | instances; 8 theorems | |
| `ReadGate` | the per-user semaphore of promises | one action per turn of the event loop |
| `PlanExecution` | EXTENDS `ReadGate` with a plan, its leases and the calls that work on it | composition |
| `MCPlanExecution`, `PlanExecution_proofs` | an instance; 8 theorems | |
| `EventStream`, `MCEventStream` | event log, publication, SSE route, client | one action per await |
| `EventStream_proofs` | 2 theorems | |
| `CanvasGraph` | one canvas in canvas-service, its commands and saves as transactions | two or three actions per transaction |
| `CanvasTab` | EXTENDS `CanvasGraph` with the tabs and the services that write the canvas | composition |
| `AtomicGraph` | the abstract specification of the graph API: requests that happen at once or not at all | |
| `MCCanvasTab`, `CanvasTab_proofs` | instances; 5 theorems | |

**PointService.** A method is a READ COMMITTED transaction. What others can see
or change in between are its unlocked reads and the rows it waits for, so a
transaction is cut exactly there: `SettleBegin` is the plain SELECT of the
status, `SettleCommit` the rest, once the account row is granted;
`AllocateBegin` takes the pool's row, `AllocateCommit` the member's;
`LinkBegin` reads the account without a lock and `LinkCommit` writes all its
columns back. A transaction whose first statement takes its only lock
(`FreezeOwn`, `Credit`) is one action. `txn[w]` is what the open transaction of a
thread has read, `lock` the FOR UPDATE holder of each account row, and
`DeadlockVictim` PostgreSQL's answer to a cycle. CHECK constraints and the
unique index are guards (`RowOK`, `Insertable`); when they, or the code, refuse,
the transaction rolls back and leaves nothing (`SettleRefused`,
`UnfreezeRefused`, `FreezeRefused`), the `settlement_error` update included.
Ledger rows with a task are a set; those without one only enter by their sum.
`allocate` and `recycle` write one row, the member's, which names the enterprise
in its reference: `moved[u]` sums a user's own rows, `lent` the rows that name
the pool, which has none of its own.

**GenerationTask.** A handler reads the row, decides, and writes it by primary key
with no condition on the status; read and write are two actions
(`CancelRead`/`EndWrite`, `RetryRead`/`RetryWrite`, `Claim`/`Start`). `worker[w]`
is where a thread or process is (`pc`), its task, the status it last committed
(`said`) and the calls it still has to make (`todo`, in the code's order, which is
another one after an exception). `NotifyCanvas` may lose its write after five
version conflicts, `NotifyBilling` is sent or lost, `AgentUnreachable` raises in
production and turns into one more exception (`Except`) where the call is in the
try block. `attempts[t]` counts executions that succeeded. `Succeed` says nothing
of outputs: the loop that stores them runs over what the provider returned, which
may be nothing, and the task succeeds and is settled all the same. `jobs` counts
dispatched executions; `Crash` loses a worker's work and, under Celery's late
acknowledgement, may hand the execution out again; `LoseJob` is a process that
stops between the insert and the dispatch.

**Holds, TaskBilling.** The reservation is a status only (`hold`), and what
billing does to it is an action of `Holds`: `Freeze`, `Close` (an end that
generation reported), `Cancel`, `Timeout`, and the events these announce. That a
transaction of `PointService` is one such step is `ImplementsHolds`. The actions
of `TaskBilling` are billing's transactions, the publisher's calls
(`PublishCreated`, `PublishEnd`, `Publish`; `Sent` leaves the event unmarked when
the mark is lost) and generation's steps, whose calls to billing arrive in any
order (`Report`). An end event is marked when generation's handler has answered:
`PublishEnd` starts the handler, `Answer` marks when it has written the status,
and `Publish` is the call for a task that is over already. Between the status
write and the mark an execution that read "queued" earlier may write "running".

**Escrow, PointEscrow.** `Escrow` has `free[o]` and `hold[t]` and five actions
(Open, Charge, Return and two that move free points). The mapping takes
`available` for `free`, the reservation's status for the hold's state, and its
cost, or the charge in the ledger, for the hold's points. A frozen amount has no
counterpart: that it is right is what the refinement says.

**AgentRun, AgentSession.** The service is one process, so what runs between two
awaits is atomic and each handler is a counter of where it is suspended
(`turn[q]`, `cancel[c]`, `click[k]`, `call[b]`). `agent_runs` and its unique
index on active rows are `status` and `Allowed`; the maps in memory are
`activeRun` and `cancelled`. A turn's steps are those of the message route, with
`Throw` and `Catch` for its try block; a question that needs no tools
(`Questions`) is answered directly (`DirectReply`, then `Answer`). A status and its
event in the log are two awaits: the second may throw, or a restart (`Restart`,
of `AgentSession`) fall between them. `ends[r]` is what the log holds, `unlogged[r]`
the ends whose append was cut off in one of these ways. `Consume` is `consumeApproval`'s
conditional update; `RejectAction`, `Link`, `Mark` and `Wait` write rows by key
as the code does. `Execute` and `ExecuteFails` are the executor with the tasks
it froze before it failed. `FindTask` answers 404 to a callback whose task is
not linked yet. A batch of two items is `Items = {1, 2}`; a single action has
the item `1` alone.

**ReadGate, PlanExecution.** `PgPlanRepository` changes a plan in a transaction
that locks its row, so `ClaimStep` and `EndStep` are one action each; a read is
in between, and may outlive its lease (`expired`). `ChunkSize` reads of a
partition run at once, each through the gate. A release resolves the first
waiter's promise; the waiter goes on later (`PassGate`), and others may take the
slot in between. A read has a timeout and returns; the query that begins or ends
it has none (`database.ts:11`), and may hang (`Hang`): its call, and its slot if
it has one, are kept. `Crash` forgets the process and keeps the plan. No route
builds `PlanExecutionService` or its gate so far: only the tests do, so these two
modules are about the class as it stands, not about a running service.

**EventStream.** An event is its sequence number. `AppendEvent` is the insert,
`ReadLatest` the query that `publishLatestRunEvent` makes afterwards, `Publish`
the delivery to open streams. `Connect`, `ReadLog`, `Replay` and `Subscribe` are
the steps of the SSE route, `Disconnect` any end of a stream.
A message (`Turns`) has a stream of its own, which its route opens for the events
of the run (`BeginTurn`, `EndTurn`): it writes what is published, in that order and
without a filter, so `sent[w]` may be out of order; a direct reply writes its two
events itself and subscribes to nothing (`Answer`). The client drops what it has
seen on either stream by event id (`agentEventEnvelope.ts:48`) and moves its cursor
on the SSE route only; `received` is of that route. The answer to a message sent
again under its Idempotency-Key is the stored log in order, and has no state.

**CanvasGraph, CanvasTab.** A command reads the row and claims its key
(`Begin`, `Claim`), takes the row's lock with the conditional UPDATE of the
version (`Advance`, or `Conflict`), and then changes nodes and edges and commits
(`Apply`, or `Fail`). What it has not committed nobody sees, and it holds the
lock until it commits, so its changes are applied in one step. `assertAndAdvanceVersion`
reads the row again but gets the session's cached object, so the version
compared is the one of the transaction's first read. A save takes the lock
first. `update`, `share` and the asset command write the row with MyBatis-Plus's
version check (`RowWrite`). A tab keeps the version it will send
(`canvas.canvas.version` in the store) apart from the nodes it shows, because
three places change one without the other: a drag that went through, a drag that
met a conflict, and every single command. It has one request under way at a time;
two tabs stand for two requests of one tab as well. `AtomicGraph` has no
transactions and no lock: `Invoke` opens a request, and `Answer` ends it, together
with one whole `Command`, `Save` or `Touch` of the row, or with nothing.

## 3. Runs

| Run | Question | Bounds |
|---|---|---|
| `points_race` | what holds whatever transactions overlap, `linkEnterprise` included; who pays | 1 member who may join, pool, 2 tasks, 2 request threads and the scheduler, estimate 1, charges 0 to 2, balances 1, 1 credit |
| `points_serial` | with the endings of one task in turn: exact sums, an escrow, and every freeze ends | as above, estimate 2, charges 1 to 3, balances 2, nobody joins, 1 credit |
| `task_run` | one run, one outcome, every task ends | 1 task, 3 workers, 1 retry, 1 crash, both executors, production |
| `billing_run` | what holds of both services together | 1 task, 2 workers, 1 retry, 1 crash, lost reports, repeated and overtaking events |
| `session_run` | one execution per approval, one count per task, rows that keep the first end | 1 message and its continuation, a batch of 2, 2 clicks, 2 callbacks |
| `session_stop` | one active run, consent, ends in the log | 2 messages, one of them a question, 1 cancel, 1 acceptance, 1 rejection, restarts |
| `plan_run` | keys, attempts, ends, no lost wake-up, every call returns | 2 calls, 2 reads that share a key and a task step that depends on them, chunks of 2, a gate of 2, 2 attempts, 1 restart, queries that hang |
| `events_run` | order, no repetition, recovery, the last event arrives | 3 handlers of 2 runs, one of them a message, 3 events, 1 client, 1 restart |
| `canvas_run` | the graph, its version and its atomicity | 2 tabs, 2 calls, 4 nodes (2 at the start), 1 edge, versions begun below 3 |
| `points_double_release`, `session_cancel`, `canvas_overwrite` | violations, section 6 | the smallest instance that shows them |

Why the bounds are enough. Two tasks on one account are needed for one task's
points to pay for another's release; two request threads and the scheduler give
every pair of overlapping transactions and a lock cycle; an actual cost below, at
and above the estimate covers the three branches of a settlement, zero and the
double of the estimate among them (the estimate of 1 in `points_race`). Three
workers let an execution, its redelivery and a cancel overlap; tasks do not
interact in generation-service, so one is enough. One crash and one retry reach
every step they can hit. Two runs of a session are needed for one to take the
other's place, two clicks for a double confirmation, two callbacks for one that is
repeated or two tasks that end together. With a gate of two slots one hanging
query leaves the other to go on, and two do not; a third read has to queue; two
claims of a step let a late read meet its successor. Three events are the fewest
where one is overtaken by another and a third has to bring the stream forward. Two
new nodes are what a repeated create could make, two versions what a delete of a
connected node, or a drag after somebody else's command, takes. `MaxVersion`,
`MaxEvents`, `MaxAttempts`, `MaxCrashes`, `MaxRestarts`, `MaxRetries` and
`MaxCredits` are the bounds; the code has none of them. SYMMETRY is used only in
runs without liveness. `session_run` has a VIEW that leaves out the event log
(`ends`, `unlogged`), which no guard reads: of its properties only the type
invariant names it, and `session_stop`, where the log is checked, has no view.

Deadlock is not checked: once all tasks are over the system may stop.

**Fairness.** `FairSerialSpec`: deadlines pass, the scheduler's thread scans again
and again and does nothing else, a transaction that waits for a row is granted it
in turn (PostgreSQL queues waiters), so steps of open transactions are strongly
fair; requests are not fair. `FairSpec`: a running worker takes its next step
(every call has a timeout, and the provider's job is polled a bounded number of
times), and a dispatched execution is picked up when workers are free again and
again. `TBFairness`: the two `@Scheduled` threads keep running, and an event that
is sent again and again, to whichever worker, is handled; that a user cancels or
retries, or that a report arrives, is not assumed. `PlanExecution`'s `FairSpec`:
the event loop runs what it can, reads return (each has a timeout), and so do the
queries that do not hang: `Hang` is always possible, as the pool of connections
has no timeout, and never fair. That a call starts or a lease runs out is not
assumed. `EventStream`'s: handlers go on, the client reconnects (AgentPanel's
loop), a stream does not stay open for ever (nginx cuts a silent one after
`proxy_read_timeout`, and no heartbeat is sent), and it is not always cut before
it is read. The specifications of sessions and canvases are safety only.
`EveryTaskEnds` allows a crash as an excuse, as the code has no recovery scan for
tasks left running.

**Properties.** The comment above each says what it claims.
* `AvailableNeverNegative`, `StatusIsBooked`, `OutboxMatchesLedger` and
  `PoolIsLastResort` hold under every interleaving (`points_race`).
* `BalanceIsStatement` holds as long as nobody joins the
  pool, `FrozenBacksPending`, `EveryFreezeEnds` and the refinements `Implements`
  and `ImplementsHolds` when the calls that end one task do not overlap
  (`points_serial`).
* `OneRunPerTask`, `OneOutcomeBilled`, `EveryTaskEnds` (`task_run`).
  The first two are about tasks nobody retried (`retries = 0`): a retry is a
  second run by design.
* `ChargedForSuccess`, `ChargedIsSucceeded`, `RefundedHasFailed`, `EveryHoldEnds`,
  `EndIsCarriedOut` (`billing_run`). The last says that an announced end is written
  while the task is active, by a handler that may have to be called again after a
  crash; not that nothing is written over it.
* `ConsumedOnce`, `CountedOnce`, `RowFollowsNotice` (`session_run`);
  `OneActiveRun`, `ConsentBeforeTask`, `EndIsLogged` (`session_stop`). The last excuses
  an append that threw or was lost in a restart: what is left is that handlers which
  overwrite each other's status still log the one that is shown.
* `CountIsInside`, `NoLostWakeup`, `KeyExclusive`, `OneReadPerAttempt`,
  `EndedStays`, `CallsReturn` (`plan_run`). A call that never returns has a hanging
  query of its own, or every slot has one.
* `SentOnce`, `ReplayComplete`, `SeesLast` (`events_run`).
* `GraphIsClosed`, `OneNodePerKey`, `VersionNamesNodes` and the refinement
  `CommandsAreAtomic` (`canvas_run`).

What does *not* hold, and so is not stated: that every success is charged (the
report may be lost, or overtaken by a cancel or deadline), that a success has a
result (one with nothing in it is charged as well), that a cancelled task stays
cancelled (an execution in hand overwrites it, and may write "running" over an end
whose event is then marked), that a run that has ended has its end in the log (the
append may throw, or a restart come first; the catch of the route, `app.ts:753`,
finds a run that is not active and logs nothing), that a message's own stream is in
order, that a call to a plan returns (a query may hang), that a retry is charged
(nothing freezes again), that at most `MaxPerUser` reads are inside the gate (a
woken waiter does not look again), that an open stream shows every event (one
that is overtaken is skipped until the next connection), that a run that waits
for a task is continued (a callback that comes too early is answered 404 and not
repeated), and that a plan whose last step expired is taken up again.

Each property of a passing run has a mutant in `PROJECT.json`: a definition
changed as a plausible bug would change it, under which the run fails. Their
operators stand next to the original, marked "Mutant of".

## 4. Proofs

All are for every value of the constants that meets the assumptions
(`PointAssumption`, `TaskAssumption`, `CanvasAssumption`, `TabAssumption` and the
like: sentinel values lie outside the sets they are used with, estimates are at
least 1, opening balances and bounds are natural numbers).

**`PointService_proofs`.** `IInv == TypeOK /\ AvailableNeverNegative /\ LocksProtect`
is inductive. Types alone are not: a recycle commits `balance - n`, which is a
natural number only because the row has been locked since `n` was compared, and
that is `Protected(w)`. `AvailableNeverNegative` is needed for a settlement's
frozen points and for what a link writes back. `Charged` and `DistinctClaims`
say that a reservation names an account and that two freezes waiting for the
pool have different ids. From it: `TypeCorrect`, `NeverOverdrawn`,
`LocksAreEnough`; with the ledger, `StatusBooked` and `OutboxBooked`, which need
each other's rows and are proved together (`BooksInv`); and two action
properties, `HistoryFinal` and `PoolLast`.

**`GenerationTask_proofs`.** `GenInv == TypeOK /\ WorkersOK /\ SuccessKept /\
OneRun`. `WorkersOK` ties a handler's place to what it may say and still call.
`SuccessKept`: a success that is stored, shown, told to billing or about to be
announced is that of an execution. `OneRun` holds while `retries = 0`: an
execution that is waiting or in hand is the only one, and once an outcome is
reached (`Done`) the status is terminal and nobody runs; that is why a redelivered
execution finds the task not queued, why an exception after the outcome cannot
fail the task again, and why two outcomes never reach billing. Steps that only
shrink what a handler holds are `Tame` and share one lemma (`TameInv`). From it:
`TypesHold`, `RunsOnce`, `BilledOnce`.

**`TaskBilling_proofs`.** `TBInv == GenInv /\ TBTypeOK /\ ChargedForSuccess /\ AllBilled`.
Generation's steps are steps of `GenerationTask`, and a call that arrives only
shrinks `calls`, so `GenInv` carries over (`GenStep`). `Billed(t)`, while
`retries = 0`, is what the two tables know of each other: a cancelled or expired
status, or a handler about to write one, comes from an end of billing's; a
status that says how the task went leaves nobody running it; of a failed task no
execution succeeded; a refunded one has failed. A settlement is applied to a pending
reservation only, so no end has been announced, and the success it reports makes
the status terminal: it can only be "succeeded", and no event can change it any
more (`ChargeStands`; `RefundStands` likewise). Also `BothTyped` and
`NoChargeWithoutSuccess`, which needs no bound on retries, and `BillingIsHolds`: the
composition moves `hold`, `due` and `outbox` by steps of `Holds` only. With
`HoldsAreKept` this is the link between the two levels: what `TaskBilling` assumes
of billing-service is what `PointService` does while the ends of a task come in turn.

**`PointEscrow_proofs`.** Under `SerialSpec`: `EndInv` is `IInv` with the booked
statuses and events, `NoOverlap`, `StillPending` and `OnlyDue`. `StillPending`,
that a transaction which ends a freeze finds it pending at its commit, is where
the serialisation is needed; `OnlyDue`, that what the scheduler times out is past
its deadline, survives because deadlines only pass. So every commit is one step of
a hold that is still open: `CommitsOnPending`, `ReleasedOnceSerially` and
`HoldsAreKept`, the step simulation of `ImplementsHolds`, all three also while
`linkEnterprise` runs, which writes accounts and no reservations. For the points
`Joiners = {}` is needed, and `SerialInv == LinkFree /\ NoOverlap /\ StillPending`,
where `LinkFree` is `IInv` with the booked statuses and events and no open link:
then the release is a `Return` and the settlement a `Charge` of the hold's own
points, and every other step moves free points or stutters (`PointsAreAnEscrow`,
the step simulation of `Implements`).

The sums of the same module are cardinalities of unions of finite sets of
points `<<t, k>>`; the lemmas say what a union gains or loses when one ledger row
or one pending task comes or goes. `LedgerInv == LinkFree /\ StatementInv /\
HeldFinite /\ NoOrphanedFreeze` is inductive whatever transactions overlap, so
`BalancesAddUp` and `NothingLeftFrozen` are proved for `Spec`; that frozen points
are exactly those of the pending tasks (`FrozenExactly`) needs `SerialSpec`.

**`AgentSession_proofs`.** `TypeInv` is the types and that a click under way has
a run. `SingleActiveRun` follows from the index alone once every write of an
active status is shown to pass it. `ConsentInv` follows an approval through a
click: whoever executes holds a consumed approval, only one click does, and
rows and tasks exist only behind it (`ConsumesOnce`, `NoTaskUnasked`,
`FirstDecisionStands`). `CallInv` follows a notice: of the callbacks of a task
one inserted it and counts it (`CostsCountOnce`), and what it marks on the row
later writes respect (`RowsKeepTheEnd`). `LogInv`: the end a run shows is in its
log, or a handler is at the step that appends it, or that append was cut off
(`EndsAreLogged`): a write that changes the status puts its handler at the append,
and a restart that ends the handler leaves the end in `unlogged`.

**`PlanExecution_proofs`.** The gate comes first. `GateInv`: queue and woken callers
are distinct, and the counter is the number of those inside. `PlanInv` ties the
attempt of a read to the step's counter, expired steps to running ones, and
running or completed steps to completed dependencies; the gate's invariant
carries over as every step of the plan is a step of the gate or leaves it alone;
a query that hangs (`Hang`) changes neither.

**`CanvasTab_proofs`.** What a step does to the canvas is a `GraphStep`, whoever
takes it. `GraphInv`: a transaction past its conditional UPDATE holds the row, and
the version it has read is then the current one (`VersionHeld`); nobody deletes a
canvas while its row is held; a key has one open transaction, or is remembered,
and a node made under it is remembered with it (`KeysOnce`). Without the lock an
edge could be inserted beside the delete of its end, without `KeysOnce` a second
node beside the first. `TabInv` adds that no tab is ahead of the canvas and that a
drag's transaction has read the version the drag is sent under, from which
`VersionNamesNodes` follows. `GraphApiIsAtomic` is the refinement: a request is
open in `AtomicGraph` from the start of its transaction to its end (`Open`), and
happens at the commit. A command is carried out on the version it named because
the lock keeps the version that was read; its key is new because the transaction
holds it; and that a delete takes exactly the edges of its nodes needs
`GraphIsClosed`. `Named` says what an open request may be.

**`EventStream_proofs`.** What the replay sends is sorted (`AscendingSorts`): the
place of an event in the order is the number of events not above it, so no
induction over the set is needed. `StreamInv` is `Fits` for every client: what it
has read and what is on its way ascend; up to the replay the pipe is empty and
the cursor of the route is the client's; from then on everything written lies at
or below `route.last`, and whatever the query found above `from` has been read or
is in the pipe. `PublishFits` is the case that matters: an event published late is
dropped at `route.last` because the replay has it, and one published early is
only sent when it lies above everything before it. `TurnInv` is about the message
routes: a subscribed one has written only events that have been published in this
process (`memory`), a direct reply only what lies below the event it stores next, so
neither writes one twice. From both: `EventsSentOnce`; from the first,
`NothingLostBelow`.

**Only proved.** `CanvasTypeOK` is in no run: a canvas whose lock is not kept
shows in `CommandsAreAtomic`.

**Only model-checked.** Liveness (`EveryFreezeEnds`, `EveryTaskEnds`,
`EveryHoldEnds`, `EndIsCarriedOut`, `CallsReturn`, `SeesLast`): no temporal proof
under fairness is attempted, nor any of ENABLED. `BalancesAddUp` is
proved for every interleaving although TLC checks its property in
`points_serial` only, where the instance is small enough; `NothingLeftFrozen`,
which `FrozenBacksPending` implies there, is proved for every interleaving as well.

## 5. Not modelled

* The insert of a missing account row: two first requests of one user meet at
  the primary key.
* SQLAlchemy leaves a column out of an UPDATE when its new value equals the one
  it loaded; the models always write the status.
* The RocketMQ path of the publisher: no service of the repository consumes the topic.
* `/internal/tasks/{id}/expire`: called by no service. It is in `GenerationTask`
  and left out of `TaskBilling`.
* Cost estimates, listings, generation's own SSE route, and the outputs: how many
  there are and what is in them.
* `replay_recent_agent_terminals` (`task_service.py:40`), which `main.py` calls at
  its start: it tells the agent again of tasks that ended lately. To the agent that
  is a repeated callback, of which `AgentSession` has any order.
* The Idempotency-Key of a save of the whole canvas: a repetition, which the row's
  lock puts after the first, returns the first one's answer and changes nothing.
* Model vendors: a job succeeds, fails or raises.
* Recharge orders: one row each; `markPaid` ends in `Credit`.
* Canvas: contents of nodes, groups and stacks, shares, import and export, and
  revisions. An account's unread columns and `user_id` checks.
* Agent: the texts, prompts, memory and skills; a message sent again under its
  Idempotency-Key, which only reads; creating, compiling and rerunning
  a plan; render batches; the audit row of a conflicting notice; a
  `settlement_error` callback, which billing never sends; `agent_event_outbox`,
  which nothing reads.
* CRUD services, the gateway, the rest of the web client, the legacy Python agent
  service and the vendored `pi-main` packages other than `vibepaper-agent-service`.
* `PointService`'s amounts are small numbers, a point `k` of task `t` being
  `<<t, k>>` in the sums; Java's `int` is far from its limit.

## 6. Where the code and its documents disagree

| Run | What it shows |
|---|---|
| `points_double_release` | two endings of one task both read it pending and both release its points; the second release comes out of another task's freeze |
| `session_cancel` | a run that was cancelled is set running, completed or failed by a handler that was suspended |
| `canvas_overwrite` | a drag that met a conflict takes the new version without the new nodes; the save after it deletes them unseen |

Met while reading, stated in the models and not run:
* `linkEnterprise` reads an account without a lock and writes every column back
  (`PointService.java:50` to 58), so a charge in between is undone; the design
  document (`技术概要设计方案.md:294`) promises `SELECT ... FOR UPDATE`. `LinkBegin`,
  `LinkCommit`.
* The Idempotency-Key of a freeze is stored (`PointService.java:129`) and never
  looked up; `技术概要设计方案.md:293` promises the first answer again.
* A provider that returns nothing makes a success that is charged
  (`task_service.py:176` to 216; the loops of `providers.py:403` and 488 run
  `int(count)` times); the product document (`VibePaper产品需求文档新版.md:749`, EX-02)
  has an empty result fail and be refunded. `Succeed`.
* `settlement_error` is set and rolled back by the exception thrown after it
  (`PointService.java:153`); the product document (line 328) keeps the freeze for
  a person to look at. `SettleRefused`.
* The deadline "five minutes without running" is enforced on running tasks
  (`FreezeExpireScheduler.java:27`). `DeadlinePasses` asks nothing of the task.
* `RechargeService.markPaid` returns an order that is not pending, "幂等" by its
  comment, but reads it without a lock: two callbacks both credit.
* `PerUserReadExecutionGate` lets one more read in than its limit when a caller
  arrives between a release and the resumption of the waiter it woke.
* `DramaAssetService.upsert` adds one to the version of the entity before
  `updateById` compares it, so an undisturbed upsert is refused as a conflict and
  one that another writer overtook once is not. `RowWrite`.
* A create command that is repeated while the first is open fails: after the wait
  `claim` finds no row in its snapshot and returns null. `Claim`.
* `addGroup`, `deleteGroup`, `addStack` and `deleteStack` write node rows they
  have read without the version, and can undo an update of a node. Not in the
  models.

## 7. Plan

Done: accounts with their abstract escrow and holds, tasks, both together; sessions with
approvals and callbacks; plans and the gate; the event stream; the canvas and its
tabs, with the atomic graph; proofs of the safety properties of all of them.

Left, in this order: groups and stacks on the canvas, with the contents of nodes; plan
creation and rerun; render batches; an abstract specification of a session that
`AgentSession` implements.
