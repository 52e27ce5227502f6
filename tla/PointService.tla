----------------------------- MODULE PointService -----------------------------
(***************************************************************************)
(* The point accounts of billing-service: PointService, the REST and       *)
(* scheduler entry points that call it, and the PostgreSQL rows it keeps.  *)
(*                                                                         *)
(* Every method is one READ COMMITTED transaction.  What other             *)
(* transactions can see in between are its unlocked reads and the row      *)
(* locks it waits for, so a transaction is split exactly there: a Begin    *)
(* action for what is read or locked first, and a commit (or rollback)     *)
(* once the last FOR UPDATE row is granted.  A transaction whose first     *)
(* statement takes its only lock is a single action.                       *)
(***************************************************************************)
EXTENDS Naturals, Integers, FiniteSets

CONSTANTS
    Users,       \* users with a point account
    Pool,        \* the enterprise's shared account (user_id = -enterpriseId)
    Tasks,       \* snowflake task ids
    Requests,    \* request threads: one open transaction each
    Scheduler,   \* the @Scheduled thread of FreezeExpireScheduler
    Keys,        \* Idempotency-Key header values
    NoTask, Nobody, NoKey,
    Costs,       \* estimated costs asked for
    MaxCost,     \* the largest of them
    Surcharges,  \* actualCost - estimatedCost in a settle callback
    Amounts,     \* points moved by credit, allocate and recycle
    Opening,     \* opening balances
    MaxCredits,  \* bound on the number of credits in a behaviour
    SharedPool,  \* enterprise setting sharedPoolEnabled
    Joiners      \* users that linkEnterprise is called for

Owners  == Users \cup {Pool}
Workers == Requests \cup {Scheduler}

ASSUME PointAssumption ==
    /\ Pool \notin Users /\ NoTask \notin Tasks
    /\ Nobody \notin Owners /\ Nobody \notin Workers
    /\ NoKey \notin Keys
    /\ Scheduler \notin Requests
    /\ MaxCost \in Nat /\ MaxCredits \in Nat
    /\ Costs \subseteq 1..MaxCost
    /\ Surcharges \subseteq Int
    /\ Amounts \subseteq Nat \ {0}
    /\ Opening \in [Owners -> Nat]
    /\ SharedPool \in BOOLEAN
    /\ Joiners \subseteq Users

VARIABLES
    balance,      \* point_accounts.balance
    frozen,       \* point_accounts.frozen_points
    member,       \* point_accounts.enterprise_id is set
    reservation,  \* point_reservations, by task
    due,          \* tasks whose freeze_deadline is past
    ledger,       \* the rows of point_ledgers that carry a task_id
    moved,        \* net points of a user's rows that carry none
    lent,         \* net points of the rows that refer to the enterprise
    credits,      \* credits so far (bounded)
    outbox,       \* rows of outbox_events
    txn,          \* the open transaction of each worker
    lock          \* holder of the FOR UPDATE lock of each account row

accounts == <<balance, frozen, member>>
rows     == <<reservation, ledger, outbox>>
vars     == <<accounts, rows, due, moved, lent, credits, txn, lock>>

-----------------------------------------------------------------------------
UnfreezeTypes == {"unfreeze_fail", "unfreeze_cancel", "unfreeze_timeout"}
ReleaseTypes  == UnfreezeTypes \cup {"unfreeze_settle"}
LedgerTypes   == ReleaseTypes \cup {"freeze", "settle"}
EventTypes    == {"created", "cancelled", "expired"}
Statuses      == {"none", "pending", "settled", "expired", "cancelled", "refunded"}
Ops == UnfreezeTypes \cup {"idle", "settle", "freeze", "allocate", "recycle", "link"}

\* Mutant of StatusAfter: the switch falls through to its default.
StatusAfterDefault(type) == IF type = "unfreeze_timeout" THEN "expired" ELSE "refunded"

\* The status unfreeze() leaves, by the ledger type it is called with.
StatusAfter(type) ==
    CASE type = "unfreeze_timeout" -> "expired"
      [] type = "unfreeze_cancel"  -> "cancelled"
      [] type = "unfreeze_fail"    -> "refunded"

\* The outbox event that cancel() and unfreezeTimeout() add; unfreezeFail() none.
EventsAfter(type, t) ==
    CASE type = "unfreeze_timeout" -> {[type |-> "expired", task |-> t]}
      [] type = "unfreeze_cancel"  -> {[type |-> "cancelled", task |-> t]}
      [] type = "unfreeze_fail"    -> {}

Row(t, type, o, n) == [task |-> t, type |-> type, owner |-> o, points |-> n]
NoReservation == [status |-> "none", owner |-> Nobody, cost |-> 0, key |-> NoKey]
Idle == [op |-> "idle", task |-> NoTask, user |-> Nobody, points |-> 0,
         key |-> NoKey, balance |-> 0, frozen |-> 0]

available(o) == balance[o] - frozen[o]
Pending(t)   == reservation[t].status = "pending"

\* CHECK constraints of point_accounts.
RowOK(b, f) == 0 <= f /\ f <= b

\* CHECK (points > 0) and the index uq_ledgers_task_type of point_ledgers.
Insertable(new) ==
    \A r \in new : /\ r.points > 0
                   /\ ~ \E q \in ledger : q.task = r.task /\ q.type = r.type

Init ==
    /\ balance = Opening
    /\ frozen = [o \in Owners |-> 0]
    /\ member = [u \in Users |-> FALSE]
    /\ reservation = [t \in Tasks |-> NoReservation]
    /\ due = {}
    /\ ledger = {}
    /\ moved = [u \in Users |-> 0]
    /\ lent = 0
    /\ credits = 0
    /\ outbox = {}
    /\ txn = [w \in Workers |-> Idle]
    /\ lock = [o \in Owners |-> Nobody]

\* Both COMMIT and ROLLBACK close the transaction and free its row locks.
Close(w) ==
    /\ txn' = [txn EXCEPT ![w] = Idle]
    /\ lock' = [o \in Owners |-> IF lock[o] = w THEN Nobody ELSE lock[o]]

Rollback(w) == Close(w) /\ UNCHANGED <<accounts, rows, due, moved, lent, credits>>

\* BEGIN: `held` is the account row locked first, Nobody when it is a plain read.
Begin(w, t, held) ==
    /\ txn[w].op = "idle"
    /\ held # Nobody => lock[held] = Nobody
    /\ txn' = [txn EXCEPT ![w] = t]
    /\ lock' = IF held = Nobody THEN lock ELSE [lock EXCEPT ![held] = w]
    /\ UNCHANGED <<accounts, rows, due, moved, lent, credits>>

-----------------------------------------------------------------------------
(* freeze *)

\* An id the snowflake generator may still hand out.  The transactions that wait
\* for the pool have theirs set aside, as the model's supply is finite.
Fresh(t) ==
    /\ reservation[t].status = "none"
    /\ \A w \in Workers : txn[w].op = "freeze" => txn[w].task # t

\* Rows that freeze() writes once it has picked the account o to hold the points.
Reserve(o, t, c, k) ==
    /\ frozen' = [frozen EXCEPT ![o] = @ + c]
    /\ reservation' = [reservation EXCEPT
                          ![t] = [status |-> "pending", owner |-> o, cost |-> c, key |-> k]]
    /\ ledger' = ledger \cup {Row(t, "freeze", o, c)}
    /\ outbox' = outbox \cup {[type |-> "created", task |-> t]}
    /\ UNCHANGED <<balance, member, due, moved, lent, credits>>

\* The user's own account has the points: one lock, one transaction.
FreezeOwn(u, t, c, k) ==
    /\ Fresh(t)
    /\ lock[u] = Nobody
    /\ available(u) >= c
    /\ Reserve(u, t, c, k)
    /\ UNCHANGED <<txn, lock>>

\* Mutant of FreezeBegin: the member's row is read without FOR UPDATE.
FreezeUnlocked(w, u, t, c, k) ==
    /\ w \in Requests /\ Fresh(t)
    /\ SharedPool /\ member[u] /\ available(u) < c
    /\ Begin(w, [Idle EXCEPT !.op = "freeze", !.user = u, !.task = t,
                       !.points = c, !.key = k], Nobody)

\* Too few points of their own, and the enterprise shares its pool: freeze()
\* keeps the member's row locked while it waits for the pool's.
FreezeBegin(w, u, t, c, k) ==
    /\ w \in Requests
    /\ Fresh(t)
    /\ SharedPool /\ member[u]
    /\ available(u) < c
    /\ Begin(w, [Idle EXCEPT !.op = "freeze", !.user = u, !.task = t,
                       !.points = c, !.key = k], u)

FreezePool(w) ==
    /\ txn[w].op = "freeze"
    /\ lock[Pool] = Nobody
    /\ available(Pool) >= txn[w].points
    /\ Reserve(Pool, txn[w].task, txn[w].points, txn[w].key)
    /\ Close(w)

FreezeRefused(w) ==
    /\ txn[w].op = "freeze"
    /\ lock[Pool] = Nobody
    /\ available(Pool) < txn[w].points
    /\ Rollback(w)

-----------------------------------------------------------------------------
(* settle *)

\* Mutant of SettleBegin: a second settlement is left to the unique index.
SettleAgain(w, t, actual) ==
    /\ w \in Requests
    /\ reservation[t].status # "none"
    /\ 0 <= actual /\ actual <= 2 * reservation[t].cost
    /\ Begin(w, [Idle EXCEPT !.op = "settle", !.task = t, !.points = actual], Nobody)

\* The status is read before any lock is taken, and never looked at again.
SettleBegin(w, t, actual) ==
    /\ w \in Requests
    /\ Pending(t)
    /\ 0 <= actual /\ actual <= 2 * reservation[t].cost
    /\ Begin(w, [Idle EXCEPT !.op = "settle", !.task = t, !.points = actual], Nobody)

\* Mutant of SettleRows: the charge is booked at the estimate.
SettleRowsEstimate(t, o, actual) ==
    {Row(t, type, o, reservation[t].cost) : type \in {"settle", "unfreeze_settle"}}

SettleRows(t, o, actual) ==
    {Row(t, "settle", o, actual), Row(t, "unfreeze_settle", o, reservation[t].cost)}

\* What the code tests, and what the database then refuses.
SettleAccepted(t, o, actual) ==
    /\ balance[o] >= actual
    /\ RowOK(balance[o] - actual, frozen[o] - reservation[t].cost)
    /\ Insertable(SettleRows(t, o, actual))

SettleCommit(w) ==
    LET t == txn[w].task
        o == reservation[t].owner
        n == txn[w].points
    IN  /\ txn[w].op = "settle"
        /\ lock[o] = Nobody
        /\ SettleAccepted(t, o, n)
        /\ balance' = [balance EXCEPT ![o] = @ - n]
        /\ frozen' = [frozen EXCEPT ![o] = @ - reservation[t].cost]
        /\ ledger' = ledger \cup SettleRows(t, o, n)
        /\ reservation' = [reservation EXCEPT ![t].status = "settled"]
        /\ Close(w)
        /\ UNCHANGED <<member, outbox, due, moved, lent, credits>>

\* Also the settlement_error branch: its update is rolled back by its exception.
SettleRefused(w) ==
    LET t == txn[w].task
        o == reservation[t].owner
    IN  /\ txn[w].op = "settle"
        /\ lock[o] = Nobody
        /\ ~ SettleAccepted(t, o, txn[w].points)
        /\ Rollback(w)

-----------------------------------------------------------------------------
(* unfreezeFail, cancel, unfreezeTimeout *)

\* Mutant of UnfreezeBegin: the scan takes the deadlines still to come.
UnfreezeEarly(w, t, type) ==
    /\ Pending(t)
    /\ IF type = "unfreeze_timeout" THEN w = Scheduler /\ t \notin due ELSE w \in Requests
    /\ Begin(w, [Idle EXCEPT !.op = type, !.task = t], Nobody)

\* pendingReservation(): again a plain read.  Only the scheduler times out, and
\* only what selectExpiredPending returns.
UnfreezeBegin(w, t, type) ==
    /\ Pending(t)
    /\ IF type = "unfreeze_timeout" THEN w = Scheduler /\ t \in due ELSE w \in Requests
    /\ Begin(w, [Idle EXCEPT !.op = type, !.task = t], Nobody)

UnfreezeAccepted(t, type, o) ==
    /\ frozen[o] >= reservation[t].cost
    /\ Insertable({Row(t, type, o, reservation[t].cost)})

UnfreezeCommit(w) ==
    LET t    == txn[w].task
        type == txn[w].op
        o    == reservation[t].owner
    IN  /\ type \in UnfreezeTypes
        /\ lock[o] = Nobody
        /\ UnfreezeAccepted(t, type, o)
        /\ frozen' = [frozen EXCEPT ![o] = @ - reservation[t].cost]
        /\ ledger' = ledger \cup {Row(t, type, o, reservation[t].cost)}
        /\ reservation' = [reservation EXCEPT ![t].status = StatusAfter(type)]
        /\ outbox' = outbox \cup EventsAfter(type, t)
        /\ Close(w)
        /\ UNCHANGED <<balance, member, due, moved, lent, credits>>

\* Mutant of UnfreezeRefused: the event outlives the exception.
RefusedButTold(w) ==
    LET t == txn[w].task
        o == reservation[t].owner
    IN  /\ txn[w].op \in UnfreezeTypes
        /\ lock[o] = Nobody
        /\ ~ UnfreezeAccepted(t, txn[w].op, o)
        /\ outbox' = outbox \cup EventsAfter(txn[w].op, t)
        /\ Close(w)
        /\ UNCHANGED <<accounts, reservation, ledger, due, moved, lent, credits>>

UnfreezeRefused(w) ==
    LET t == txn[w].task
        o == reservation[t].owner
    IN  /\ txn[w].op \in UnfreezeTypes
        /\ lock[o] = Nobody
        /\ ~ UnfreezeAccepted(t, txn[w].op, o)
        /\ Rollback(w)

\* Five minutes after the freeze.
DeadlinePasses(t) ==
    /\ reservation[t].status # "none"
    /\ t \notin due
    /\ due' = due \cup {t}
    /\ UNCHANGED <<accounts, rows, moved, lent, credits, txn, lock>>

-----------------------------------------------------------------------------
(* credit, allocate, recycle, linkEnterprise *)

Credit(u, n) ==
    /\ credits < MaxCredits
    /\ credits' = credits + 1
    /\ lock[u] = Nobody
    /\ balance' = [balance EXCEPT ![u] = @ + n]
    /\ moved' = [moved EXCEPT ![u] = @ + n]
    /\ UNCHANGED <<frozen, member, rows, due, lent, txn, lock>>

\* Mutant of AllocateBegin: the pool's points are not compared.
AllocateUnchecked(w, u, n) ==
    /\ w \in Requests
    /\ Begin(w, [Idle EXCEPT !.op = "allocate", !.user = u, !.points = n], Pool)

\* The pool's row first, then the member's.
AllocateBegin(w, u, n) ==
    /\ w \in Requests
    /\ available(Pool) >= n
    /\ Begin(w, [Idle EXCEPT !.op = "allocate", !.user = u, !.points = n], Pool)

AllocateCommit(w) ==
    LET u == txn[w].user
        n == txn[w].points
    IN  /\ txn[w].op = "allocate"
        /\ lock[u] = Nobody
        /\ balance' = [balance EXCEPT ![Pool] = @ - n, ![u] = @ + n]
        /\ moved' = [moved EXCEPT ![u] = @ + n]
        /\ lent' = lent + n
        /\ member' = [member EXCEPT ![u] = TRUE]
        /\ Close(w)
        /\ UNCHANGED <<frozen, rows, due, credits>>

\* Mutant of RecycleBegin: the member's row is read without FOR UPDATE.
RecycleUnlocked(w, u, n) ==
    /\ w \in Requests
    /\ available(u) >= n
    /\ Begin(w, [Idle EXCEPT !.op = "recycle", !.user = u, !.points = n], Nobody)

\* The member's row first, then the pool's.
RecycleBegin(w, u, n) ==
    /\ w \in Requests
    /\ available(u) >= n
    /\ Begin(w, [Idle EXCEPT !.op = "recycle", !.user = u, !.points = n], u)

RecycleCommit(w) ==
    LET u == txn[w].user
        n == txn[w].points
    IN  /\ txn[w].op = "recycle"
        /\ lock[Pool] = Nobody
        /\ balance' = [balance EXCEPT ![u] = @ - n, ![Pool] = @ + n]
        /\ moved' = [moved EXCEPT ![u] = @ - n]
        /\ lent' = lent - n
        /\ Close(w)
        /\ UNCHANGED <<frozen, member, rows, due, credits>>

\* createAccountInternal with an enterprise id reads the row without a lock ...
LinkBegin(w, u) ==
    /\ w \in Requests
    /\ u \in Joiners /\ ~ member[u]
    /\ Begin(w, [Idle EXCEPT !.op = "link", !.user = u,
                             !.balance = balance[u], !.frozen = frozen[u]], Nobody)

\* Mutant of LinkCommit: only frozen_points is written back stale.
LinkStaleFrozen(w) ==
    LET u == txn[w].user
    IN  /\ txn[w].op = "link"
        /\ lock[u] = Nobody
        /\ frozen' = [frozen EXCEPT ![u] = txn[w].frozen]
        /\ member' = [member EXCEPT ![u] = TRUE]
        /\ Close(w)
        /\ UNCHANGED <<balance, rows, due, moved, lent, credits>>

\* ... and updateById writes every column of what was read.
LinkCommit(w) ==
    LET u == txn[w].user
    IN  /\ txn[w].op = "link"
        /\ lock[u] = Nobody
        /\ balance' = [balance EXCEPT ![u] = txn[w].balance]
        /\ frozen' = [frozen EXCEPT ![u] = txn[w].frozen]
        /\ member' = [member EXCEPT ![u] = TRUE]
        /\ Close(w)
        /\ UNCHANGED <<rows, due, moved, lent, credits>>

\* The account row whose lock a transaction holding one waits for.
WaitsFor(w) == IF txn[w].op = "allocate" THEN txn[w].user ELSE Pool

\* PostgreSQL rolls back one transaction of a lock cycle.
DeadlockVictim(w) ==
    /\ txn[w].op \in {"freeze", "allocate", "recycle"}
    /\ \E v \in Workers \ {w} :
          /\ txn[v].op \in {"freeze", "allocate", "recycle"}
          /\ lock[WaitsFor(w)] = v /\ lock[WaitsFor(v)] = w
    /\ Rollback(w)

-----------------------------------------------------------------------------
Step(w) ==
    \/ FreezePool(w) \/ FreezeRefused(w)
    \/ SettleCommit(w) \/ SettleRefused(w)
    \/ UnfreezeCommit(w) \/ UnfreezeRefused(w)
    \/ AllocateCommit(w) \/ RecycleCommit(w) \/ LinkCommit(w)
    \/ DeadlockVictim(w)

Request(w) ==
    \/ \E t \in Tasks :
          \/ \E s \in Surcharges : SettleBegin(w, t, reservation[t].cost + s)
          \/ \E type \in UnfreezeTypes : UnfreezeBegin(w, t, type)
    \/ \E u \in Users :
          \/ \E t \in Tasks, c \in Costs, k \in Keys : FreezeBegin(w, u, t, c, k)
          \/ \E n \in Amounts : AllocateBegin(w, u, n) \/ RecycleBegin(w, u, n)
          \/ LinkBegin(w, u)

Next ==
    \/ \E u \in Users, t \in Tasks, c \in Costs, k \in Keys : FreezeOwn(u, t, c, k)
    \/ \E u \in Users, n \in Amounts : Credit(u, n)
    \/ \E t \in Tasks : DeadlinePasses(t)
    \/ \E w \in Workers : Request(w) \/ Step(w)

Spec == Init /\ [][Next]_vars

-----------------------------------------------------------------------------
(* Properties.  A point is <<task, k>>: sums of points are cardinalities. *)

Units(t, n) == {t} \X (1..n)

\* The points of o's reservations that are still pending.
Held(o) == UNION {Units(t, reservation[t].cost) :
                     t \in {x \in Tasks : Pending(x) /\ reservation[x].owner = o}}

\* The points that rows of one ledger type moved on o's account.
Booked(o, type) ==
    UNION {Units(r.task, r.points) : r \in {x \in ledger : x.owner = o /\ x.type = type}}

HasRow(t, type) == \E r \in ledger : r.task = t /\ r.type = type

Reservation == [status : Statuses, owner : Owners \cup {Nobody},
                cost : Nat, key : Keys \cup {NoKey}]
Txn == [op : Ops, task : Tasks \cup {NoTask}, user : Users \cup {Nobody},
        points : Nat, key : Keys \cup {NoKey}, balance : Nat, frozen : Nat]

TypeOK ==
    /\ balance \in [Owners -> Nat]
    /\ frozen \in [Owners -> Nat]
    /\ member \in [Users -> BOOLEAN]
    /\ reservation \in [Tasks -> Reservation]
    /\ due \subseteq Tasks
    /\ ledger \subseteq [task : Tasks, type : LedgerTypes, owner : Owners, points : Nat \ {0}]
    /\ moved \in [Users -> Int]
    /\ lent \in Int
    /\ credits \in Nat
    /\ outbox \subseteq [type : EventTypes, task : Tasks]
    /\ txn \in [Workers -> Txn]
    /\ lock \in [Owners -> Workers \cup {Nobody}]

\* The account never owes more than it has, although settle() may charge more
\* than was frozen while other tasks hold points of the same account.
AvailableNeverNegative == \A o \in Owners : frozen[o] <= balance[o]

\* What the open transaction of w has read or checked still holds.
Protected(w) ==
    LET x == txn[w]
    IN  /\ x.op = "allocate" =>
               x.user \in Users /\ lock[Pool] = w /\ x.points <= available(Pool)
        /\ x.op = "recycle" =>
               x.user \in Users /\ lock[x.user] = w /\ x.points <= available(x.user)
        /\ x.op = "freeze" =>
               /\ x.user \in Users /\ lock[x.user] = w /\ available(x.user) < x.points
               /\ x.points \in 1..MaxCost
               /\ x.task \in Tasks /\ reservation[x.task].status = "none"
        /\ x.op = "link" => x.user \in Users /\ x.frozen <= x.balance
        /\ x.op \in UnfreezeTypes \cup {"settle"} =>
               x.task \in Tasks /\ reservation[x.task].status # "none"

\* No two freezes that wait for the pool share a task id.
DistinctClaims ==
    \A v, w \in Workers :
        v # w /\ txn[v].op = "freeze" /\ txn[w].op = "freeze" => txn[v].task # txn[w].task

\* A reservation names an account and what it holds there.
Charged ==
    \A t \in Tasks : reservation[t].status # "none" =>
        reservation[t].owner \in Owners /\ reservation[t].cost \in 1..MaxCost

\* The row locks protect what the code needs them to: the rows a transaction
\* has locked, and the reservation it is about to write, except for its status,
\* which is the point of ReleasedOnce below.
LocksProtect == (\A w \in Workers : Protected(w)) /\ DistinctClaims /\ Charged

\* A reservation that is over names the way it ended, and the ledger has the
\* row of that way; one that is not over has released nothing.  (settle,
\* unfreeze: the status and the rows of one transaction, whoever else ran.)
StatusIsBooked ==
    \A t \in Tasks :
        /\ reservation[t].status = "none" => ~ \E r \in ledger : r.task = t
        /\ Pending(t) => ~ \E type \in ReleaseTypes \cup {"settle"} : HasRow(t, type)
        /\ reservation[t].status = "settled" => HasRow(t, "settle") /\ HasRow(t, "unfreeze_settle")
        /\ reservation[t].status = "expired" => HasRow(t, "unfreeze_timeout")
        /\ reservation[t].status = "cancelled" => HasRow(t, "unfreeze_cancel")
        /\ reservation[t].status = "refunded" => HasRow(t, "unfreeze_fail")

\* The outbox tells generation-service exactly what the ledger did: a task
\* is cancelled or expired there iff its points were released here, even
\* when the transaction that wrote the event met an exception.
OutboxMatchesLedger ==
    \A t \in Tasks :
        /\ [type |-> "created", task |-> t] \in outbox <=> HasRow(t, "freeze")
        /\ [type |-> "cancelled", task |-> t] \in outbox <=> HasRow(t, "unfreeze_cancel")
        /\ [type |-> "expired", task |-> t] \in outbox <=> HasRow(t, "unfreeze_timeout")

\* What the rows without a task id add to an opening balance.  allocate and
\* recycle write one row, the member's, with the enterprise as its reference:
\* the pool has no rows of them, and is reckoned from those that refer to it.
Stated(o) == Opening[o] + (IF o = Pool THEN -lent ELSE moved[o])

\* A user's balance is what the user's ledger rows add up to, and the pool's
\* what its settlements and the members' rows that refer to it add up to: no
\* charge or transfer is lost or applied twice whatever transactions interleave.
BalanceIsStatement ==
    \A o \in Owners : balance[o] = Stated(o) - Cardinality(Booked(o, "settle"))

\* No point stays frozen for a task that is over.
NoOrphanedFreeze == \A o \in Owners : frozen[o] <= Cardinality(Held(o))

\* The points of every pending task are still frozen, and nothing else is.
FrozenBacksPending == \A o \in Owners : frozen[o] = Cardinality(Held(o))

\* A task is settled or released, and only one of them, once (PRD 5.3: task_id
\* is the idempotency key of freeze and settlement).
ReleasedOnce ==
    \A t \in Tasks : Cardinality({type \in ReleaseTypes : HasRow(t, type)}) <= 1

\* BILL-07: the shared pool pays only for a member whose own account is short
\* at the moment the points are frozen.
PoolIsLastResort ==
    [][\A w \in Requests :
          (txn[w].op = "freeze" /\ reservation'[txn[w].task].status = "pending")
          => available(txn[w].user) < reservation'[txn[w].task].cost]_vars

\* The ledger is only ever appended to, and a reservation that is over is
\* never pending again.
HistoryIsFinal ==
    [][/\ ledger \subseteq ledger'
       /\ \A t \in Tasks : reservation[t].status \notin {"none", "pending"}
                              => reservation'[t].status \notin {"none", "pending"}]_vars

\* Every frozen reservation is settled or released in the end.
EveryFreezeEnds == \A t \in Tasks : Pending(t) ~> ~ Pending(t)
=============================================================================
