-------------------------- MODULE PointEscrow_proofs --------------------------
(***************************************************************************)
(* What PointService adds up to, for every number of users, tasks and      *)
(* requests.  When the calls that end one task do not overlap, a           *)
(* transaction that ends a task finds it pending when it commits: the      *)
(* reservations implement Holds, and a task is released once.  When        *)
(* linkEnterprise is not called either, the points of the hold are still   *)
(* frozen: the accounts implement Escrow, a balance is the sum of its      *)
(* ledger rows, and the frozen points are those of the pending             *)
(* reservations.  A sum is the cardinality of a set of points, so each     *)
(* step is shown to add to such a set, or to take from it, the points of   *)
(* one task.                                                               *)
(***************************************************************************)
EXTENDS PointEscrow, PointService_proofs, FiniteSetTheorems

USE DEF Owners, Workers

\* The points a transaction will move are among those the escrow moves.
Bounded(x) ==
    /\ x.op = "settle" => x.points <= 2 * MaxCost
    /\ x.op \in {"allocate", "recycle"} => x.points \in Amounts
    /\ x.op # "link"

NoLink == \A w \in Workers : Bounded(txn[w])

\* The scheduler ends only what selectExpiredPending has returned.
OnlyDue == \A w \in Workers : txn[w].op = "unfreeze_timeout" => txn[w].task \in due

\* What holds of SerialSpec, also while linkEnterprise runs.
EndInv == /\ IInv /\ StatusIsBooked /\ OutboxMatchesLedger
          /\ NoOverlap /\ StillPending /\ OnlyDue

\* What holds of PointService without linkEnterprise, and then in SerialSpec.
LinkFree == IInv /\ StatusIsBooked /\ OutboxMatchesLedger /\ NoLink
SerialInv == LinkFree /\ NoOverlap /\ StillPending

-----------------------------------------------------------------------------
(* What a step is to the rows of accounts, reservations and ledger *)

Quiet == UNCHANGED <<balance, frozen, reservation, ledger, moved, lent>>

Opens(o, t, c, k) ==
    /\ reservation[t].status = "none" /\ available(o) >= c
    /\ Reserve(o, t, c, k)

LEMMA Steps ==
    ASSUME IInv, NoLink, Joiners = {}, [Next]_vars
    PROVE  \/ Quiet
           \/ \E o \in Owners, t \in Tasks, c \in 1..MaxCost, k \in Keys \cup {NoKey} : Opens(o, t, c, k)
           \/ \E w \in Workers : SettleCommit(w) \/ UnfreezeCommit(w)
           \/ \E w \in Workers : AllocateCommit(w) \/ RecycleCommit(w)
           \/ \E u \in Users, n \in Amounts : Credit(u, n)
<1>1. ASSUME NEW u \in Users, NEW t \in Tasks, NEW c \in Costs, NEW k \in Keys, FreezeOwn(u, t, c, k)
      PROVE  u \in Owners /\ c \in 1..MaxCost /\ k \in Keys \cup {NoKey} /\ Opens(u, t, c, k)
  BY <1>1, PointAssumption DEF FreezeOwn, Fresh, Opens
<1>2. ASSUME NEW w \in Workers, FreezePool(w)
      PROVE  \E o \in Owners, t \in Tasks, c \in 1..MaxCost, k \in Keys \cup {NoKey} : Opens(o, t, c, k)
  <2>1. txn[w].task \in Tasks /\ txn[w].points \in 1..MaxCost /\ txn[w].key \in Keys \cup {NoKey}
    BY <1>2 DEF FreezePool, IInv, TypeOK, Txn, LocksProtect, Protected
  <2>2. Opens(Pool, txn[w].task, txn[w].points, txn[w].key)
    BY <1>2 DEF FreezePool, IInv, LocksProtect, Protected, Opens
  <2>3. QED BY <2>1, <2>2
<1>3. ASSUME NEW w \in Workers, Rollback(w) PROVE Quiet
  BY <1>3 DEF Rollback, Quiet, accounts, rows
<1>4. ASSUME NEW w \in Workers, LinkCommit(w) PROVE FALSE
  BY <1>4 DEF LinkCommit, NoLink, Bounded
<1>5. ASSUME NEW w \in Workers, Step(w)
      PROVE  Quiet \/ FreezePool(w) \/ SettleCommit(w) \/ UnfreezeCommit(w)
                   \/ AllocateCommit(w) \/ RecycleCommit(w)
  BY <1>3, <1>4, <1>5 DEF Step, FreezeRefused, SettleRefused, UnfreezeRefused, DeadlockVictim
<1>6. ASSUME NEW w \in Workers, Request(w) PROVE Quiet
  BY <1>6 DEF Request, SettleBegin, UnfreezeBegin, FreezeBegin, AllocateBegin, RecycleBegin,
              LinkBegin, Begin, Quiet, accounts, rows
<1>7. ASSUME NEW t \in Tasks, DeadlinePasses(t) PROVE Quiet
  BY <1>7 DEF DeadlinePasses, Quiet, accounts, rows
<1>8. CASE UNCHANGED vars
  BY <1>8 DEF vars, Quiet, accounts, rows
<1>9. QED BY <1>1, <1>2, <1>5, <1>6, <1>7, <1>8 DEF Next

\* What a step is to the open transactions.
LEMMA TxnSteps ==
    ASSUME IInv, [Next]_vars
    PROVE  \/ UNCHANGED txn
           \/ \E w \in Workers : Step(w) /\ Close(w)
           \/ \E w \in Workers : Request(w) /\ UNCHANGED rows /\ \A v \in Workers \ {w} : txn'[v] = txn[v]
<1>1. ASSUME NEW w \in Workers, Step(w) PROVE Close(w)
  BY <1>1 DEF Step, FreezePool, FreezeRefused, SettleCommit, SettleRefused, UnfreezeCommit,
              UnfreezeRefused, AllocateCommit, RecycleCommit, LinkCommit, DeadlockVictim, Rollback
<1>2. ASSUME NEW w \in Workers, Request(w)
      PROVE  UNCHANGED rows /\ \A v \in Workers \ {w} : txn'[v] = txn[v]
  <2>1. \E x, held : Begin(w, x, held)
    BY <1>2 DEF Request, SettleBegin, UnfreezeBegin, FreezeBegin, AllocateBegin, RecycleBegin, LinkBegin
  <2>2. QED BY <2>1 DEF Begin, IInv, TypeOK
<1>3. QED BY <1>1, <1>2 DEF Next, FreezeOwn, Credit, DeadlinePasses, vars

\* The transaction a request opens.
LEMMA Requested ==
    ASSUME IInv, NEW w \in Workers, Request(w)
    PROVE  /\ Joiners = {} => Bounded(txn[w])'
           /\ txn'[w].op \in Releasing => txn'[w].task \in Tasks /\ Pending(txn'[w].task)
           /\ txn'[w].op = "unfreeze_timeout" => txn'[w].task \in due
<1> USE DEF Bounded, Releasing, UnfreezeTypes, Begin, Idle
<1>0. txn \in [Workers -> Txn]
  BY DEF IInv, TypeOK
<1>1. ASSUME NEW t \in Tasks, NEW s \in Surcharges, SettleBegin(w, t, reservation[t].cost + s)
      PROVE  /\ Bounded(txn[w])'
             /\ txn'[w].op \in Releasing => txn'[w].task \in Tasks /\ Pending(txn'[w].task)
             /\ txn'[w].op = "settle"
  <2> DEFINE n == reservation[t].cost + s
  <2>1. txn'[w].op = "settle" /\ txn'[w].task = t /\ txn'[w].points = n
    BY <1>0, <1>1 DEF SettleBegin
  <2>2. Pending(t) /\ n <= 2 * reservation[t].cost
    BY <1>1 DEF SettleBegin
  <2>3. reservation[t].cost \in 1..MaxCost /\ n \in Int
    BY <2>2, PointAssumption DEF IInv, LocksProtect, Charged, Pending
  <2> HIDE DEF n
  <2>4. n <= 2 * MaxCost
    BY <2>2, <2>3, PointAssumption
  <2>5. QED BY <2>1, <2>2, <2>4
<1>2. ASSUME NEW t \in Tasks, NEW type \in UnfreezeTypes, UnfreezeBegin(w, t, type)
      PROVE  /\ txn'[w].op = type /\ txn'[w].task = t /\ Pending(t)
             /\ type = "unfreeze_timeout" => t \in due
  BY <1>0, <1>2 DEF UnfreezeBegin
<1>3. ASSUME NEW u \in Users, NEW t \in Tasks, NEW c \in Costs, NEW k \in Keys,
             FreezeBegin(w, u, t, c, k)
      PROVE  txn'[w].op = "freeze"
  BY <1>0, <1>3 DEF FreezeBegin
<1>4. ASSUME NEW u \in Users, NEW n \in Amounts, AllocateBegin(w, u, n) \/ RecycleBegin(w, u, n)
      PROVE  txn'[w].op \in {"allocate", "recycle"} /\ txn'[w].points = n
  <2>1. CASE AllocateBegin(w, u, n)
    <3>1. txn' = [txn EXCEPT ![w] = [Idle EXCEPT !.op = "allocate", !.user = u, !.points = n]]
      BY <2>1 DEF AllocateBegin
    <3>2. QED BY ONLY <1>0, <3>1 DEF Idle
  <2>2. CASE RecycleBegin(w, u, n)
    <3>1. txn' = [txn EXCEPT ![w] = [Idle EXCEPT !.op = "recycle", !.user = u, !.points = n]]
      BY <2>2 DEF RecycleBegin
    <3>2. QED BY ONLY <1>0, <3>1 DEF Idle
  <2>3. QED BY <1>4, <2>1, <2>2
<1>5. ASSUME NEW u \in Users, LinkBegin(w, u)
      PROVE  txn'[w].op = "link" /\ Joiners # {}
  BY <1>0, <1>5 DEF LinkBegin
<1>6. QED BY <1>1, <1>2, <1>3, <1>4, <1>5 DEF Request

LEMMA NoLinkStep ==
    ASSUME IInv, NoLink, Joiners = {}, [Next]_vars
    PROVE  NoLink'
<1>1. CASE UNCHANGED txn
  BY <1>1 DEF NoLink, Bounded
<1>2. ASSUME NEW w \in Workers, Close(w) PROVE NoLink'
  <2>1. \A v \in Workers : txn'[v] = txn[v] \/ txn'[v] = Idle
    BY <1>2 DEF Close, IInv, TypeOK
  <2>2. Bounded(Idle)
    BY DEF Bounded, Idle
  <2>3. QED BY <2>1, <2>2 DEF NoLink, Bounded
<1>3. ASSUME NEW w \in Workers, Request(w), \A v \in Workers \ {w} : txn'[v] = txn[v] PROVE NoLink'
  BY <1>3, Requested DEF NoLink, Bounded
<1>4. QED BY <1>1, <1>2, <1>3, TxnSteps

\* Which reservations a commit writes.
LEMMA PendingKept ==
    ASSUME IInv, [Next]_vars, NEW t \in Tasks, Pending(t),
           \A w \in Workers : txn[w].op \in Releasing /\ txn[w].task = t => txn'[w] = txn[w]
    PROVE  Pending(t)'
<1>1. CASE UNCHANGED rows
  BY <1>1 DEF rows, Pending
<1>2. ASSUME NEW u \in Users, NEW s \in Tasks, NEW c \in Costs, NEW k \in Keys, FreezeOwn(u, s, c, k)
      PROVE  Pending(t)'
  BY <1>2 DEF FreezeOwn, Fresh, Reserve, Pending, IInv, TypeOK
<1>3. ASSUME NEW w \in Workers, FreezePool(w) PROVE Pending(t)'
  <2>1. txn[w].task \in Tasks /\ reservation[txn[w].task].status = "none"
    BY <1>3 DEF FreezePool, IInv, LocksProtect, Protected
  <2>2. QED BY <1>3, <2>1 DEF FreezePool, Reserve, Pending, IInv, TypeOK
<1>4. ASSUME NEW w \in Workers, SettleCommit(w) \/ UnfreezeCommit(w) PROVE Pending(t)'
  <2>1. txn[w].op \in Releasing /\ Close(w)
    BY <1>4 DEF SettleCommit, UnfreezeCommit, Releasing
  <2>2. txn'[w] # txn[w]
    BY <2>1 DEF Close, Idle, Releasing, UnfreezeTypes, IInv, TypeOK
  <2>3. txn[w].task # t
    BY <2>1, <2>2
  <2>4. \E s \in Statuses : reservation' = [reservation EXCEPT ![txn[w].task].status = s]
    BY <1>4 DEF SettleCommit, UnfreezeCommit, StatusAfter, UnfreezeTypes, Statuses
  <2>5. QED BY <2>3, <2>4 DEF Pending, IInv, TypeOK
<1>5. QED BY <1>1, <1>2, <1>3, <1>4, OtherSteps

LEMMA StillPendingStep ==
    ASSUME IInv, NoOverlap, StillPending, [Next]_vars
    PROVE  StillPending'
<1> SUFFICES ASSUME NEW w \in Workers, txn'[w].op \in Releasing
             PROVE  Pending(txn[w].task)'
  BY DEF StillPending
<1> DEFINE t == txn[w].task
<1>1. CASE txn'[w] = txn[w] /\ UNCHANGED txn
  <2>1. t \in Tasks /\ Pending(t)
    BY <1>1, ClaimHeld DEF StillPending, Releasing
  <2>2. Pending(t)'
    BY <1>1, <2>1, PendingKept
  <2>3. QED BY <1>1, <2>2 DEF Pending
<1>2. ASSUME NEW v \in Workers, Close(v) PROVE Pending(txn[w].task)'
  <2>1. v # w /\ \A x \in Workers \ {v} : txn'[x] = txn[x]
    BY <1>2 DEF Close, Idle, Releasing, UnfreezeTypes, IInv, TypeOK
  <2>2. txn[w].op \in Releasing /\ txn'[w] = txn[w]
    BY <2>1
  <2>3. t \in Tasks /\ Pending(t)
    BY <2>2, ClaimHeld DEF StillPending, Releasing
  <2>4. \A x \in Workers : txn[x].op \in Releasing /\ txn[x].task = t => x = w
    BY <2>2 DEF NoOverlap
  <2>5. Pending(t)'
    BY <2>2, <2>3, <2>4, PendingKept
  <2>6. QED BY <2>2, <2>5 DEF Pending
<1>3. ASSUME NEW v \in Workers, Request(v), UNCHANGED rows, \A x \in Workers \ {v} : txn'[x] = txn[x]
      PROVE  Pending(txn[w].task)'
  <2>1. Pending(txn'[w].task)
    <3>1. CASE v = w
      BY <1>3, <3>1, Requested
    <3>2. CASE v # w
      BY <1>3, <3>2 DEF StillPending
    <3>3. QED BY <3>1, <3>2
  <2>2. QED BY <1>3, <2>1 DEF Pending, rows
<1>4. QED BY <1>1, <1>2, <1>3, TxnSteps

-----------------------------------------------------------------------------
(* What generation-service sees of a step *)

LEMMA RowSteps ==
    ASSUME IInv, [Next]_vars
    PROVE  \/ UNCHANGED <<rows, due>>
           \/ \E t \in Tasks : DeadlinePasses(t)
           \/ \E t \in Tasks : \E o, c, k : reservation[t].status = "none" /\ Reserve(o, t, c, k)
           \/ \E w \in Workers : SettleCommit(w) \/ UnfreezeCommit(w)
<1>1. ASSUME NEW u \in Users, NEW t \in Tasks, NEW c \in Costs, NEW k \in Keys, FreezeOwn(u, t, c, k)
      PROVE  \E o, d, key : reservation[t].status = "none" /\ Reserve(o, t, d, key)
  <2>1. reservation[t].status = "none" /\ Reserve(u, t, c, k)
    BY <1>1 DEF FreezeOwn, Fresh
  <2>2. QED BY <2>1
<1>2. ASSUME NEW w \in Workers, FreezePool(w)
      PROVE  \E t \in Tasks : \E o, c, k : reservation[t].status = "none" /\ Reserve(o, t, c, k)
  <2>1. /\ txn[w].task \in Tasks /\ reservation[txn[w].task].status = "none"
        /\ Reserve(Pool, txn[w].task, txn[w].points, txn[w].key)
    BY <1>2 DEF FreezePool, IInv, LocksProtect, Protected
  <2>2. QED BY <2>1
<1>3. ASSUME NEW w \in Workers, Step(w), ~ FreezePool(w), ~ SettleCommit(w), ~ UnfreezeCommit(w)
      PROVE  UNCHANGED <<rows, due>>
  BY <1>3 DEF Step, FreezeRefused, SettleRefused, UnfreezeRefused, AllocateCommit,
              RecycleCommit, LinkCommit, DeadlockVictim, Rollback
<1>4. ASSUME NEW w \in Workers, Request(w) PROVE UNCHANGED <<rows, due>>
  <2>1. \E x, held : Begin(w, x, held)
    BY <1>4 DEF Request, SettleBegin, UnfreezeBegin, FreezeBegin, AllocateBegin, RecycleBegin, LinkBegin
  <2>2. QED BY <2>1 DEF Begin
<1>5. ASSUME NEW u \in Users, NEW n \in Amounts, Credit(u, n) PROVE UNCHANGED <<rows, due>>
  BY <1>5 DEF Credit
<1>6. CASE UNCHANGED vars
  BY <1>6 DEF vars
<1>7. QED BY <1>1, <1>2, <1>3, <1>4, <1>5, <1>6 DEF Next

LEMMA OnlyDueStep ==
    ASSUME IInv, OnlyDue, [Next]_vars
    PROVE  OnlyDue'
<1>1. due \subseteq due'
  BY RowSteps DEF DeadlinePasses, Reserve, SettleCommit, UnfreezeCommit
<1>2. CASE UNCHANGED txn
  BY <1>1, <1>2 DEF OnlyDue
<1>3. ASSUME NEW v \in Workers, Close(v) PROVE OnlyDue'
  <2>1. \A w \in Workers : txn'[w] = txn[w] \/ txn'[w].op = "idle"
    BY <1>3 DEF Close, Idle, IInv, TypeOK
  <2>2. QED BY <1>1, <2>1 DEF OnlyDue
<1>4. ASSUME NEW v \in Workers, Request(v), \A w \in Workers \ {v} : txn'[w] = txn[w] PROVE OnlyDue'
  BY <1>1, <1>4, Requested DEF OnlyDue
<1>5. QED BY <1>2, <1>3, <1>4, TxnSteps

\* Only the status of t changes, to s.
LEMMA StatusUpdated ==
    ASSUME IInv, NEW t \in Tasks, NEW s,
           \/ reservation' = [reservation EXCEPT ![t].status = s]
           \/ \E x : reservation' = [reservation EXCEPT ![t] = x] /\ x.status = s
    PROVE  HoldStatus' = [HoldStatus EXCEPT ![t] = s]
<1>1. reservation \in [Tasks -> Reservation]
  BY DEF IInv, TypeOK
<1>2. \A u \in Tasks : reservation'[u].status = IF u = t THEN s ELSE reservation[u].status
  BY <1>1 DEF Reservation
<1>3. QED BY <1>2 DEF HoldStatus

LEMMA StatusAt == \A t \in Tasks : HoldStatus[t] = reservation[t].status
  BY DEF HoldStatus

LEMMA ReserveHolds ==
    ASSUME IInv, NEW o, NEW t \in Tasks, NEW c, NEW k,
           reservation[t].status = "none", Reserve(o, t, c, k)
    PROVE  H!Next
<1>1. HoldStatus' = [HoldStatus EXCEPT ![t] = "pending"]
  <2> DEFINE x == [status |-> "pending", owner |-> o, cost |-> c, key |-> k]
  <2>1. reservation' = [reservation EXCEPT ![t] = x] /\ x.status = "pending"
    BY DEF Reserve
  <2> HIDE DEF x
  <2>2. QED BY <2>1, StatusUpdated
<1>2. H!Freeze(t)
  BY <1>1, StatusAt DEF H!Freeze, Reserve
<1>3. QED BY <1>2 DEF H!Next

LEMMA SettleHolds ==
    ASSUME EndInv, NEW w \in Workers, SettleCommit(w)
    PROVE  H!Next
<1>1. PICK t \in Tasks : t = txn[w].task /\ Pending(t)
  BY ClaimHeld DEF SettleCommit, EndInv, StillPending, Releasing
<1>2. HoldStatus' = [HoldStatus EXCEPT ![t] = "settled"]
  BY <1>1, StatusUpdated DEF SettleCommit, EndInv
<1>3. H!Close(t, "settled")
  BY <1>1, <1>2, StatusAt DEF H!Close, SettleCommit, Pending
<1>4. QED BY <1>3 DEF H!Next

LEMMA UnfreezeHolds ==
    ASSUME EndInv, NEW w \in Workers, UnfreezeCommit(w)
    PROVE  H!Next
<1>1. PICK t \in Tasks, type \in UnfreezeTypes :
         t = txn[w].task /\ type = txn[w].op /\ Pending(t)
  BY ClaimHeld DEF UnfreezeCommit, EndInv, StillPending, Releasing
<1>2. HoldStatus' = [HoldStatus EXCEPT ![t] = StatusAfter(type)]
  BY <1>1, StatusUpdated DEF UnfreezeCommit, EndInv
<1>3. HoldStatus[t] = "pending" /\ due' = due /\ outbox' = outbox \cup EventsAfter(type, t)
  BY <1>1, StatusAt DEF UnfreezeCommit, Pending
<1>4. CASE type = "unfreeze_fail"
  BY <1>2, <1>3, <1>4 DEF StatusAfter, EventsAfter, H!Close, H!Next
<1>5. CASE type = "unfreeze_cancel"
  BY <1>2, <1>3, <1>5 DEF StatusAfter, EventsAfter, H!Release, H!Cancel, H!Next
<1>6. CASE type = "unfreeze_timeout"
  <2>1. t \in due
    BY <1>1, <1>6 DEF EndInv, OnlyDue
  <2>2. QED BY <1>2, <1>3, <1>6, <2>1 DEF StatusAfter, EventsAfter, H!Release, H!Timeout, H!Next
<1>7. QED BY <1>4, <1>5, <1>6 DEF UnfreezeTypes

LEMMA DeadlineHolds ==
    ASSUME NEW t \in Tasks, DeadlinePasses(t)
    PROVE  H!Next
<1>1. UNCHANGED <<HoldStatus, outbox>>
  BY DEF DeadlinePasses, rows, HoldStatus
<1>2. H!DeadlinePasses(t)
  BY <1>1, StatusAt DEF H!DeadlinePasses, DeadlinePasses
<1>3. QED BY <1>2 DEF H!Next

LEMMA InitEnds == Init => EndInv /\ H!Init
<1> SUFFICES ASSUME Init PROVE EndInv /\ H!Init
  OBVIOUS
<1>1. \A w \in Workers : txn[w] = Idle
  BY DEF Init
<1>2. NoOverlap /\ StillPending /\ OnlyDue
  BY <1>1 DEF NoOverlap, StillPending, OnlyDue, Idle, Releasing, UnfreezeTypes
<1>3. StatusIsBooked /\ OutboxMatchesLedger
  BY DEF Init, StatusIsBooked, OutboxMatchesLedger, HasRow, Pending, NoReservation, StatusAfter,
         UnfreezeTypes
<1>4. H!Init
  BY DEF Init, H!Init, HoldStatus, NoReservation
<1>5. QED BY <1>2, <1>3, <1>4, InitInv DEF EndInv

LEMMA EndStep ==
    ASSUME EndInv, [SerialNext]_vars
    PROVE  EndInv' /\ [H!Next]_(H!holdVars)
<1>1. [Next]_vars
  BY DEF SerialNext
<1>2. IInv' /\ StatusIsBooked' /\ OutboxMatchesLedger'
  BY <1>1, NextInv, BooksInv DEF EndInv
<1>3. NoOverlap'
  BY DEF SerialNext, EndInv, NoOverlap, vars
<1>4. StillPending' /\ OnlyDue'
  BY <1>1, StillPendingStep, OnlyDueStep DEF EndInv
<1>5. UNCHANGED <<rows, due>> => UNCHANGED H!holdVars
  BY DEF rows, H!holdVars, HoldStatus
<1>6. [H!Next]_(H!holdVars)
  BY <1>1, <1>5, RowSteps, ReserveHolds, SettleHolds, UnfreezeHolds, DeadlineHolds DEF EndInv
<1>7. QED BY <1>2, <1>3, <1>4, <1>6 DEF EndInv

\* A transaction that settles or releases a task finds it pending at its commit,
\* when calls for one task do not overlap.
THEOREM CommitsOnPending == SerialSpec => []StillPending
<1>1. EndInv /\ [SerialNext]_vars => EndInv'
  BY EndStep
<1>2. EndInv => StillPending
  BY DEF EndInv
<1>3. QED BY <1>1, <1>2, InitEnds, PTL DEF SerialSpec

\* PointService keeps the Holds that TaskBilling builds on: each freeze, settlement
\* and release is one step of a hold, with the event it announces, also while
\* linkEnterprise writes stale columns back.
THEOREM HoldsAreKept == SerialSpec => ImplementsHolds
<1>1. EndInv /\ [SerialNext]_vars => EndInv' /\ [H!Next]_(H!holdVars)
  BY EndStep
<1>2. QED BY <1>1, InitEnds, PTL DEF SerialSpec, ImplementsHolds, H!Spec

-----------------------------------------------------------------------------
(* The holds of the escrow *)

LEMMA HoldSame ==
    ASSUME NEW t \in Tasks, reservation'[t] = reservation[t], Charges(t)' = Charges(t)
    PROVE  Hold'[t] = Hold[t]
  BY DEF Hold, HoldPoints, Paid

LEMMA HoldOne ==
    ASSUME NEW t \in Tasks
    PROVE  Hold[t] = [state |-> HoldState(reservation[t].status),
                      owner |-> reservation[t].owner, points |-> HoldPoints(t)]
  BY DEF Hold

LEMMA HoldNext ==
    ASSUME NEW t \in Tasks
    PROVE  Hold'[t] = [state |-> HoldState(reservation'[t].status),
                       owner |-> reservation'[t].owner, points |-> HoldPoints(t)']
  BY DEF Hold

\* Only the hold of t changes: Hold' is Hold with another record at t.
LEMMA HoldUpdated ==
    ASSUME NEW t \in Tasks, \A x \in Tasks \ {t} : Hold'[x] = Hold[x]
    PROVE  Hold' = [Hold EXCEPT ![t] = Hold'[t]]
<1>1. Hold = [x \in Tasks |-> Hold[x]] /\ Hold' = [x \in Tasks |-> Hold'[x]]
  BY DEF Hold
<1>2. QED BY ONLY <1>1, \A x \in Tasks \ {t} : Hold'[x] = Hold[x], t \in Tasks

\* Only the free points of o change, to v.
LEMMA FreeUpdated ==
    ASSUME NEW o \in Owners, NEW v, balance'[o] - frozen'[o] = v,
           \A a \in Owners \ {o} : balance'[a] = balance[a] /\ frozen'[a] = frozen[a]
    PROVE  Free' = [Free EXCEPT ![o] = v]
  BY DEF Free, available

LEMMA FreeAt == \A o \in Owners : Free[o] = balance[o] - frozen[o]
  BY DEF Free, available

LEMMA TheOnly == \A x : (CHOOSE r \in {x} : TRUE) = x
  OBVIOUS

LEMMA MovedCosts == \A n \in Nat : n <= 2 * MaxCost => n \in Moved
<1>1. 2 * MaxCost \in Nat
  BY PointAssumption
<1>2. QED BY <1>1 DEF Moved

-----------------------------------------------------------------------------
(* A step of the escrow *)

LEMMA QuietEscrow == Quiet => UNCHANGED E!escrowVars
<1> SUFFICES ASSUME Quiet PROVE Free' = Free /\ Hold' = Hold
  BY DEF E!escrowVars
<1>1. Free' = Free
  BY DEF Quiet, Free, available
<1>2. \A t \in Tasks : Hold'[t] = Hold[t]
  BY HoldSame DEF Quiet, Charges
<1>3. QED BY <1>1, <1>2 DEF Hold

LEMMA OpenEscrow ==
    ASSUME IInv, NEW o \in Owners, NEW t \in Tasks, NEW c \in 1..MaxCost, NEW k, Opens(o, t, c, k)
    PROVE  E!Next
<1>0. c \in Moved /\ c \in Int
  BY MovedCosts, PointAssumption
<1>1. /\ balance \in [Owners -> Nat] /\ frozen \in [Owners -> Nat]
      /\ frozen' = [frozen EXCEPT ![o] = frozen[o] + c] /\ balance' = balance
      /\ available(o) >= c
  BY DEF Opens, Reserve, IInv, TypeOK
<1>2. Free' = [Free EXCEPT ![o] = Free[o] - c] /\ c <= Free[o]
  <2>1. /\ balance'[o] - frozen'[o] = Free[o] - c /\ c <= Free[o]
        /\ \A a \in Owners \ {o} : balance'[a] = balance[a] /\ frozen'[a] = frozen[a]
    BY ONLY <1>0, <1>1, FreeAt, o \in Owners DEF available
  <2>2. QED BY <2>1, FreeUpdated
<1>3. /\ reservation \in [Tasks -> Reservation]
      /\ reservation' = [reservation EXCEPT ![t] = [status |-> "pending", owner |-> o, cost |-> c, key |-> k]]
      /\ reservation[t].status = "none"
  BY DEF Opens, Reserve, IInv, TypeOK
<1>4. \A x : Charges(x)' = Charges(x)
  BY DEF Opens, Reserve, Charges, Row
<1>5. \A x \in Tasks \ {t} : Hold'[x] = Hold[x]
  BY <1>3, <1>4, HoldSame
<1>6. Hold[t].state = "none"
  <2>1. HoldState(reservation[t].status) = "none"
    BY <1>3 DEF HoldState
  <2>2. Hold[t] = [state |-> HoldState(reservation[t].status),
                   owner |-> reservation[t].owner, points |-> HoldPoints(t)]
    BY HoldOne
  <2>3. QED BY ONLY <2>1, <2>2
<1>7. Hold'[t] = [state |-> "held", owner |-> o, points |-> c]
  <2>1. /\ reservation'[t].status = "pending" /\ reservation'[t].owner = o
        /\ reservation'[t].cost = c
    BY ONLY <1>3, t \in Tasks
  <2>2. HoldPoints(t)' = c
    BY <2>1 DEF HoldPoints
  <2>3. HoldState(reservation'[t].status) = "held"
    BY <2>1 DEF HoldState
  <2>4. QED BY <2>1, <2>2, <2>3, HoldNext
<1>8. Hold' = [Hold EXCEPT ![t] = [state |-> "held", owner |-> o, points |-> c]]
  BY <1>5, <1>7, HoldUpdated
<1>9. E!Open(t, o, c)
  BY <1>2, <1>6, <1>8 DEF E!Open
<1>10. QED BY <1>0, <1>9 DEF E!Next

\* The hold of a task that a transaction ends is open.
LEMMA HoldOpen ==
    ASSUME LinkFree, NEW t \in Tasks, Pending(t)
    PROVE  /\ Hold[t] = [state |-> "held", owner |-> reservation[t].owner, points |-> reservation[t].cost]
           /\ Charges(t) = {}
<1>1. HoldPoints(t) = reservation[t].cost /\ HoldState(reservation[t].status) = "held"
  BY DEF Pending, HoldPoints, HoldState
<1>2. Charges(t) = {}
  BY DEF LinkFree, StatusIsBooked, HasRow, Charges
<1>3. QED BY <1>1, <1>2, HoldOne

\* A hold that is open is closed with n points.
LEMMA CloseEscrow ==
    ASSUME NEW t \in Tasks, NEW o \in Owners, NEW cost, NEW n, NEW state,
           Hold[t] = [state |-> "held", owner |-> o, points |-> cost],
           Hold'[t] = [state |-> state, owner |-> o, points |-> n],
           \A x \in Tasks \ {t} : Hold'[x] = Hold[x],
           Free' = [Free EXCEPT ![o] = Free[o] + cost - n],
           n <= Free[o] + cost
    PROVE  E!Close(t, n, state)
<1>1. Hold' = [Hold EXCEPT ![t] = Hold'[t]]
  BY HoldUpdated
<1>2. Hold = [x \in Tasks |-> Hold[x]]
  BY DEF Hold
<1>3. [Hold EXCEPT ![t].state = state, ![t].points = n] = [Hold EXCEPT ![t] = Hold'[t]]
  <2>1. [[state |-> "held", owner |-> o, points |-> cost] EXCEPT !.state = state]
            = [state |-> state, owner |-> o, points |-> cost]
    BY ONLY TRUE
  <2>2. [[state |-> state, owner |-> o, points |-> cost] EXCEPT !.points = n] = Hold'[t]
    BY ONLY Hold'[t] = [state |-> state, owner |-> o, points |-> n]
  <2> DEFINE h == [Hold EXCEPT ![t].state = state]
  <2>3. /\ h = [x \in Tasks |-> IF x = t THEN [state |-> state, owner |-> o, points |-> cost] ELSE Hold[x]]
    BY ONLY <1>2, <2>1, Hold[t] = [state |-> "held", owner |-> o, points |-> cost], t \in Tasks
  <2> HIDE DEF h
  <2>4. [h EXCEPT ![t].points = n] = [Hold EXCEPT ![t] = Hold'[t]]
    BY ONLY <1>2, <2>2, <2>3, t \in Tasks
  <2>5. QED BY ONLY <2>4 DEF h
<1>4. Hold[t].owner = o /\ Hold[t].state = "held" /\ Hold[t].points = cost
  OBVIOUS
<1>5. QED BY <1>1, <1>3, <1>4 DEF E!Close

LEMMA SettleEscrow ==
    ASSUME LinkFree, StillPending, NEW w \in Workers, SettleCommit(w)
    PROVE  E!Next
<1>0. PICK t \in Tasks, o \in Owners, n \in Nat, cost \in 1..MaxCost :
          /\ t = txn[w].task /\ o = reservation[t].owner /\ n = txn[w].points
          /\ cost = reservation[t].cost /\ Pending(t) /\ n <= 2 * MaxCost
  <2>1. txn[w].op = "settle"
    BY DEF SettleCommit
  <2>2. QED BY <2>1, ClaimHeld DEF LinkFree, StillPending, Releasing, NoLink, Bounded
<1>1. n \in Moved
  BY <1>0, MovedCosts
<1>2. /\ balance \in [Owners -> Nat] /\ frozen \in [Owners -> Nat]
      /\ reservation \in [Tasks -> Reservation]
      /\ balance' = [balance EXCEPT ![o] = balance[o] - n]
      /\ frozen' = [frozen EXCEPT ![o] = frozen[o] - cost]
      /\ reservation' = [reservation EXCEPT ![t].status = "settled"]
      /\ ledger' = ledger \cup SettleRows(t, o, n)
  BY <1>0 DEF SettleCommit, LinkFree, IInv, TypeOK
<1>3. frozen[o] - cost <= balance[o] - n
  BY <1>0 DEF SettleCommit, SettleAccepted, RowOK
<1>4. Hold[t] = [state |-> "held", owner |-> o, points |-> cost] /\ Charges(t) = {}
  BY <1>0, HoldOpen
<1>5. \A x \in Tasks : Charges(x)' = IF x = t THEN Charges(t) \cup {Row(t, "settle", o, n)} ELSE Charges(x)
  BY ONLY <1>2 DEF Charges, SettleRows, Row
<1>6. /\ reservation'[t].status = "settled" /\ reservation'[t].owner = o
      /\ \A x \in Tasks \ {t} : reservation'[x] = reservation[x]
  BY ONLY <1>0, <1>2 DEF Reservation
<1>7. Free' = [Free EXCEPT ![o] = Free[o] + cost - n] /\ n <= Free[o] + cost
  <2>1. balance[o] \in Nat /\ frozen[o] \in Nat
    BY ONLY <1>2, o \in Owners
  <2>2. balance'[o] = balance[o] - n /\ frozen'[o] = frozen[o] - cost
    BY ONLY <1>2, o \in Owners
  <2>3. Free[o] = balance[o] - frozen[o]
    BY FreeAt
  <2>4. cost \in Int /\ n \in Int
    OBVIOUS
  <2>5. balance'[o] - frozen'[o] = Free[o] + cost - n /\ n <= Free[o] + cost
    BY ONLY <1>3, <2>1, <2>2, <2>3, <2>4
  <2>6. \A a \in Owners \ {o} : balance'[a] = balance[a] /\ frozen'[a] = frozen[a]
    BY ONLY <1>2
  <2>7. QED BY <2>5, <2>6, FreeUpdated
<1>8. \A x \in Tasks \ {t} : Hold'[x] = Hold[x]
  BY <1>5, <1>6, HoldSame
<1>9. Hold'[t] = [state |-> "charged", owner |-> o, points |-> n]
  <2>1. Charges(t)' = {Row(t, "settle", o, n)}
    BY <1>4, <1>5
  <2>2. Paid(t)' = n
    <3>1. Paid(t)' = (CHOOSE r \in {Row(t, "settle", o, n)} : TRUE).points
      BY <2>1 DEF Paid
    <3>2. (CHOOSE r \in {Row(t, "settle", o, n)} : TRUE) = Row(t, "settle", o, n)
      BY ONLY TheOnly
    <3>3. QED BY <3>1, <3>2 DEF Row
  <2>3. HoldPoints(t)' = n /\ HoldState(reservation'[t].status) = "charged"
    BY <1>6, <2>2 DEF HoldPoints, HoldState
  <2>4. QED BY <1>6, <2>3, HoldNext
<1>10. E!Close(t, n, "charged")
  BY <1>4, <1>7, <1>8, <1>9, CloseEscrow
<1>11. QED BY <1>1, <1>10 DEF E!Next, E!Charge

LEMMA UnfreezeEscrow ==
    ASSUME LinkFree, StillPending, NEW w \in Workers, UnfreezeCommit(w)
    PROVE  E!Next
<1>0. PICK t \in Tasks, o \in Owners, how \in UnfreezeTypes, cost \in 1..MaxCost :
          /\ t = txn[w].task /\ o = reservation[t].owner /\ how = txn[w].op
          /\ cost = reservation[t].cost /\ Pending(t)
  <2>1. txn[w].op \in UnfreezeTypes
    BY DEF UnfreezeCommit
  <2>2. QED BY <2>1, ClaimHeld DEF LinkFree, StillPending, Releasing
<1>1. /\ balance \in [Owners -> Nat] /\ frozen \in [Owners -> Nat]
      /\ reservation \in [Tasks -> Reservation]
      /\ balance' = balance
      /\ frozen' = [frozen EXCEPT ![o] = frozen[o] - cost]
      /\ reservation' = [reservation EXCEPT ![t].status = StatusAfter(how)]
      /\ ledger' = ledger \cup {Row(t, how, o, cost)}
  BY <1>0 DEF UnfreezeCommit, LinkFree, IInv, TypeOK
<1>2. frozen[o] <= balance[o]
  BY DEF LinkFree, IInv, AvailableNeverNegative
<1>3. Hold[t] = [state |-> "held", owner |-> o, points |-> cost]
  BY <1>0, HoldOpen
<1>4. \A x \in Tasks : Charges(x)' = Charges(x)
  BY ONLY <1>1, how \in UnfreezeTypes DEF Charges, Row, UnfreezeTypes
<1>5. StatusAfter(how) \in {"expired", "cancelled", "refunded"}
  BY DEF StatusAfter, UnfreezeTypes
<1>6. /\ reservation'[t].status = StatusAfter(how) /\ reservation'[t].owner = o
      /\ \A x \in Tasks \ {t} : reservation'[x] = reservation[x]
  BY ONLY <1>0, <1>1 DEF Reservation
<1>7. Free' = [Free EXCEPT ![o] = Free[o] + cost - 0] /\ 0 <= Free[o] + cost
  <2>1. balance[o] \in Nat /\ frozen[o] \in Nat
    BY ONLY <1>1, o \in Owners
  <2>2. balance'[o] = balance[o] /\ frozen'[o] = frozen[o] - cost
    BY ONLY <1>1, o \in Owners
  <2>3. Free[o] = balance[o] - frozen[o]
    BY FreeAt
  <2>4. cost \in Nat
    BY PointAssumption
  <2>5. balance'[o] - frozen'[o] = Free[o] + cost - 0 /\ 0 <= Free[o] + cost
    BY ONLY <1>2, <2>1, <2>2, <2>3, <2>4
  <2>6. \A a \in Owners \ {o} : balance'[a] = balance[a] /\ frozen'[a] = frozen[a]
    BY ONLY <1>1
  <2>7. QED BY <2>5, <2>6, FreeUpdated
<1>8. \A x \in Tasks \ {t} : Hold'[x] = Hold[x]
  BY <1>4, <1>6, HoldSame
<1>9. Hold'[t] = [state |-> "returned", owner |-> o, points |-> 0]
  <2>1. HoldPoints(t)' = 0 /\ HoldState(reservation'[t].status) = "returned"
    BY <1>5, <1>6 DEF HoldPoints, HoldState
  <2>2. QED BY <1>6, <2>1, HoldNext
<1>10. E!Close(t, 0, "returned")
  BY <1>3, <1>7, <1>8, <1>9, CloseEscrow
<1>11. QED BY <1>10 DEF E!Next, E!Return

\* Points that move without a task leave the holds alone.
LEMMA HoldsKept == UNCHANGED <<reservation, ledger>> => Hold' = Hold
  BY DEF Hold, HoldPoints, Paid, Charges

\* n points go from the account o to the account p.
LEMMA TransferEscrow ==
    ASSUME IInv, NEW o \in Owners, NEW p \in Owners, o # p, NEW n \in Amounts,
           n <= available(o),
           balance' = [balance EXCEPT ![o] = @ - n, ![p] = @ + n],
           UNCHANGED <<frozen, reservation, ledger>>
    PROVE  E!Next
<1>0. n \in Moved /\ n \in Int
  BY PointAssumption DEF Moved
<1>1. balance \in [Owners -> Nat] /\ \A a \in Owners : balance[a] \in Nat /\ frozen[a] \in Nat
  BY DEF IInv, TypeOK
<1>2. /\ balance'[o] = balance[o] - n /\ balance'[p] = balance[p] + n
      /\ \A a \in Owners \ {o, p} : balance'[a] = balance[a]
  BY <1>1
<1>3. \A a \in Owners : Free[a] = balance[a] - frozen[a] /\ Free'[a] = balance'[a] - frozen[a]
  BY DEF Free, available
<1>4. /\ Free'[o] = Free[o] - n /\ Free'[p] = Free[p] + n
      /\ \A a \in Owners \ {o, p} : Free'[a] = Free[a]
  BY ONLY <1>0, <1>1, <1>2, <1>3, o \in Owners, p \in Owners
<1>5. Free = [a \in Owners |-> Free[a]] /\ Free' = [a \in Owners |-> Free'[a]]
  BY DEF Free
<1>6. Free' = [Free EXCEPT ![o] = @ - n, ![p] = @ + n]
  BY ONLY <1>4, <1>5, o # p, o \in Owners, p \in Owners
<1>7. n <= Free[o]
  BY <1>3 DEF available
<1>8. E!Transfer(o, p, n)
  BY <1>6, <1>7, HoldsKept DEF E!Transfer
<1>9. QED BY <1>0, <1>8 DEF E!Next

LEMMA MoveEscrow ==
    ASSUME LinkFree, NEW w \in Workers, AllocateCommit(w) \/ RecycleCommit(w)
    PROVE  E!Next
<1>0. PICK n \in Amounts, u \in Users : n = txn[w].points /\ u = txn[w].user
  <2>1. txn[w].op \in {"allocate", "recycle"}
    BY DEF AllocateCommit, RecycleCommit
  <2>2. txn[w].points \in Amounts
    BY <2>1 DEF LinkFree, NoLink, Bounded
  <2>3. txn[w].user \in Users
    BY <2>1 DEF LinkFree, IInv, LocksProtect, Protected
  <2>4. QED BY <2>2, <2>3
<1>1. u \in Owners /\ Pool \in Owners /\ u # Pool
  BY PointAssumption
<1>2. UNCHANGED <<frozen, reservation, ledger>>
  BY DEF AllocateCommit, RecycleCommit, rows
<1>3. CASE AllocateCommit(w)
  <2>1. balance' = [balance EXCEPT ![Pool] = @ - n, ![u] = @ + n]
    BY <1>0, <1>3 DEF AllocateCommit
  <2>2. n <= available(Pool)
    BY <1>0, <1>3 DEF AllocateCommit, LinkFree, IInv, LocksProtect, Protected
  <2>3. QED BY <1>1, <1>2, <2>1, <2>2, TransferEscrow DEF LinkFree
<1>4. CASE RecycleCommit(w)
  <2>1. balance' = [balance EXCEPT ![u] = @ - n, ![Pool] = @ + n]
    BY <1>0, <1>4 DEF RecycleCommit
  <2>2. n <= available(u)
    BY <1>0, <1>4 DEF RecycleCommit, LinkFree, IInv, LocksProtect, Protected
  <2>3. QED BY <1>1, <1>2, <2>1, <2>2, TransferEscrow DEF LinkFree
<1>5. QED BY <1>3, <1>4

LEMMA CreditEscrow ==
    ASSUME IInv, NEW u \in Users, NEW n \in Amounts, Credit(u, n)
    PROVE  E!Next
<1>0. n \in Int /\ n \in Moved /\ u \in Owners
  BY PointAssumption DEF Moved
<1>1. balance \in [Owners -> Nat] /\ balance[u] \in Nat /\ frozen[u] \in Nat
  BY DEF IInv, TypeOK
<1>2. /\ balance'[u] = balance[u] + n /\ frozen' = frozen
      /\ \A a \in Owners \ {u} : balance'[a] = balance[a]
      /\ UNCHANGED <<reservation, ledger>>
  BY <1>1 DEF Credit, rows
<1>3. balance'[u] - frozen'[u] = Free[u] + n
  BY ONLY <1>0, <1>1, <1>2, FreeAt
<1>4. Free' = [Free EXCEPT ![u] = Free[u] + n]
  BY <1>0, <1>2, <1>3, FreeUpdated
<1>5. E!Deposit(u, n)
  BY <1>2, <1>4, HoldsKept DEF E!Deposit
<1>6. QED BY <1>0, <1>5 DEF E!Next

-----------------------------------------------------------------------------
(* The refinement *)

LEMMA InitSerial == Init => SerialInv
<1> SUFFICES ASSUME Init PROVE SerialInv
  OBVIOUS
<1>1. \A w \in Workers : txn[w] = Idle
  BY DEF Init
<1>2. NoLink /\ NoOverlap /\ StillPending
  BY <1>1 DEF NoLink, NoOverlap, StillPending, Bounded, Idle, Releasing, UnfreezeTypes
<1>3. StatusIsBooked /\ OutboxMatchesLedger
  BY DEF Init, StatusIsBooked, OutboxMatchesLedger, HasRow, Pending, NoReservation, StatusAfter,
         UnfreezeTypes
<1>4. QED BY <1>2, <1>3, InitInv DEF SerialInv, LinkFree

LEMMA InitEscrow == Init => E!Init
<1> SUFFICES ASSUME Init PROVE E!Init
  OBVIOUS
<1>1. \A o \in Owners : balance[o] \in Nat /\ frozen[o] = 0
  BY PointAssumption DEF Init
<1>2. Free \in [Owners -> Nat]
  BY ONLY <1>1 DEF Free, available
<1>3. \A t \in Tasks : Hold[t] = E!NoHold
  <2> TAKE t \in Tasks
  <2>1. reservation[t].status = "none" /\ reservation[t].owner = Nobody
    BY DEF Init, NoReservation
  <2>2. HoldPoints(t) = 0 /\ HoldState(reservation[t].status) = "none"
    BY <2>1 DEF HoldPoints, HoldState
  <2>3. QED BY <2>1, <2>2, HoldOne DEF E!NoHold
<1>4. Hold = [t \in Tasks |-> E!NoHold]
  BY <1>3 DEF Hold
<1>5. QED BY <1>2, <1>4 DEF E!Init

LEMMA SerialStep ==
    ASSUME Joiners = {}, SerialInv, [SerialNext]_vars
    PROVE  SerialInv' /\ [E!Next]_(E!escrowVars)
<1>1. [Next]_vars
  BY DEF SerialNext
<1>2. LinkFree'
  BY <1>1, NextInv, BooksInv, NoLinkStep DEF SerialInv, LinkFree
<1>3. NoOverlap'
  BY DEF SerialNext, SerialInv, NoOverlap, vars
<1>4. StillPending'
  BY <1>1, StillPendingStep DEF SerialInv, LinkFree
<1>5. [E!Next]_(E!escrowVars)
  BY <1>1, Steps, QuietEscrow, OpenEscrow, SettleEscrow, UnfreezeEscrow, MoveEscrow, CreditEscrow
     DEF SerialInv, LinkFree
<1>6. QED BY <1>2, <1>3, <1>4, <1>5 DEF SerialInv

\* PointService is an escrow: every step of its transactions opens or closes one
\* hold, moves free points, or changes nothing an owner can see.
THEOREM PointsAreAnEscrow ==
    ASSUME Joiners = {}
    PROVE  SerialSpec => Implements
<1>1. Init => SerialInv /\ E!Init
  BY InitSerial, InitEscrow
<1>2. SerialInv /\ [SerialNext]_vars => SerialInv' /\ [E!Next]_(E!escrowVars)
  BY SerialStep
<1>3. QED BY <1>1, <1>2, PTL DEF SerialSpec, Implements, E!Spec

-----------------------------------------------------------------------------
(* Sets of points *)

LEMMA UnitsCount ==
    ASSUME NEW t, NEW n \in Nat
    PROVE  IsFiniteSet(Units(t, n)) /\ Cardinality(Units(t, n)) = n
<1>1. IsFiniteSet({t}) /\ Cardinality({t}) = 1
  BY FS_Singleton
<1>2. IsFiniteSet(1..n) /\ Cardinality(1..n) = n
  BY FS_Interval
<1> DEFINE one == {t}
           some == 1..n
<1> HIDE DEF one, some
<1>3. IsFiniteSet(one \X some) /\ Cardinality(one \X some) = Cardinality(one) * Cardinality(some)
  BY <1>1, <1>2, FS_Product DEF one, some
<1>4. Cardinality(one) * Cardinality(some) = n
  BY <1>1, <1>2 DEF one, some
<1>5. QED BY <1>3, <1>4 DEF Units, one, some

LEMMA UnitsOf == \A t, n, x : x \in Units(t, n) => x[1] = t
  BY DEF Units

LEMMA AddUnits ==
    ASSUME NEW S, IsFiniteSet(S), NEW t, NEW n \in Nat, \A x \in S : x[1] # t
    PROVE  /\ IsFiniteSet(S \cup Units(t, n))
           /\ Cardinality(S \cup Units(t, n)) = Cardinality(S) + n
<1> DEFINE U == Units(t, n)
<1>1. IsFiniteSet(U) /\ Cardinality(U) = n
  BY UnitsCount
<1>2. S \cap U = {}
  BY UnitsOf
<1> HIDE DEF U
<1>3. /\ IsFiniteSet(S \cup U)
      /\ Cardinality(S \cup U) = Cardinality(S) + Cardinality(U) - Cardinality(S \cap U)
  BY <1>1, FS_Union
<1>4. Cardinality(S \cap U) = 0 /\ Cardinality(S) \in Nat
  BY <1>2, FS_EmptySet, FS_CardinalityType
<1>5. QED BY <1>1, <1>3, <1>4 DEF U

LEMMA TakeUnits ==
    ASSUME NEW S, IsFiniteSet(S), NEW t, NEW n \in Nat, Units(t, n) \subseteq S
    PROVE  /\ IsFiniteSet(S \ Units(t, n))
           /\ Cardinality(S \ Units(t, n)) = Cardinality(S) - n
<1> DEFINE U == Units(t, n)
<1>1. Cardinality(U) = n
  BY UnitsCount
<1>2. S \cap U = U
  OBVIOUS
<1> HIDE DEF U
<1>3. IsFiniteSet(S \ U) /\ Cardinality(S \ U) = Cardinality(S) - Cardinality(S \cap U)
  BY FS_Difference
<1>4. QED BY <1>1, <1>2, <1>3 DEF U

-----------------------------------------------------------------------------
(* The balance *)

Settled(o) == Booked(o, "settle")

\* One point of o was charged for some task.
LEMMA SettledIs ==
    \A o, x : x \in Settled(o) <=>
        \E r \in ledger : r.owner = o /\ r.type = "settle" /\ x \in Units(r.task, r.points)
  BY DEF Settled, Booked

StatementInv == BalanceIsStatement /\ \A o \in Owners : IsFiniteSet(Settled(o))

\* Rows of other types are no charge.
LEMMA SettledKept ==
    ASSUME NEW new, ledger' = ledger \cup new, \A r \in new : r.type # "settle"
    PROVE  \A o : Settled(o)' = Settled(o)
  BY DEF Settled, Booked

LEMMA SettledAdded ==
    ASSUME NEW t, NEW o, NEW n, NEW cost,
           ledger' = ledger \cup {Row(t, "settle", o, n), Row(t, "unfreeze_settle", o, cost)}
    PROVE  \A a \in Owners : Settled(a)' = IF a = o THEN Settled(o) \cup Units(t, n) ELSE Settled(a)
<1> TAKE a \in Owners
<1>1. \A r \in ledger' : r.type = "settle" =>
          r \in ledger \/ (r.task = t /\ r.owner = o /\ r.points = n)
  BY DEF Row
<1>2. \E r \in ledger' : r.task = t /\ r.owner = o /\ r.type = "settle" /\ r.points = n
  <2>1. Row(t, "settle", o, n) \in ledger'
    OBVIOUS
  <2>2. QED BY <2>1 DEF Row
<1>3. ledger \subseteq ledger'
  OBVIOUS
<1>4. \A x : x \in Settled(a)' <=> \E r \in ledger' : r.owner = a /\ r.type = "settle" /\ x \in Units(r.task, r.points)
  BY DEF Settled, Booked
<1>5. \A x : x \in Settled(a)' <=> x \in Settled(a) \/ (a = o /\ x \in Units(t, n))
  BY ONLY <1>1, <1>2, <1>3, <1>4, SettledIs
<1>6. QED BY <1>5

LEMMA StatedIsInt == IInv => \A a \in Owners : Stated(a) \in Int
  BY PointAssumption DEF IInv, TypeOK, Stated, Owners

LEMMA SettleStatement ==
    ASSUME LinkFree, StatementInv, NEW w \in Workers, SettleCommit(w)
    PROVE  StatementInv'
<1>0. PICK t \in Tasks, o \in Owners, n \in Nat, cost \in 1..MaxCost :
          /\ t = txn[w].task /\ o = reservation[t].owner /\ n = txn[w].points
          /\ cost = reservation[t].cost
  <2>1. txn[w].op = "settle"
    BY DEF SettleCommit
  <2>2. QED BY <2>1, ClaimHeld DEF LinkFree
<1>1. /\ balance \in [Owners -> Nat] /\ \A a \in Owners : Stated(a) \in Int
      /\ balance' = [balance EXCEPT ![o] = balance[o] - n]
      /\ \A a \in Owners : Stated(a)' = Stated(a)
      /\ ledger' = ledger \cup {Row(t, "settle", o, n), Row(t, "unfreeze_settle", o, cost)}
  BY <1>0, StatedIsInt DEF SettleCommit, SettleRows, Stated, LinkFree, IInv, TypeOK
<1>2. ~ \E q \in ledger : q.task = t /\ q.type = "settle"
  <2>1. Insertable(SettleRows(t, o, n)) /\ Row(t, "settle", o, n) \in SettleRows(t, o, n)
    BY <1>0 DEF SettleCommit, SettleAccepted, SettleRows
  <2>2. QED BY <2>1 DEF Insertable, Row
<1>3. \A x \in Settled(o) : x[1] # t
  BY <1>2, SettledIs, UnitsOf
<1>4. /\ IsFiniteSet(Settled(o) \cup Units(t, n))
      /\ Cardinality(Settled(o) \cup Units(t, n)) = Cardinality(Settled(o)) + n
  BY <1>3, AddUnits DEF StatementInv
<1>5. \A a \in Owners : Settled(a)' = IF a = o THEN Settled(o) \cup Units(t, n) ELSE Settled(a)
  BY <1>1, SettledAdded
<1>6. \A a \in Owners : IsFiniteSet(Settled(a)')
  BY <1>4, <1>5 DEF StatementInv
<1>7. \A a \in Owners : balance'[a] = Stated(a)' - Cardinality(Settled(a)')
  <2> TAKE a \in Owners
  <2>1. balance[a] = Stated(a) - Cardinality(Settled(a)) /\ Cardinality(Settled(a)) \in Nat
    BY FS_CardinalityType DEF StatementInv, BalanceIsStatement, Settled
  <2>2. CASE a = o
    <3>1. Cardinality(Settled(a)') = Cardinality(Settled(a)) + n
      BY <1>4, <1>5, <2>2
    <3>2. balance'[a] = balance[a] - n /\ Stated(a)' = Stated(a) /\ Stated(a) \in Int
      BY <1>1, <2>2
    <3>3. QED BY ONLY <2>1, <3>1, <3>2, n \in Nat
  <2>3. CASE a # o
    BY <1>1, <1>5, <2>1, <2>3
  <2>4. QED BY <2>2, <2>3
<1>8. QED BY <1>6, <1>7 DEF StatementInv, BalanceIsStatement, Settled

\* Points that move without a task move the balance and the other rows alike.
LEMMA MoveStatement ==
    ASSUME LinkFree, StatementInv, NEW w \in Workers, AllocateCommit(w) \/ RecycleCommit(w)
    PROVE  StatementInv'
<1>0. PICK n \in Nat, u \in Users : n = txn[w].points /\ u = txn[w].user
  <2>1. txn[w].op \in {"allocate", "recycle"}
    BY DEF AllocateCommit, RecycleCommit
  <2>2. QED BY <2>1 DEF LinkFree, IInv, TypeOK, Txn, LocksProtect, Protected
<1>1. u # Pool /\ ledger' = ledger
      /\ balance \in [Owners -> Nat] /\ \A a \in Owners : Stated(a) \in Int
      /\ moved \in [Users -> Int] /\ lent \in Int /\ Opening \in [Owners -> Nat]
  BY PointAssumption, StatedIsInt DEF AllocateCommit, RecycleCommit, rows, LinkFree, IInv, TypeOK
<1>2. \A a \in Owners : Settled(a)' = Settled(a)
  BY <1>1 DEF Settled, Booked
<1>3. \A a \in Owners : balance[a] = Stated(a) - Cardinality(Settled(a)) /\ Cardinality(Settled(a)) \in Nat
  BY FS_CardinalityType DEF StatementInv, BalanceIsStatement, Settled
<1>4. \A a \in Owners : balance'[a] - balance[a] = Stated(a)' - Stated(a) /\ balance'[a] \in Int /\ Stated(a)' \in Int
  <2>1. CASE AllocateCommit(w)
    <3>1. /\ balance' = [balance EXCEPT ![Pool] = @ - n, ![u] = @ + n]
          /\ moved' = [moved EXCEPT ![u] = @ + n] /\ lent' = lent + n
      BY <1>0, <2>1 DEF AllocateCommit
    <3>2. QED BY ONLY <1>1, <3>1, n \in Nat, u \in Users DEF Owners, Stated
  <2>2. CASE RecycleCommit(w)
    <3>1. /\ balance' = [balance EXCEPT ![u] = @ - n, ![Pool] = @ + n]
          /\ moved' = [moved EXCEPT ![u] = @ - n] /\ lent' = lent - n
      BY <1>0, <2>2 DEF RecycleCommit
    <3>2. QED BY ONLY <1>1, <3>1, n \in Nat, u \in Users DEF Owners, Stated
  <2>3. QED BY <2>1, <2>2
<1>5. \A a \in Owners : balance'[a] = Stated(a)' - Cardinality(Settled(a)')
  <2> TAKE a \in Owners
  <2>1. Settled(a)' = Settled(a)
    BY <1>2
  <2>2. balance[a] \in Int /\ Stated(a) \in Int
    BY ONLY <1>1, a \in Owners
  <2>3. balance'[a] = Stated(a)' - Cardinality(Settled(a))
    BY ONLY <1>3, <1>4, <2>2, a \in Owners
  <2>4. QED BY <2>1, <2>3
<1>6. QED BY <1>2, <1>5 DEF StatementInv, BalanceIsStatement, Settled

LEMMA CreditStatement ==
    ASSUME LinkFree, StatementInv, NEW u \in Users, NEW n \in Amounts, Credit(u, n)
    PROVE  StatementInv'
<1>1. \A a \in Owners : Settled(a)' = Settled(a)
  BY DEF Credit, rows, Settled, Booked
<1>2. \A a \in Owners : balance[a] = Stated(a) - Cardinality(Settled(a)) /\ Cardinality(Settled(a)) \in Nat
  BY FS_CardinalityType DEF StatementInv, BalanceIsStatement, Settled
<1>3. /\ balance \in [Owners -> Nat] /\ n \in Int
      /\ \A a \in Owners : Stated(a) \in Int
      /\ balance' = [balance EXCEPT ![u] = balance[u] + n]
      /\ \A a \in Owners : Stated(a)' = IF a = u THEN Stated(u) + n ELSE Stated(a)
  <2>1. balance \in [Owners -> Nat] /\ n \in Int /\ u # Pool
        /\ moved \in [Users -> Int] /\ Opening \in [Owners -> Nat]
    BY PointAssumption DEF LinkFree, IInv, TypeOK
  <2>2. balance' = [balance EXCEPT ![u] = balance[u] + n]
    BY DEF Credit
  <2>3. moved' = [moved EXCEPT ![u] = moved[u] + n] /\ lent' = lent
    BY DEF Credit
  <2>4. \A a \in Owners : Stated(a)' = IF a = u THEN Stated(u) + n ELSE Stated(a)
    BY ONLY <2>1, <2>3, u \in Users DEF Stated, Owners
  <2>5. \A a \in Owners : Stated(a) \in Int
    BY StatedIsInt DEF LinkFree
  <2>6. QED BY <2>1, <2>2, <2>4, <2>5
<1>4. \A a \in Owners : balance'[a] = Stated(a)' - Cardinality(Settled(a))
  BY ONLY <1>2, <1>3
<1>5. QED BY <1>1, <1>4 DEF StatementInv, BalanceIsStatement, Settled

LEMMA StatementStep ==
    ASSUME Joiners = {}, LinkFree, StatementInv, [Next]_vars
    PROVE  StatementInv'
<1>1. CASE Quiet
  BY <1>1 DEF Quiet, StatementInv, BalanceIsStatement, Stated, Settled, Booked
<1>2. ASSUME UNCHANGED <<balance, moved, lent>>, NEW new, ledger' = ledger \cup new,
             \A r \in new : r.type # "settle"
      PROVE  StatementInv'
  <2>1. \A o : Settled(o)' = Settled(o)
    BY <1>2, SettledKept
  <2>2. QED BY <1>2, <2>1 DEF StatementInv, BalanceIsStatement, Stated, Settled
<1>3. ASSUME NEW o \in Owners, NEW t \in Tasks, NEW c \in 1..MaxCost, NEW k \in Keys \cup {NoKey},
             Opens(o, t, c, k)
      PROVE  StatementInv'
  <2> DEFINE new == {Row(t, "freeze", o, c)}
  <2>1. ledger' = ledger \cup new /\ UNCHANGED <<balance, moved, lent>>
    BY <1>3 DEF Opens, Reserve
  <2>2. \A r \in new : r.type # "settle"
    BY DEF Row
  <2> HIDE DEF new
  <2>3. QED BY <1>2, <2>1, <2>2
<1>4. ASSUME NEW w \in Workers, UnfreezeCommit(w) PROVE StatementInv'
  <2> DEFINE t == txn[w].task
             new == {Row(t, txn[w].op, reservation[t].owner, reservation[t].cost)}
  <2>1. ledger' = ledger \cup new /\ UNCHANGED <<balance, moved, lent>>
    BY <1>4 DEF UnfreezeCommit
  <2>2. \A r \in new : r.type # "settle"
    BY <1>4 DEF UnfreezeCommit, UnfreezeTypes, Row
  <2> HIDE DEF new
  <2>3. QED BY <1>2, <2>1, <2>2
<1>5. QED BY <1>1, <1>3, <1>4, Steps, SettleStatement, MoveStatement, CreditStatement
          DEF LinkFree

-----------------------------------------------------------------------------
(* The frozen points *)

\* One point of o is frozen for some task.
LEMMA HeldIs ==
    \A o, x : x \in Held(o) <=>
        \E t \in Tasks : Pending(t) /\ reservation[t].owner = o /\ x \in Units(t, reservation[t].cost)
  BY DEF Held

LEMMA HeldIsNext ==
    \A o, x : x \in Held(o)' <=>
        \E t \in Tasks : /\ reservation'[t].status = "pending" /\ reservation'[t].owner = o'
                         /\ x \in Units(t, reservation'[t].cost)
  BY DEF Held, Pending

HeldFinite == \A o \in Owners : IsFiniteSet(Held(o))

\* What is frozen beyond the pending reservations of o.
Gap(o) == frozen[o] - Cardinality(Held(o))

LEMMA HeldAdded ==
    ASSUME reservation \in [Tasks -> Reservation], NEW t \in Tasks, NEW o, NEW c, NEW k,
           reservation[t].status = "none",
           reservation' = [reservation EXCEPT ![t] = [status |-> "pending", owner |-> o, cost |-> c, key |-> k]]
    PROVE  /\ \A a \in Owners : Held(a)' = IF a = o THEN Held(a) \cup Units(t, c) ELSE Held(a)
           /\ \A a : \A x \in Held(a) : x[1] # t
<1>1. /\ reservation'[t].status = "pending" /\ reservation'[t].owner = o /\ reservation'[t].cost = c
      /\ \A x \in Tasks \ {t} : reservation'[x] = reservation[x]
  OBVIOUS
<1>2. ~ Pending(t)
  BY DEF Pending
<1>3. ASSUME NEW a \in Owners, NEW x
      PROVE  x \in Held(a)' <=> x \in Held(a) \/ (a = o /\ x \in Units(t, c))
  BY ONLY <1>1, <1>2, HeldIs, HeldIsNext, t \in Tasks DEF Pending
<1>4. \A a : \A x \in Held(a) : x[1] # t
  BY ONLY <1>2, HeldIs, UnitsOf
<1>5. \A a \in Owners : Held(a)' = IF a = o THEN Held(a) \cup Units(t, c) ELSE Held(a)
  BY ONLY <1>3
<1>6. QED BY <1>4, <1>5

\* Reservation t, of c points of o, takes the status s.
Ended(t, s, o, c) ==
    /\ o = reservation[t].owner /\ c = reservation[t].cost
    /\ \A x \in Tasks : /\ reservation'[x].owner = reservation[x].owner
                        /\ reservation'[x].cost = reservation[x].cost
                        /\ reservation'[x].status = IF x = t THEN s ELSE reservation[x].status

LEMMA HeldEnded ==
    ASSUME NEW t \in Tasks, NEW s \in Statuses \ {"pending"}, NEW o, NEW c, Ended(t, s, o, c)
    PROVE  /\ \A a \in Owners : Held(a)' = IF a = o /\ Pending(t) THEN Held(a) \ Units(t, c) ELSE Held(a)
           /\ Pending(t) => Units(t, c) \subseteq Held(o)
<1>1. /\ \A x \in Tasks : /\ reservation'[x].owner = reservation[x].owner
                           /\ reservation'[x].cost = reservation[x].cost
                           /\ reservation'[x].status = IF x = t THEN s ELSE reservation[x].status
      /\ o = reservation[t].owner /\ c = reservation[t].cost
  BY DEF Ended
<1>2. Pending(t) => Units(t, c) \subseteq Held(o)
  BY <1>1, HeldIs
<1>3. ASSUME NEW a \in Owners, NEW x PROVE x \in Held(a)' => x \in Held(a) /\ x[1] # t
  BY ONLY <1>1, HeldIs, HeldIsNext, UnitsOf, s # "pending" DEF Pending
<1>4. ASSUME NEW a \in Owners, NEW x, x \in Held(a), x \notin Held(a)'
      PROVE  a = o /\ Pending(t) /\ x \in Units(t, c)
  <2>1. PICK r \in Tasks : Pending(r) /\ reservation[r].owner = a /\ x \in Units(r, reservation[r].cost)
    BY <1>4, HeldIs
  <2>2. r = t
    BY ONLY <1>1, <1>4, <2>1, HeldIsNext DEF Pending
  <2>3. QED BY <1>1, <2>1, <2>2
<1>5. \A a \in Owners : Held(a)' = IF a = o /\ Pending(t) THEN Held(a) \ Units(t, c) ELSE Held(a)
  <2> TAKE a \in Owners
  <2>1. \A x : x \in Held(a)' => x \in Held(a) /\ x \notin Units(t, c)
    BY <1>3, UnitsOf
  <2>2. \A x \in Held(a) : x \notin Held(a)' => a = o /\ Pending(t) /\ x \in Units(t, c)
    BY <1>4
  <2>3. QED BY ONLY <2>1, <2>2
<1>6. QED BY <1>2, <1>5

\* When one reservation ends, its points leave both sums if it was pending, and
\* the account alone if it was not.
LEMMA EndGap ==
    ASSUME LinkFree, HeldFinite, NEW w \in Workers, SettleCommit(w) \/ UnfreezeCommit(w)
    PROVE  HeldFinite' /\ \A a \in Owners : Gap(a)' <= Gap(a) /\ (StillPending => Gap(a)' = Gap(a))
<1>0. PICK t \in Tasks, o \in Owners, c \in 1..MaxCost, s \in Statuses \ {"pending"} :
          /\ t = txn[w].task /\ o = reservation[t].owner /\ c = reservation[t].cost
          /\ StillPending => Pending(t)
          /\ frozen' = [frozen EXCEPT ![o] = frozen[o] - c]
          /\ reservation' = [reservation EXCEPT ![t].status = s]
  <2>1. txn[w].op \in UnfreezeTypes \cup {"settle"}
    BY DEF SettleCommit, UnfreezeCommit
  <2>2. StillPending => Pending(txn[w].task)
    BY <2>1 DEF StillPending, Releasing
  <2>3. "settled" \in Statuses \ {"pending"} /\ (txn[w].op \in UnfreezeTypes => StatusAfter(txn[w].op) \in Statuses \ {"pending"})
    BY DEF Statuses, StatusAfter, UnfreezeTypes
  <2>4. PICK s \in Statuses \ {"pending"} : reservation' = [reservation EXCEPT ![txn[w].task].status = s]
    BY <2>3 DEF SettleCommit, UnfreezeCommit
  <2>5. frozen' = [frozen EXCEPT ![reservation[txn[w].task].owner] = @ - reservation[txn[w].task].cost]
    BY DEF SettleCommit, UnfreezeCommit
  <2>6. QED BY <2>1, <2>2, <2>4, <2>5, ClaimHeld DEF LinkFree
<1>1. frozen \in [Owners -> Nat] /\ reservation \in [Tasks -> Reservation] /\ c \in Nat \ {0}
  BY PointAssumption DEF LinkFree, IInv, TypeOK
<1>2. /\ \A a \in Owners : Held(a)' = IF a = o /\ Pending(t) THEN Held(a) \ Units(t, c) ELSE Held(a)
      /\ Pending(t) => Units(t, c) \subseteq Held(o)
  <2>1. o = reservation[t].owner /\ c = reservation[t].cost /\ reservation' = [reservation EXCEPT ![t].status = s]
    BY ONLY <1>0
  <2>2. reservation \in [Tasks -> Reservation]
    BY ONLY <1>1
  <2>3. Ended(t, s, o, c)
    BY <2>1, <2>2, StatusWritten DEF Ended
  <2>4. QED BY ONLY <2>3, HeldEnded, t \in Tasks, s \in Statuses \ {"pending"}
<1>3. \A a \in Owners : IsFiniteSet(Held(a)) /\ Cardinality(Held(a)) \in Nat
  BY FS_CardinalityType DEF HeldFinite
<1>4. Pending(t) => /\ IsFiniteSet(Held(o) \ Units(t, c))
                    /\ Cardinality(Held(o) \ Units(t, c)) = Cardinality(Held(o)) - c
  BY <1>1, <1>2, <1>3, TakeUnits
<1>5. HeldFinite'
  BY <1>2, <1>3, <1>4 DEF HeldFinite
<1>6. \A a \in Owners : Gap(a)' <= Gap(a) /\ (StillPending => Gap(a)' = Gap(a))
  <2> TAKE a \in Owners
  <2>0. /\ Gap(a) = frozen[a] - Cardinality(Held(a)) /\ Gap(a)' = frozen'[a] - Cardinality(Held(a)')
        /\ frozen[a] \in Nat /\ Cardinality(Held(a)) \in Nat
    BY <1>1, <1>3 DEF Gap
  <2>1. CASE a # o
    <3>1. frozen'[a] = frozen[a]
      BY <1>0, <1>1, <2>1
    <3>2. Held(a)' = Held(a)
      BY <1>2, <2>1
    <3>3. QED BY ONLY <2>0, <3>1, <3>2
  <2>2. CASE a = o
    <3>1. frozen'[a] = frozen[a] - c
      BY <1>0, <1>1, <2>2
    <3>2. CASE Pending(t)
      <4>1. Cardinality(Held(a)') = Cardinality(Held(a)) - c
        BY <1>2, <1>4, <2>2, <3>2
      <4>2. QED BY ONLY <1>1, <2>0, <3>1, <4>1
    <3>3. CASE ~ Pending(t)
      <4>1. Cardinality(Held(a)') = Cardinality(Held(a)) /\ ~ StillPending
        BY <1>0, <1>2, <3>3
      <4>2. QED BY ONLY <1>1, <2>0, <3>1, <4>1
    <3>4. QED BY <3>2, <3>3
  <2>3. QED BY <2>1, <2>2
<1>7. QED BY <1>5, <1>6

LEMMA OpenGap ==
    ASSUME LinkFree, HeldFinite, NEW o \in Owners, NEW t \in Tasks, NEW c \in 1..MaxCost, NEW k,
           Opens(o, t, c, k)
    PROVE  HeldFinite' /\ \A a \in Owners : Gap(a)' = Gap(a)
<1>1. /\ frozen \in [Owners -> Nat] /\ reservation \in [Tasks -> Reservation] /\ c \in Nat
      /\ frozen' = [frozen EXCEPT ![o] = frozen[o] + c]
      /\ reservation[t].status = "none"
      /\ reservation' = [reservation EXCEPT ![t] = [status |-> "pending", owner |-> o, cost |-> c, key |-> k]]
  BY PointAssumption DEF Opens, Reserve, LinkFree, IInv, TypeOK
<1>2. /\ \A a \in Owners : Held(a)' = IF a = o THEN Held(a) \cup Units(t, c) ELSE Held(a)
      /\ \A a : \A x \in Held(a) : x[1] # t
  BY <1>1, HeldAdded
<1>3. \A a \in Owners : IsFiniteSet(Held(a)) /\ Cardinality(Held(a)) \in Nat
  BY FS_CardinalityType DEF HeldFinite
<1>4. /\ IsFiniteSet(Held(o) \cup Units(t, c))
      /\ Cardinality(Held(o) \cup Units(t, c)) = Cardinality(Held(o)) + c
  BY <1>1, <1>2, <1>3, AddUnits
<1>5. HeldFinite'
  BY <1>2, <1>3, <1>4 DEF HeldFinite
<1>6. \A a \in Owners : Gap(a)' = Gap(a)
  <2> TAKE a \in Owners
  <2>0. /\ Gap(a) = frozen[a] - Cardinality(Held(a)) /\ Gap(a)' = frozen'[a] - Cardinality(Held(a)')
        /\ frozen[a] \in Nat /\ Cardinality(Held(a)) \in Nat
    BY <1>1, <1>3 DEF Gap
  <2>1. CASE a # o
    <3>1. frozen'[a] = frozen[a] /\ Held(a)' = Held(a)
      BY <1>1, <1>2, <2>1
    <3>2. QED BY ONLY <2>0, <3>1
  <2>2. CASE a = o
    <3>1. frozen'[a] = frozen[a] + c /\ Cardinality(Held(a)') = Cardinality(Held(a)) + c
      BY <1>1, <1>2, <1>4, <2>2
    <3>2. QED BY ONLY <1>1, <2>0, <3>1
  <2>3. QED BY <2>1, <2>2
<1>7. QED BY <1>5, <1>6

LEMMA GapStep ==
    ASSUME Joiners = {}, LinkFree, HeldFinite, [Next]_vars
    PROVE  HeldFinite' /\ \A a \in Owners : Gap(a)' <= Gap(a) /\ (StillPending => Gap(a)' = Gap(a))
<1>1. \A a \in Owners : Gap(a) \in Int
  BY FS_CardinalityType DEF Gap, HeldFinite, LinkFree, IInv, TypeOK
<1>2. ASSUME UNCHANGED <<frozen, reservation>>
      PROVE  HeldFinite' /\ \A a \in Owners : Gap(a)' = Gap(a)
  BY <1>2 DEF HeldFinite, Gap, Held, Pending
<1>3. CASE Quiet
  BY <1>1, <1>2, <1>3 DEF Quiet
<1>4. ASSUME NEW w \in Workers, AllocateCommit(w) \/ RecycleCommit(w)
      PROVE  UNCHANGED <<frozen, reservation>>
  BY <1>4 DEF AllocateCommit, RecycleCommit, rows
<1>5. ASSUME NEW u \in Users, NEW n \in Amounts, Credit(u, n)
      PROVE  UNCHANGED <<frozen, reservation>>
  BY <1>5 DEF Credit, rows
<1>6. QED BY <1>1, <1>2, <1>3, <1>4, <1>5, Steps, EndGap, OpenGap DEF LinkFree

-----------------------------------------------------------------------------
(* Theorems *)

LedgerInv == LinkFree /\ StatementInv /\ HeldFinite /\ NoOrphanedFreeze

LEMMA InitLedger == Init => LedgerInv /\ FrozenBacksPending
<1> SUFFICES ASSUME Init PROVE LedgerInv /\ FrozenBacksPending
  OBVIOUS
<1>1. \A o : Settled(o) = {} /\ Held(o) = {}
  BY DEF Init, Settled, Booked, Held, Pending, NoReservation
<1>2. Cardinality({}) = 0 /\ IsFiniteSet({})
  BY FS_EmptySet
<1>3. \A o \in Owners : frozen[o] = 0 /\ balance[o] = Stated(o) /\ balance[o] \in Nat
  BY PointAssumption DEF Init, Stated, Owners
<1>a. \A o : /\ IsFiniteSet(Settled(o)) /\ Cardinality(Settled(o)) = 0
             /\ IsFiniteSet(Held(o)) /\ Cardinality(Held(o)) = 0
  BY ONLY <1>1, <1>2
<1>4. StatementInv /\ HeldFinite /\ NoOrphanedFreeze /\ FrozenBacksPending
  <2>1. BalanceIsStatement
    <3> SUFFICES ASSUME NEW o \in Owners PROVE balance[o] = Stated(o) - Cardinality(Settled(o))
      BY DEF BalanceIsStatement, Settled
    <3>1. QED BY ONLY <1>a, <1>3, o \in Owners
  <2>2. NoOrphanedFreeze /\ FrozenBacksPending
    BY <1>a, <1>3 DEF NoOrphanedFreeze, FrozenBacksPending
  <2>3. QED BY <1>a, <2>1, <2>2 DEF StatementInv, HeldFinite
<1>5. LinkFree
  BY InitSerial DEF SerialInv
<1>6. QED BY <1>4, <1>5 DEF LedgerInv

LEMMA LedgerStep ==
    ASSUME Joiners = {}, LedgerInv, [Next]_vars
    PROVE  LedgerInv'
<1>1. LinkFree'
  BY NextInv, BooksInv, NoLinkStep DEF LedgerInv, LinkFree
<1>2. StatementInv'
  BY StatementStep DEF LedgerInv
<1>3. HeldFinite' /\ \A a \in Owners : Gap(a)' <= Gap(a)
  BY GapStep DEF LedgerInv
<1>4. \A a \in Owners : /\ frozen[a] \in Nat /\ frozen'[a] \in Nat
                        /\ Cardinality(Held(a)) \in Nat /\ Cardinality(Held(a))' \in Nat
  <2>1. \A a \in Owners : frozen[a] \in Nat /\ frozen'[a] \in Nat
    BY <1>1 DEF LedgerInv, LinkFree, IInv, TypeOK
  <2>2. \A S : IsFiniteSet(S) => Cardinality(S) \in Nat
    BY FS_CardinalityType
  <2>3. QED BY <1>3, <2>1, <2>2 DEF LedgerInv, HeldFinite
<1>5. NoOrphanedFreeze'
  BY <1>3, <1>4 DEF LedgerInv, NoOrphanedFreeze, Gap
<1>6. QED BY <1>1, <1>2, <1>3, <1>5 DEF LedgerInv

\* The balance of every account is what its ledger rows add up to, whatever
\* transactions interleave, unless linkEnterprise writes a row back.
THEOREM BalancesAddUp ==
    ASSUME Joiners = {}
    PROVE  Spec => []BalanceIsStatement
<1>1. LedgerInv /\ [Next]_vars => LedgerInv'
  BY LedgerStep
<1>2. LedgerInv => BalanceIsStatement
  BY DEF LedgerInv, StatementInv
<1>3. Init => LedgerInv
  BY InitLedger
<1>4. QED BY <1>1, <1>2, <1>3, PTL DEF Spec

\* No point stays frozen for a task that is over, even when two transactions end
\* the same task.
THEOREM NothingLeftFrozen ==
    ASSUME Joiners = {}
    PROVE  Spec => []NoOrphanedFreeze
<1>1. LedgerInv /\ [Next]_vars => LedgerInv'
  BY LedgerStep
<1>2. LedgerInv => NoOrphanedFreeze
  BY DEF LedgerInv
<1>3. Init => LedgerInv
  BY InitLedger
<1>4. QED BY <1>1, <1>2, <1>3, PTL DEF Spec

\* The frozen points are exactly those of the pending tasks when the calls that
\* end one task do not overlap.
THEOREM FrozenExactly ==
    ASSUME Joiners = {}
    PROVE  SerialSpec => []FrozenBacksPending
<1> DEFINE FInv == LedgerInv /\ SerialInv /\ FrozenBacksPending
<1>1. Init => FInv
  BY InitLedger, InitSerial
<1>2. ASSUME FInv, [SerialNext]_vars PROVE FInv'
  <2>1. [Next]_vars
    BY <1>2 DEF SerialNext
  <2>2. LedgerInv'
    BY <1>2, <2>1, LedgerStep
  <2>3. SerialInv'
    BY <1>2, SerialStep
  <2>4. \A a \in Owners : Gap(a)' = Gap(a)
    BY <1>2, <2>1, GapStep DEF LedgerInv, SerialInv
  <2>5. \A S : IsFiniteSet(S) => Cardinality(S) \in Nat
    BY FS_CardinalityType
  <2>6. \A a \in Owners : /\ frozen[a] \in Nat /\ frozen'[a] \in Nat
                          /\ Cardinality(Held(a)) \in Nat /\ Cardinality(Held(a))' \in Nat
    BY <1>2, <2>2, <2>5 DEF LedgerInv, LinkFree, IInv, TypeOK, HeldFinite
  <2>7. FrozenBacksPending'
    BY <1>2, <2>4, <2>6 DEF FrozenBacksPending, Gap
  <2>8. QED BY <2>2, <2>3, <2>7
<1>3. FInv => FrozenBacksPending
  OBVIOUS
<1> HIDE DEF FInv
<1>4. QED BY <1>1, <1>2, <1>3, PTL DEF SerialSpec

-----------------------------------------------------------------------------
(* One release for each task *)

\* Two rows that release one task are the same row.
OneRelease == \A t \in Tasks : \A a, b \in ReleaseTypes : HasRow(t, a) /\ HasRow(t, b) => a = b

LEMMA OneReleaseStep ==
    ASSUME EndInv, OneRelease, [Next]_vars
    PROVE  OneRelease'
<1>1. CASE UNCHANGED rows \/ UNCHANGED ledger
  BY <1>1 DEF rows, OneRelease, HasRow
<1>2. ASSUME NEW o, NEW t, NEW c, NEW k, Reserve(o, t, c, k) PROVE OneRelease'
  <2> DEFINE new == {Row(t, "freeze", o, c)}
  <2>1. ledger' = ledger \cup new
    BY <1>2 DEF Reserve
  <2>2. \A r \in new : r.type \notin ReleaseTypes
    BY DEF Row, ReleaseTypes, UnfreezeTypes
  <2> HIDE DEF new
  <2>3. \A s, type : HasRow(s, type)' <=> HasRow(s, type) \/ \E r \in new : r.task = s /\ r.type = type
    BY ONLY <2>1, RowsAdded
  <2>4. QED BY ONLY <2>2, <2>3, OneRelease DEF OneRelease
<1>3. ASSUME NEW t \in Tasks, NEW type \in ReleaseTypes, Pending(t),
             \A s, a : a \in ReleaseTypes => (HasRow(s, a)' <=> HasRow(s, a) \/ (s = t /\ a = type))
      PROVE  OneRelease'
  <2>1. \A a \in ReleaseTypes : ~ HasRow(t, a)
    BY <1>3 DEF EndInv, StatusIsBooked
  <2>2. QED BY ONLY <1>3, <2>1, OneRelease DEF OneRelease
<1>4. ASSUME NEW w \in Workers, SettleCommit(w) PROVE OneRelease'
  <2>1. PICK t \in Tasks : t = txn[w].task /\ Pending(t)
    BY <1>4, ClaimHeld DEF SettleCommit, EndInv, StillPending, Releasing
  <2>2. PICK o, n : ledger' = ledger \cup SettleRows(t, o, n)
    BY <1>4, <2>1 DEF SettleCommit
  <2> DEFINE new == SettleRows(t, o, n)
  <2>a. ledger' = ledger \cup new
    BY <2>2
  <2>b. \A s, a : (\E r \in new : r.task = s /\ r.type = a) <=> s = t /\ a \in {"settle", "unfreeze_settle"}
    BY ONLY TRUE DEF SettleRows, Row
  <2> HIDE DEF new
  <2>3. \A s, a : HasRow(s, a)' <=> HasRow(s, a) \/ (s = t /\ a \in {"settle", "unfreeze_settle"})
    <3>1. \A s, a : HasRow(s, a)' <=> HasRow(s, a) \/ \E r \in new : r.task = s /\ r.type = a
      BY ONLY <2>a, RowsAdded
    <3>2. QED BY ONLY <3>1, <2>b
  <2>4. "unfreeze_settle" \in ReleaseTypes /\ "settle" \notin ReleaseTypes
    BY DEF ReleaseTypes, UnfreezeTypes
  <2>5. QED BY <1>3, <2>1, <2>3, <2>4
<1>5. ASSUME NEW w \in Workers, UnfreezeCommit(w) PROVE OneRelease'
  <2>1. PICK t \in Tasks, type \in ReleaseTypes : t = txn[w].task /\ type = txn[w].op /\ Pending(t)
    BY <1>5, ClaimHeld DEF UnfreezeCommit, EndInv, StillPending, Releasing, ReleaseTypes
  <2>2. PICK o, n : ledger' = ledger \cup {Row(t, type, o, n)}
    BY <1>5, <2>1 DEF UnfreezeCommit
  <2> DEFINE new == {Row(t, type, o, n)}
  <2>a. ledger' = ledger \cup new
    BY <2>2
  <2>b. \A s, a : (\E r \in new : r.task = s /\ r.type = a) <=> s = t /\ a = type
    BY ONLY TRUE DEF Row
  <2> HIDE DEF new
  <2>3. \A s, a : HasRow(s, a)' <=> HasRow(s, a) \/ (s = t /\ a = type)
    <3>1. \A s, a : HasRow(s, a)' <=> HasRow(s, a) \/ \E r \in new : r.task = s /\ r.type = a
      BY ONLY <2>a, RowsAdded
    <3>2. QED BY ONLY <3>1, <2>b
  <2>4. QED BY <1>3, <2>1, <2>3
<1>6. QED BY <1>1, <1>2, <1>4, <1>5, OtherSteps DEF FreezeOwn, FreezePool

\* PRD 5.3 holds of the calls that do not overlap: a task is settled or released,
\* only one of them, once.
THEOREM ReleasedOnceSerially == SerialSpec => []ReleasedOnce
<1>1. Init => EndInv /\ OneRelease
  BY InitEnds DEF Init, OneRelease, HasRow
<1>2. EndInv /\ OneRelease /\ [SerialNext]_vars => EndInv' /\ OneRelease'
  BY EndStep, OneReleaseStep DEF SerialNext
<1>3. OneRelease => ReleasedOnce
  <2> SUFFICES ASSUME OneRelease, NEW t \in Tasks
               PROVE  Cardinality({type \in ReleaseTypes : HasRow(t, type)}) <= 1
    BY DEF ReleasedOnce
  <2> DEFINE S == {type \in ReleaseTypes : HasRow(t, type)}
  <2>1. \A a, b \in S : a = b
    BY DEF OneRelease
  <2> HIDE DEF S
  <2>2. CASE S = {}
    BY <2>2, FS_EmptySet DEF S
  <2>3. CASE S # {}
    <3>1. PICK a : S = {a}
      BY <2>1, <2>3
    <3>2. Cardinality(S) = 1
      BY <3>1, FS_Singleton
    <3>3. QED BY <3>2 DEF S
  <2>4. QED BY <2>2, <2>3
<1>4. QED BY <1>1, <1>2, <1>3, PTL DEF SerialSpec
=============================================================================
