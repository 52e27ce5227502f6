------------------------- MODULE PointService_proofs -------------------------
(***************************************************************************)
(* Theorems about PointService for every number of users, tasks and        *)
(* workers.  TypeOK /\ AvailableNeverNegative /\ LocksProtect is inductive: *)
(* a commit subtracts what its transaction checked when it began, so the   *)
(* bounds of the accounts need what the open transactions hold.            *)
(***************************************************************************)
EXTENDS PointService, TLAPS

IInv == TypeOK /\ AvailableNeverNegative /\ LocksProtect

\* The set definitions every step needs.
USE DEF Owners, Workers

LEMMA InitInv == Init => IInv
BY PointAssumption
   DEF Init, IInv, TypeOK, AvailableNeverNegative, LocksProtect, Protected, DistinctClaims,
       Charged, NoReservation, Idle, Reservation, Txn, Statuses, Ops, UnfreezeTypes

\* Another transaction keeps what it holds through any step that leaves the rows
\* it has locked and the reservation it waits to insert alone.
LEMMA OthersProtected ==
    ASSUME IInv, NEW v \in Workers,
           txn'[v] = txn[v],
           \A o \in Owners : lock[o] = v => lock'[o] = v /\ available(o)' = available(o),
           \A t \in Tasks : reservation[t].status # "none" => reservation'[t].status # "none",
           txn[v].op = "freeze" => reservation'[txn[v].task].status = "none"
    PROVE  Protected(v)'
BY PointAssumption DEF IInv, TypeOK, LocksProtect, Protected

\* What COMMIT and ROLLBACK do to the transactions and their row locks.
LEMMA CloseTyped ==
    ASSUME TypeOK, NEW w \in Workers, Close(w)
    PROVE  txn' \in [Workers -> Txn] /\ lock' \in [Owners -> Workers \cup {Nobody}]
<1>1. Idle \in Txn
  BY PointAssumption DEF Idle, Txn, Ops
<1>2. txn \in [Workers -> Txn] /\ lock \in [Owners -> Workers \cup {Nobody}]
  BY DEF TypeOK
<1> QED BY ONLY <1>1, <1>2, Close(w) DEF Close

LEMMA CloseKeeps ==
    ASSUME TypeOK, NEW w \in Workers, NEW v \in Workers, v # w, Close(w)
    PROVE  txn'[v] = txn[v] /\ \A o \in Owners : lock[o] = v => lock'[o] = v
<1>1. txn \in [Workers -> Txn] /\ lock \in [Owners -> Workers \cup {Nobody}]
  BY DEF TypeOK
<1> QED BY ONLY <1>1, v # w, Close(w) DEF Close

LEMMA CloseProtected ==
    ASSUME TypeOK, NEW w \in Workers, Close(w)
    PROVE  Protected(w)'
<1>1. txn'[w] = Idle
  BY DEF TypeOK, Close
<1> QED BY <1>1 DEF Protected, Idle, UnfreezeTypes

\* An UPDATE of the status of one reservation.
LEMMA StatusWritten ==
    ASSUME reservation \in [Tasks -> Reservation], NEW t \in Tasks, NEW s \in Statuses,
           reservation' = [reservation EXCEPT ![t].status = s]
    PROVE  /\ reservation' \in [Tasks -> Reservation]
           /\ \A x \in Tasks : /\ reservation'[x].owner = reservation[x].owner
                               /\ reservation'[x].cost = reservation[x].cost
                               /\ reservation'[x].status
                                     = IF x = t THEN s ELSE reservation[x].status
<1>1. reservation' = [x \in Tasks |-> IF x = t THEN [reservation[t] EXCEPT !.status = s]
                                               ELSE reservation[x]]
  OBVIOUS
<1>2. \A x \in Tasks : reservation[x] \in Reservation
  OBVIOUS
<1>3. /\ [reservation[t] EXCEPT !.status = s] \in Reservation
      /\ [reservation[t] EXCEPT !.status = s].status = s
      /\ [reservation[t] EXCEPT !.status = s].owner = reservation[t].owner
      /\ [reservation[t] EXCEPT !.status = s].cost = reservation[t].cost
  BY ONLY <1>2, s \in Statuses, t \in Tasks DEF Reservation
<1>4. reservation' \in [Tasks -> Reservation]
  BY ONLY <1>1, <1>2, <1>3
<1>5. \A x \in Tasks : /\ reservation'[x].owner = reservation[x].owner
                        /\ reservation'[x].cost = reservation[x].cost
                        /\ reservation'[x].status = IF x = t THEN s ELSE reservation[x].status
  BY ONLY <1>1, <1>3
<1> QED BY <1>4, <1>5

\* What a transaction under way holds.
LEMMA ClaimHeld ==
    ASSUME IInv, NEW w \in Workers, txn[w].op \in UnfreezeTypes \cup {"settle"}
    PROVE  LET t == txn[w].task
           IN  /\ t \in Tasks /\ reservation[t].status # "none"
               /\ reservation[t].owner \in Owners /\ reservation[t].cost \in 1..MaxCost
               /\ txn[w].points \in Nat
<1>1. txn[w].points \in Nat
  BY DEF IInv, TypeOK, Txn
<1> QED BY <1>1 DEF IInv, LocksProtect, Protected, Charged

\* Ending one reservation disturbs no other transaction: the account it writes is
\* locked by nobody.
LEMMA EndingKeepsOthers ==
    ASSUME IInv, NEW w \in Workers, NEW v \in Workers, v # w, Close(w),
           NEW t \in Tasks, NEW s \in Statuses \ {"none"}, NEW o \in Owners,
           lock[o] = Nobody, reservation[t].status # "none",
           reservation' = [reservation EXCEPT ![t].status = s],
           \A a \in Owners : a # o => balance'[a] = balance[a] /\ frozen'[a] = frozen[a]
    PROVE  Protected(v)'
<1>1. txn'[v] = txn[v] /\ \A a \in Owners : lock[a] = v => lock'[a] = v
  BY ONLY CloseKeeps, IInv, v # w, Close(w), v \in Workers, w \in Workers DEF IInv
<1>2. \A a \in Owners : lock[a] = v => lock'[a] = v /\ available(a)' = available(a)
  <2>1. v # Nobody
    BY PointAssumption
  <2> QED BY <1>1, <2>1 DEF available
<1>3. \A x \in Tasks : reservation'[x].status = IF x = t THEN s ELSE reservation[x].status
  <2>1. reservation \in [Tasks -> Reservation]
    BY DEF IInv, TypeOK
  <2> QED BY <2>1, StatusWritten
<1>4. \A x \in Tasks : reservation[x].status # "none" => reservation'[x].status # "none"
  BY ONLY <1>3, s \in Statuses \ {"none"}
<1>5. txn[v].op = "freeze" => txn[v].task \in Tasks /\ reservation[txn[v].task].status = "none"
  BY DEF IInv, LocksProtect, Protected
<1>6. txn[v].op = "freeze" => reservation'[txn[v].task].status = "none"
  BY ONLY <1>3, <1>5, reservation[t].status # "none"
<1> QED BY ONLY <1>1, <1>2, <1>4, <1>6, IInv, v \in Workers, OthersProtected

LEMMA EndingKeepsClaims ==
    ASSUME IInv, NEW w \in Workers, Close(w), NEW t \in Tasks, NEW s \in Statuses \ {"none"},
           reservation[t].status # "none",
           reservation' = [reservation EXCEPT ![t].status = s]
    PROVE  DistinctClaims' /\ Charged'
<1>1. \A x \in Tasks : /\ reservation'[x].owner = reservation[x].owner
                        /\ reservation'[x].cost = reservation[x].cost
                        /\ reservation'[x].status = IF x = t THEN s ELSE reservation[x].status
  <2>1. reservation \in [Tasks -> Reservation]
    BY DEF IInv, TypeOK
  <2> QED BY <2>1, StatusWritten
<1>2. Charged'
  BY <1>1 DEF IInv, LocksProtect, Charged
<1>3. DistinctClaims'
  <2>1. \A v \in Workers : txn'[v] = IF v = w THEN Idle ELSE txn[v]
    BY DEF IInv, TypeOK, Close
  <2>2. Idle.op # "freeze"
    BY DEF Idle
  <2> QED BY <2>1, <2>2 DEF IInv, LocksProtect, DistinctClaims
<1> QED BY <1>2, <1>3

\* A transaction that is rolled back changes no row.
LEMMA RollbackInv ==
    ASSUME IInv, NEW w \in Workers, Rollback(w)
    PROVE  IInv'
<1> USE PointAssumption DEF IInv, Rollback, Close, accounts, rows
<1>1. TypeOK'
  BY DEF TypeOK, Idle, Txn, Ops
<1>2. AvailableNeverNegative'
  BY DEF AvailableNeverNegative
<1>3. LocksProtect'
  <2>1. \A v \in Workers : Protected(v)'
    BY DEF TypeOK, LocksProtect, Protected, available, Idle, UnfreezeTypes
  <2>2. DistinctClaims' /\ Charged'
    BY DEF TypeOK, LocksProtect, DistinctClaims, Charged, Idle
  <2> QED BY <2>1, <2>2 DEF LocksProtect
<1> QED BY <1>1, <1>2, <1>3

\* A transaction that begins changes no row: what remains to show of it is that
\* it holds what LocksProtect says of its operation.
LEMMA BeginInv ==
    ASSUME IInv, NEW w \in Workers, NEW t \in Txn, NEW held \in Owners \cup {Nobody},
           Begin(w, t, held),
           Protected(w)',
           t.op = "freeze" => \A v \in Workers : txn[v].op = "freeze" => txn[v].task # t.task
    PROVE  IInv'
<1> USE PointAssumption DEF IInv, Begin, accounts, rows
<1>1. TypeOK'
  BY DEF TypeOK
<1>2. AvailableNeverNegative'
  BY DEF AvailableNeverNegative
<1>3. \A v \in Workers : Protected(v)'
  <2> SUFFICES ASSUME NEW v \in Workers, v # w PROVE Protected(v)'
    OBVIOUS
  <2>1. Protected(v) /\ txn'[v] = txn[v]
    BY DEF LocksProtect, TypeOK
  <2>2. \A o \in Owners : lock[o] = v => lock'[o] = v
    BY DEF TypeOK
  <2>3. \A o \in Owners : available(o)' = available(o)
    BY DEF available
  <2> QED BY <2>1, <2>2, <2>3 DEF Protected
<1>4. DistinctClaims' /\ Charged'
  BY DEF TypeOK, LocksProtect, DistinctClaims, Charged
<1> QED BY <1>1, <1>2, <1>3, <1>4 DEF LocksProtect

LEMMA FreezeOwnInv ==
    ASSUME IInv, NEW u \in Users, NEW t \in Tasks, NEW c \in Costs, NEW k \in Keys,
           FreezeOwn(u, t, c, k)
    PROVE  IInv'
<1> USE PointAssumption DEF IInv, FreezeOwn, Reserve
<1>1. TypeOK'
  BY DEF TypeOK, Row, Reservation, Statuses, LedgerTypes, ReleaseTypes, UnfreezeTypes, EventTypes
<1>2. AvailableNeverNegative'
  BY DEF TypeOK, AvailableNeverNegative, available
<1>3. \A v \in Workers : Protected(v)'
  <2> TAKE v \in Workers
  <2>1. \A o \in Owners : lock[o] = v => lock'[o] = v /\ available(o)' = available(o)
    BY DEF TypeOK, available
  <2>2. txn[v].op = "freeze" => txn[v].task # t /\ txn[v].task \in Tasks /\ reservation[txn[v].task].status = "none"
    BY DEF Fresh, LocksProtect, Protected
  <2> QED BY <2>1, <2>2, OthersProtected DEF TypeOK
<1>4. DistinctClaims' /\ Charged'
  BY DEF TypeOK, LocksProtect, DistinctClaims, Charged
<1> QED BY <1>1, <1>2, <1>3, <1>4 DEF LocksProtect

LEMMA FreezePoolInv ==
    ASSUME IInv, NEW w \in Workers, FreezePool(w)
    PROVE  IInv'
<1> USE PointAssumption DEF IInv, FreezePool, Reserve, Close
<1> DEFINE t == txn[w].task
<1>0. t \in Tasks /\ txn[w].points \in 1..MaxCost /\ txn[w].key \in Keys \cup {NoKey}
  BY DEF TypeOK, Txn, LocksProtect, Protected
<1>1. TypeOK'
  BY <1>0 DEF TypeOK, Row, Reservation, Statuses, LedgerTypes, ReleaseTypes, UnfreezeTypes,
              EventTypes, Idle, Txn, Ops
<1>2. AvailableNeverNegative'
  BY <1>0 DEF TypeOK, AvailableNeverNegative, available
<1>3. \A v \in Workers : Protected(v)'
  <2>1. Protected(w)'
    BY DEF TypeOK, Protected, Idle, UnfreezeTypes
  <2>2. ASSUME NEW v \in Workers, v # w PROVE Protected(v)'
    <3>1. \A o \in Owners : lock[o] = v => lock'[o] = v /\ available(o)' = available(o)
      BY <2>2 DEF TypeOK, available
    <3>2. txn[v].op = "freeze" => txn[v].task # t /\ txn[v].task \in Tasks /\ reservation[txn[v].task].status = "none"
      BY <2>2 DEF LocksProtect, DistinctClaims, Protected
    <3> QED BY <2>2, <3>1, <3>2, OthersProtected DEF TypeOK
  <2> QED BY <2>1, <2>2
<1>4. DistinctClaims' /\ Charged'
  BY <1>0 DEF TypeOK, LocksProtect, DistinctClaims, Charged, Idle
<1> QED BY <1>1, <1>2, <1>3, <1>4 DEF LocksProtect

\* Settlement writes the row of an account nobody has locked, and the status of
\* one reservation that exists.
LEMMA SettleCommitInv ==
    ASSUME IInv, NEW w \in Workers, SettleCommit(w)
    PROVE  IInv'
<1> DEFINE t == txn[w].task
           o == reservation[t].owner
           n == txn[w].points
           new == SettleRows(t, o, n)
<1>0. /\ t \in Tasks /\ reservation[t].status # "none"
      /\ o \in Owners /\ reservation[t].cost \in 1..MaxCost /\ n \in Nat
  BY ClaimHeld DEF SettleCommit
<1>1. /\ balance \in [Owners -> Nat] /\ frozen \in [Owners -> Nat]
      /\ reservation \in [Tasks -> Reservation]
      /\ ledger \subseteq [task : Tasks, type : LedgerTypes, owner : Owners, points : Nat \ {0}]
      /\ \A a \in Owners : frozen[a] <= balance[a]
  BY DEF IInv, TypeOK, AvailableNeverNegative
<1>2. /\ balance' = [balance EXCEPT ![o] = balance[o] - n]
      /\ frozen' = [frozen EXCEPT ![o] = frozen[o] - reservation[t].cost]
      /\ reservation' = [reservation EXCEPT ![t].status = "settled"]
      /\ ledger' = ledger \cup new
      /\ lock[o] = Nobody /\ Close(w)
      /\ UNCHANGED <<member, outbox, due, moved, lent, credits>>
  BY DEF SettleCommit
<1>3. /\ 0 <= frozen[o] - reservation[t].cost
      /\ frozen[o] - reservation[t].cost <= balance[o] - n
      /\ \A r \in new : r.points > 0
  BY DEF SettleCommit, SettleAccepted, RowOK, Insertable
<1>4. \A r \in new : r \in [task : Tasks, type : LedgerTypes, owner : Owners, points : Nat]
  BY <1>0 DEF SettleRows, Row, LedgerTypes, ReleaseTypes
<1>5. "settled" \in Statuses \ {"none"}
  BY DEF Statuses
<1> HIDE DEF t, o, n, new
<1>6. balance' \in [Owners -> Nat] /\ frozen' \in [Owners -> Nat]
  BY ONLY <1>0, <1>1, <1>2, <1>3
<1>7. \A a \in Owners : frozen'[a] <= balance'[a]
  BY ONLY <1>0, <1>1, <1>2, <1>3
<1>8. reservation' \in [Tasks -> Reservation]
  BY ONLY <1>0, <1>1, <1>2, <1>5, StatusWritten
<1>9. ledger' \subseteq [task : Tasks, type : LedgerTypes, owner : Owners, points : Nat \ {0}]
  <2>1. \A r \in new : r \in [task : Tasks, type : LedgerTypes, owner : Owners, points : Nat \ {0}]
    BY ONLY <1>3, <1>4
  <2> QED BY ONLY <1>1, <1>2, <2>1
<1>10. TypeOK'
  <2>1. txn' \in [Workers -> Txn] /\ lock' \in [Owners -> Workers \cup {Nobody}]
    BY <1>2, CloseTyped DEF IInv
  <2> QED BY <1>2, <1>6, <1>8, <1>9, <2>1 DEF IInv, TypeOK
<1>11. \A v \in Workers : Protected(v)'
  <2>1. Protected(w)'
    BY <1>2, CloseProtected DEF IInv
  <2>2. \A a \in Owners : a # o => balance'[a] = balance[a] /\ frozen'[a] = frozen[a]
    BY ONLY <1>1, <1>2
  <2>3. \A v \in Workers : v # w => Protected(v)'
    BY ONLY <1>0, <1>2, <1>5, <2>2, IInv, w \in Workers, EndingKeepsOthers
  <2> QED BY <2>1, <2>3
<1>12. DistinctClaims' /\ Charged'
  BY ONLY <1>0, <1>2, <1>5, IInv, w \in Workers, EndingKeepsClaims
<1> QED BY <1>7, <1>10, <1>11, <1>12 DEF IInv, AvailableNeverNegative, LocksProtect

LEMMA UnfreezeCommitInv ==
    ASSUME IInv, NEW w \in Workers, UnfreezeCommit(w)
    PROVE  IInv'
<1> DEFINE t == txn[w].task
           o == reservation[t].owner
           how == txn[w].op
           row == Row(t, how, o, reservation[t].cost)
<1>0. /\ t \in Tasks /\ reservation[t].status # "none" /\ how \in UnfreezeTypes
      /\ o \in Owners /\ reservation[t].cost \in 1..MaxCost
  BY ClaimHeld DEF UnfreezeCommit
<1>1. /\ balance \in [Owners -> Nat] /\ frozen \in [Owners -> Nat]
      /\ reservation \in [Tasks -> Reservation]
      /\ ledger \subseteq [task : Tasks, type : LedgerTypes, owner : Owners, points : Nat \ {0}]
      /\ outbox \subseteq [type : EventTypes, task : Tasks]
      /\ \A a \in Owners : frozen[a] <= balance[a]
  BY DEF IInv, TypeOK, AvailableNeverNegative
<1>2. /\ frozen' = [frozen EXCEPT ![o] = frozen[o] - reservation[t].cost]
      /\ reservation' = [reservation EXCEPT ![t].status = StatusAfter(how)]
      /\ ledger' = ledger \cup {row}
      /\ outbox' = outbox \cup EventsAfter(how, t)
      /\ lock[o] = Nobody /\ Close(w)
      /\ UNCHANGED <<balance, member, due, moved, lent, credits>>
  BY DEF UnfreezeCommit
<1>3. frozen[o] >= reservation[t].cost
  BY DEF UnfreezeCommit, UnfreezeAccepted
<1>4. row \in [task : Tasks, type : LedgerTypes, owner : Owners, points : Nat \ {0}]
  BY <1>0, PointAssumption DEF Row, LedgerTypes, ReleaseTypes
<1>5. StatusAfter(how) \in Statuses \ {"none"}
  BY <1>0 DEF StatusAfter, UnfreezeTypes, Statuses
<1>6. EventsAfter(how, t) \subseteq [type : EventTypes, task : Tasks]
  BY <1>0 DEF EventsAfter, EventTypes, UnfreezeTypes
<1> HIDE DEF t, o, how, row
<1>7. frozen' \in [Owners -> Nat] /\ \A a \in Owners : frozen'[a] <= balance'[a]
  BY ONLY <1>0, <1>1, <1>2, <1>3, PointAssumption DEF PointAssumption
<1>8. reservation' \in [Tasks -> Reservation]
  BY ONLY <1>0, <1>1, <1>2, <1>5, StatusWritten
<1>9. TypeOK'
  <2>1. txn' \in [Workers -> Txn] /\ lock' \in [Owners -> Workers \cup {Nobody}]
    BY <1>2, CloseTyped DEF IInv
  <2>2. /\ ledger' \subseteq [task : Tasks, type : LedgerTypes, owner : Owners, points : Nat \ {0}]
        /\ outbox' \subseteq [type : EventTypes, task : Tasks]
    BY ONLY <1>1, <1>2, <1>4, <1>6
  <2> QED BY <1>2, <1>7, <1>8, <2>1, <2>2 DEF IInv, TypeOK
<1>10. \A v \in Workers : Protected(v)'
  <2>1. Protected(w)'
    BY <1>2, CloseProtected DEF IInv
  <2>2. \A a \in Owners : a # o => balance'[a] = balance[a] /\ frozen'[a] = frozen[a]
    BY ONLY <1>1, <1>2
  <2>3. \A v \in Workers : v # w => Protected(v)'
    BY ONLY <1>0, <1>2, <1>5, <2>2, IInv, w \in Workers, EndingKeepsOthers
  <2> QED BY <2>1, <2>3
<1>11. DistinctClaims' /\ Charged'
  BY ONLY <1>0, <1>2, <1>5, IInv, w \in Workers, EndingKeepsClaims
<1> QED BY <1>7, <1>9, <1>10, <1>11 DEF IInv, AvailableNeverNegative, LocksProtect

LEMMA DeadlinePassesInv ==
    ASSUME IInv, NEW t \in Tasks, DeadlinePasses(t)
    PROVE  IInv'
<1> USE DEF IInv, DeadlinePasses, accounts, rows
<1>1. TypeOK' /\ AvailableNeverNegative'
  BY DEF TypeOK, AvailableNeverNegative
<1>2. LocksProtect'
  BY DEF LocksProtect, Protected, DistinctClaims, Charged, available
<1> QED BY <1>1, <1>2

LEMMA CreditInv ==
    ASSUME IInv, NEW u \in Users, NEW n \in Amounts, Credit(u, n)
    PROVE  IInv'
<1> USE PointAssumption DEF IInv, Credit, rows
<1>1. TypeOK' /\ AvailableNeverNegative'
  BY DEF TypeOK, AvailableNeverNegative
<1>2. \A v \in Workers : Protected(v)'
  <2> TAKE v \in Workers
  <2>1. \A o \in Owners : lock[o] = v => lock'[o] = v /\ available(o)' = available(o)
    BY DEF TypeOK, available
  <2>2. txn[v].op = "freeze" => reservation[txn[v].task].status = "none"
    BY DEF LocksProtect, Protected
  <2> QED BY <2>1, <2>2, OthersProtected
<1>3. DistinctClaims' /\ Charged'
  BY DEF LocksProtect, DistinctClaims, Charged
<1> QED BY <1>1, <1>2, <1>3 DEF LocksProtect

\* The pool still has the points the transaction found when it locked the row.
LEMMA AllocateCommitInv ==
    ASSUME IInv, NEW w \in Workers, AllocateCommit(w)
    PROVE  IInv'
<1> USE PointAssumption DEF IInv, AllocateCommit, Close, rows
<1>0. /\ txn[w].user \in Users /\ txn[w].points \in Nat
      /\ lock[Pool] = w /\ txn[w].points <= available(Pool)
  BY DEF TypeOK, Txn, LocksProtect, Protected
<1>1. TypeOK'
  <2>1. balance' \in [Owners -> Nat]
    BY <1>0 DEF TypeOK, available
  <2>2. moved' \in [Users -> Int] /\ lent' \in Int /\ member' \in [Users -> BOOLEAN]
    BY <1>0 DEF TypeOK
  <2>3. txn' \in [Workers -> Txn] /\ lock' \in [Owners -> Workers \cup {Nobody}]
    BY DEF TypeOK, Idle, Txn, Ops
  <2> QED BY <2>1, <2>2, <2>3 DEF TypeOK
<1>2. AvailableNeverNegative'
  BY <1>0 DEF TypeOK, AvailableNeverNegative, available
<1>3. \A v \in Workers : Protected(v)'
  <2>1. Protected(w)'
    BY DEF TypeOK, Protected, Idle, UnfreezeTypes
  <2>2. ASSUME NEW v \in Workers, v # w PROVE Protected(v)'
    <3>1. \A o \in Owners : lock[o] = v => lock'[o] = v /\ available(o)' = available(o)
      BY <1>0, <2>2 DEF TypeOK, available
    <3>2. txn[v].op = "freeze" => reservation[txn[v].task].status = "none"
      BY DEF LocksProtect, Protected
    <3> QED BY <2>2, <3>1, <3>2, OthersProtected DEF TypeOK
  <2> QED BY <2>1, <2>2
<1>4. DistinctClaims' /\ Charged'
  BY DEF TypeOK, LocksProtect, DistinctClaims, Charged, Idle
<1> QED BY <1>1, <1>2, <1>3, <1>4 DEF LocksProtect

\* And so does the member whose points are taken back.
LEMMA RecycleCommitInv ==
    ASSUME IInv, NEW w \in Workers, RecycleCommit(w)
    PROVE  IInv'
<1> USE PointAssumption DEF IInv, RecycleCommit, Close, rows
<1>0. /\ txn[w].user \in Users /\ txn[w].points \in Nat
      /\ lock[txn[w].user] = w /\ txn[w].points <= available(txn[w].user)
  BY DEF TypeOK, Txn, LocksProtect, Protected
<1>1. TypeOK'
  <2>1. balance' \in [Owners -> Nat]
    BY <1>0 DEF TypeOK, available
  <2>2. moved' \in [Users -> Int] /\ lent' \in Int
    BY <1>0 DEF TypeOK
  <2>3. txn' \in [Workers -> Txn] /\ lock' \in [Owners -> Workers \cup {Nobody}]
    BY DEF TypeOK, Idle, Txn, Ops
  <2> QED BY <2>1, <2>2, <2>3 DEF TypeOK
<1>2. AvailableNeverNegative'
  BY <1>0 DEF TypeOK, AvailableNeverNegative, available
<1>3. \A v \in Workers : Protected(v)'
  <2>1. Protected(w)'
    BY DEF TypeOK, Protected, Idle, UnfreezeTypes
  <2>2. ASSUME NEW v \in Workers, v # w PROVE Protected(v)'
    <3>1. \A o \in Owners : lock[o] = v => lock'[o] = v /\ available(o)' = available(o)
      BY <1>0, <2>2 DEF TypeOK, available
    <3>2. txn[v].op = "freeze" => reservation[txn[v].task].status = "none"
      BY DEF LocksProtect, Protected
    <3> QED BY <2>2, <3>1, <3>2, OthersProtected DEF TypeOK
  <2> QED BY <2>1, <2>2
<1>4. DistinctClaims' /\ Charged'
  BY DEF TypeOK, LocksProtect, DistinctClaims, Charged, Idle
<1> QED BY <1>1, <1>2, <1>3, <1>4 DEF LocksProtect

\* linkEnterprise writes back a row it read whole, so even a stale one is sound.
LEMMA LinkCommitInv ==
    ASSUME IInv, NEW w \in Workers, LinkCommit(w)
    PROVE  IInv'
<1> USE PointAssumption DEF IInv, LinkCommit, Close, rows
<1>0. /\ txn[w].user \in Users /\ txn[w].balance \in Nat /\ txn[w].frozen \in Nat
      /\ txn[w].frozen <= txn[w].balance
  BY DEF TypeOK, Txn, LocksProtect, Protected
<1>1. TypeOK'
  BY <1>0 DEF TypeOK, Idle, Txn, Ops
<1>2. AvailableNeverNegative'
  BY <1>0 DEF TypeOK, AvailableNeverNegative
<1>3. \A v \in Workers : Protected(v)'
  <2>1. Protected(w)'
    BY DEF TypeOK, Protected, Idle, UnfreezeTypes
  <2>2. ASSUME NEW v \in Workers, v # w PROVE Protected(v)'
    <3>1. \A o \in Owners : lock[o] = v => lock'[o] = v /\ available(o)' = available(o)
      BY <1>0, <2>2 DEF TypeOK, available
    <3>2. txn[v].op = "freeze" => reservation[txn[v].task].status = "none"
      BY DEF LocksProtect, Protected
    <3> QED BY <2>2, <3>1, <3>2, OthersProtected DEF TypeOK
  <2> QED BY <2>1, <2>2
<1>4. DistinctClaims' /\ Charged'
  BY DEF TypeOK, LocksProtect, DistinctClaims, Charged, Idle
<1> QED BY <1>1, <1>2, <1>3, <1>4 DEF LocksProtect

\* The transactions that open: each holds what Protected says of it.
LEMMA RequestInv ==
    ASSUME IInv, NEW w \in Workers, Request(w)
    PROVE  IInv'
<1> USE PointAssumption DEF IInv
<1>1. ASSUME NEW t \in Tasks, NEW s \in Surcharges, SettleBegin(w, t, reservation[t].cost + s)
      PROVE  IInv'
  <2> DEFINE x == [Idle EXCEPT !.op = "settle", !.task = t, !.points = reservation[t].cost + s]
  <2>1. reservation[t].cost + s \in Nat
    BY <1>1 DEF SettleBegin, TypeOK, Reservation
  <2>2. x \in Txn
    BY <2>1 DEF Txn, Idle, Ops
  <2>3. Protected(w)'
    BY <1>1 DEF SettleBegin, Begin, TypeOK, Protected, Pending, Idle, rows, UnfreezeTypes
  <2> QED BY <1>1, <2>2, <2>3, BeginInv DEF SettleBegin, Idle
<1>2. ASSUME NEW t \in Tasks, NEW type \in UnfreezeTypes, UnfreezeBegin(w, t, type)
      PROVE  IInv'
  <2> DEFINE x == [Idle EXCEPT !.op = type, !.task = t]
  <2>1. x \in Txn
    BY DEF Txn, Idle, Ops
  <2>2. Protected(w)'
    BY <1>2 DEF UnfreezeBegin, Begin, TypeOK, Protected, Pending, Idle, rows, UnfreezeTypes
  <2> QED BY <1>2, <2>1, <2>2, BeginInv DEF UnfreezeBegin, Idle, UnfreezeTypes
<1>3. ASSUME NEW u \in Users, NEW t \in Tasks, NEW c \in Costs, NEW k \in Keys,
             FreezeBegin(w, u, t, c, k)
      PROVE  IInv'
  <2> DEFINE x == [Idle EXCEPT !.op = "freeze", !.user = u, !.task = t, !.points = c, !.key = k]
  <2>0. c \in 1..MaxCost /\ c \in Nat
    OBVIOUS
  <2>1. x \in Txn
    BY <2>0 DEF Txn, Idle, Ops
  <2>2. Protected(w)'
    BY <1>3, <2>0 DEF FreezeBegin, Fresh, Begin, TypeOK, Protected, Idle, rows, accounts, available,
                UnfreezeTypes
  <2>3. \A v \in Workers : txn[v].op = "freeze" => txn[v].task # x.task
    BY <1>3 DEF FreezeBegin, Fresh, Idle
  <2> QED BY <1>3, <2>1, <2>2, <2>3, BeginInv DEF FreezeBegin
<1>4. ASSUME NEW u \in Users, NEW n \in Amounts, AllocateBegin(w, u, n)
      PROVE  IInv'
  <2> DEFINE x == [Idle EXCEPT !.op = "allocate", !.user = u, !.points = n]
  <2>1. x \in Txn
    BY DEF Txn, Idle, Ops
  <2>2. Protected(w)'
    BY <1>4 DEF AllocateBegin, Begin, TypeOK, Protected, Idle, rows, accounts, available,
                UnfreezeTypes
  <2> QED BY <1>4, <2>1, <2>2, BeginInv DEF AllocateBegin, Idle
<1>5. ASSUME NEW u \in Users, NEW n \in Amounts, RecycleBegin(w, u, n)
      PROVE  IInv'
  <2> DEFINE x == [Idle EXCEPT !.op = "recycle", !.user = u, !.points = n]
  <2>1. x \in Txn
    BY DEF Txn, Idle, Ops
  <2>2. Protected(w)'
    BY <1>5 DEF RecycleBegin, Begin, TypeOK, Protected, Idle, rows, accounts, available,
                UnfreezeTypes
  <2> QED BY <1>5, <2>1, <2>2, BeginInv DEF RecycleBegin, Idle
<1>6. ASSUME NEW u \in Users, LinkBegin(w, u)
      PROVE  IInv'
  <2> DEFINE x == [Idle EXCEPT !.op = "link", !.user = u,
                               !.balance = balance[u], !.frozen = frozen[u]]
  <2>1. x \in Txn
    BY DEF Txn, Idle, Ops, TypeOK
  <2>2. Protected(w)'
    BY <1>6 DEF LinkBegin, Begin, TypeOK, AvailableNeverNegative, Protected, Idle, UnfreezeTypes
  <2> QED BY <1>6, <2>1, <2>2, BeginInv DEF LinkBegin, Idle
<1> QED BY <1>1, <1>2, <1>3, <1>4, <1>5, <1>6 DEF Request

LEMMA NextInv == IInv /\ [Next]_vars => IInv'
<1> SUFFICES ASSUME IInv, [Next]_vars PROVE IInv'
  OBVIOUS
<1>1. ASSUME NEW w \in Workers, Step(w) PROVE IInv'
  BY <1>1, FreezePoolInv, SettleCommitInv, UnfreezeCommitInv, AllocateCommitInv,
     RecycleCommitInv, LinkCommitInv, RollbackInv
     DEF Step, FreezeRefused, SettleRefused, UnfreezeRefused, DeadlockVictim
<1>2. CASE UNCHANGED vars
  BY <1>2 DEF IInv, vars, accounts, rows, TypeOK, AvailableNeverNegative, LocksProtect,
              Protected, DistinctClaims, Charged, available
<1> QED BY <1>1, <1>2, FreezeOwnInv, CreditInv, DeadlinePassesInv, RequestInv DEF Next

\* Every row keeps its type: in particular no account balance and no frozen
\* amount is ever below zero, although they are computed by subtraction.
THEOREM TypeCorrect == Spec => []TypeOK
<1>1. Spec => []IInv
  BY InitInv, NextInv, PTL DEF Spec
<1> QED BY <1>1, PTL DEF IInv

\* frozen_points <= balance for every account, whatever transactions interleave.
THEOREM NeverOverdrawn == Spec => []AvailableNeverNegative
<1>1. Spec => []IInv
  BY InitInv, NextInv, PTL DEF Spec
<1> QED BY <1>1, PTL DEF IInv

\* What a transaction checked under its row locks holds until it commits.
THEOREM LocksAreEnough == Spec => []LocksProtect
<1>1. Spec => []IInv
  BY InitInv, NextInv, PTL DEF Spec
<1> QED BY <1>1, PTL DEF IInv

-----------------------------------------------------------------------------
(* The ledger, the status of a reservation and the outbox agree. *)

\* Every step but the four that freeze, settle and release leaves them alone.
LEMMA OtherSteps ==
    ASSUME [Next]_vars,
           ~ \E u \in Users, t \in Tasks, c \in Costs, k \in Keys : FreezeOwn(u, t, c, k),
           ~ \E w \in Workers : FreezePool(w) \/ SettleCommit(w) \/ UnfreezeCommit(w)
    PROVE  UNCHANGED rows
<1>1. CASE UNCHANGED vars
  BY <1>1 DEF vars
<1>2. ASSUME NEW u \in Users, NEW n \in Amounts, Credit(u, n) PROVE UNCHANGED rows
  BY <1>2 DEF Credit
<1>3. ASSUME NEW t \in Tasks, DeadlinePasses(t) PROVE UNCHANGED rows
  BY <1>3 DEF DeadlinePasses
<1>4. ASSUME NEW w \in Workers, Request(w) PROVE UNCHANGED rows
  BY <1>4 DEF Request, SettleBegin, UnfreezeBegin, FreezeBegin, AllocateBegin, RecycleBegin,
              LinkBegin, Begin
<1>5. ASSUME NEW w \in Workers, Step(w) PROVE UNCHANGED rows
  BY <1>5 DEF Step, FreezeRefused, SettleRefused, UnfreezeRefused, AllocateCommit,
              RecycleCommit, LinkCommit, DeadlockVictim, Rollback
<1> QED BY <1>1, <1>2, <1>3, <1>4, <1>5 DEF Next

\* The rows a step appends are the only ones HasRow finds in addition.
LEMMA RowsAdded ==
    ASSUME NEW new, ledger' = ledger \cup new
    PROVE  \A s, type : HasRow(s, type)'
                <=> HasRow(s, type) \/ \E r \in new : r.task = s /\ r.type = type
BY DEF HasRow

LEMMA ReserveBooks ==
    ASSUME IInv, StatusIsBooked, OutboxMatchesLedger,
           NEW o \in Owners, NEW t \in Tasks, NEW c \in 1..MaxCost, NEW k,
           reservation[t].status = "none", Reserve(o, t, c, k)
    PROVE  StatusIsBooked' /\ OutboxMatchesLedger'
<1> USE DEF IInv, TypeOK, Reserve
<1>0. \A s, type : HasRow(s, type)' <=> HasRow(s, type) \/ (s = t /\ type = "freeze")
  <2> DEFINE new == {Row(t, "freeze", o, c)}
  <2>1. ledger' = ledger \cup new
    OBVIOUS
  <2> HIDE DEF new
  <2>2. \A s, type : HasRow(s, type)' <=> HasRow(s, type)
            \/ \E r \in new : r.task = s /\ r.type = type
    BY ONLY <2>1, RowsAdded
  <2> QED BY ONLY <2>2 DEF Row, new
<1>1. StatusIsBooked'
  <2>1. \A type : ~ HasRow(t, type)
    BY DEF StatusIsBooked, HasRow
  <2>2. \A s \in Tasks : s # t => ((\E r \in ledger' : r.task = s) <=> (\E r \in ledger : r.task = s))
    BY DEF Row
  <2> QED BY <1>0, <2>1, <2>2 DEF StatusIsBooked, Pending, StatusAfter, UnfreezeTypes, ReleaseTypes
<1>2. OutboxMatchesLedger'
  <2>1. \A e : e \in outbox' <=> e \in outbox \/ e = [type |-> "created", task |-> t]
    OBVIOUS
  <2> QED BY <1>0, <2>1 DEF OutboxMatchesLedger
<1> QED BY <1>1, <1>2

LEMMA SettleBooks ==
    ASSUME IInv, StatusIsBooked, OutboxMatchesLedger, NEW w \in Workers, SettleCommit(w)
    PROVE  StatusIsBooked' /\ OutboxMatchesLedger'
<1> DEFINE t == txn[w].task
<1> USE DEF IInv, TypeOK, SettleCommit
<1>0. t \in Tasks /\ reservation[t].status # "none"
  BY DEF LocksProtect, Protected
<1>1. \A s, type : HasRow(s, type)'
          <=> HasRow(s, type) \/ (s = t /\ type \in {"settle", "unfreeze_settle"})
  <2> DEFINE new == SettleRows(t, reservation[t].owner, txn[w].points)
  <2>1. ledger' = ledger \cup new
    OBVIOUS
  <2>2. \A s, type : HasRow(s, type)' <=> HasRow(s, type)
            \/ \E r \in new : r.task = s /\ r.type = type
    BY ONLY <2>1, RowsAdded
  <2> QED BY ONLY <2>2 DEF SettleRows, Row
<1>2. StatusIsBooked'
  <2> DEFINE new == SettleRows(t, reservation[t].owner, txn[w].points)
  <2>1. \A s \in Tasks : s # t => ((\E r \in ledger' : r.task = s) <=> (\E r \in ledger : r.task = s))
    <3>1. ledger' = ledger \cup new
      OBVIOUS
    <3>2. \A r \in new : r.task = t
      BY ONLY DEF SettleRows, Row, new
    <3> HIDE DEF new, t
    <3> QED BY ONLY <3>1, <3>2
  <2>2. \A s \in Tasks : reservation'[s].status = IF s = t THEN "settled" ELSE reservation[s].status
    <3>1. reservation' = [reservation EXCEPT ![t].status = "settled"] /\ "settled" \in Statuses
      BY DEF Statuses
    <3>2. reservation \in [Tasks -> Reservation]
      OBVIOUS
    <3> QED BY ONLY <1>0, <3>1, <3>2, StatusWritten
  <2> HIDE DEF t, IInv, TypeOK, SettleCommit, UnfreezeCommit
  <2> QED BY ONLY <1>0, <1>1, <2>1, <2>2, StatusIsBooked
          DEF StatusIsBooked, Pending, StatusAfter, UnfreezeTypes, ReleaseTypes
<1>3. OutboxMatchesLedger'
  BY <1>1 DEF OutboxMatchesLedger
<1> QED BY <1>2, <1>3

LEMMA UnfreezeBooks ==
    ASSUME IInv, StatusIsBooked, OutboxMatchesLedger, NEW w \in Workers, UnfreezeCommit(w)
    PROVE  StatusIsBooked' /\ OutboxMatchesLedger'
<1> DEFINE t == txn[w].task
           how == txn[w].op
<1> USE DEF IInv, TypeOK, UnfreezeCommit
<1>0. t \in Tasks /\ reservation[t].status # "none" /\ how \in UnfreezeTypes
  BY DEF LocksProtect, Protected
<1>1. \A s, type : HasRow(s, type)' <=> HasRow(s, type) \/ (s = t /\ type = how)
  <2> DEFINE new == {Row(t, how, reservation[t].owner, reservation[t].cost)}
  <2>1. ledger' = ledger \cup new
    OBVIOUS
  <2> HIDE DEF new
  <2>2. \A s, type : HasRow(s, type)' <=> HasRow(s, type)
            \/ \E r \in new : r.task = s /\ r.type = type
    BY ONLY <2>1, RowsAdded
  <2> QED BY ONLY <2>2 DEF Row, new
<1>2. StatusIsBooked'
  <2> DEFINE row == Row(t, how, reservation[t].owner, reservation[t].cost)
  <2>1. \A s \in Tasks : s # t => ((\E r \in ledger' : r.task = s) <=> (\E r \in ledger : r.task = s))
    <3>1. ledger' = ledger \cup {row} /\ row.task = t
      BY DEF Row
    <3> HIDE DEF row, t
    <3> QED BY ONLY <3>1
  <2>2. \A s \in Tasks : reservation'[s].status = IF s = t THEN StatusAfter(how) ELSE reservation[s].status
    <3>1. StatusAfter(how) \in Statuses
      BY <1>0 DEF StatusAfter, UnfreezeTypes, Statuses
    <3>2. /\ reservation \in [Tasks -> Reservation]
          /\ reservation' = [reservation EXCEPT ![t].status = StatusAfter(how)]
      OBVIOUS
    <3> QED BY ONLY <1>0, <3>1, <3>2, StatusWritten
  <2> HIDE DEF t, IInv, TypeOK, SettleCommit, UnfreezeCommit
  <2> QED BY ONLY <1>0, <1>1, <2>1, <2>2, StatusIsBooked
          DEF StatusIsBooked, Pending, StatusAfter, UnfreezeTypes, ReleaseTypes
<1>3. OutboxMatchesLedger'
  <2>1. \A type \in EventTypes, s \in Tasks :
            [type |-> type, task |-> s] \in outbox'
                <=> \/ [type |-> type, task |-> s] \in outbox
                    \/ s = t /\ type = "expired" /\ how = "unfreeze_timeout"
                    \/ s = t /\ type = "cancelled" /\ how = "unfreeze_cancel"
    <3>1. CASE how = "unfreeze_timeout"
      BY <3>1 DEF EventsAfter
    <3>2. CASE how = "unfreeze_cancel"
      BY <3>2 DEF EventsAfter
    <3>3. CASE how = "unfreeze_fail"
      BY <3>3 DEF EventsAfter
    <3> QED BY <1>0, <3>1, <3>2, <3>3 DEF UnfreezeTypes
  <2> QED BY <1>1, <2>1 DEF OutboxMatchesLedger, EventTypes, UnfreezeTypes
<1> QED BY <1>2, <1>3

LEMMA BooksInv ==
    IInv /\ StatusIsBooked /\ OutboxMatchesLedger /\ [Next]_vars
        => StatusIsBooked' /\ OutboxMatchesLedger'
<1> SUFFICES ASSUME IInv, StatusIsBooked, OutboxMatchesLedger, [Next]_vars
             PROVE  StatusIsBooked' /\ OutboxMatchesLedger'
  OBVIOUS
<1>1. CASE UNCHANGED rows
  BY <1>1 DEF rows, StatusIsBooked, OutboxMatchesLedger, HasRow, Pending
<1>2. ASSUME NEW u \in Users, NEW t \in Tasks, NEW c \in Costs, NEW k \in Keys,
             FreezeOwn(u, t, c, k)
      PROVE  StatusIsBooked' /\ OutboxMatchesLedger'
  BY <1>2, PointAssumption, ReserveBooks DEF FreezeOwn, Fresh
<1>3. ASSUME NEW w \in Workers, FreezePool(w)
      PROVE  StatusIsBooked' /\ OutboxMatchesLedger'
  BY <1>3, ReserveBooks DEF FreezePool, IInv, LocksProtect, Protected
<1> QED BY <1>1, <1>2, <1>3, SettleBooks, UnfreezeBooks, OtherSteps

LEMMA BooksHold == Spec => [](IInv /\ StatusIsBooked /\ OutboxMatchesLedger)
<1>1. Init => StatusIsBooked /\ OutboxMatchesLedger
  BY DEF Init, StatusIsBooked, OutboxMatchesLedger, HasRow, Pending, NoReservation, StatusAfter,
         UnfreezeTypes
<1> QED BY <1>1, InitInv, NextInv, BooksInv, PTL DEF Spec

\* The status of a reservation is never ahead of the ledger or behind it, even
\* when two transactions both end the same reservation.
THEOREM StatusBooked == Spec => []StatusIsBooked
BY BooksHold, PTL

\* The outbox holds an event exactly when the ledger holds its row.
THEOREM OutboxBooked == Spec => []OutboxMatchesLedger
BY BooksHold, PTL

-----------------------------------------------------------------------------
(* Action properties. *)

\* A row is never deleted, and a reservation that is over stays over.
LEMMA StepIsFinal ==
    IInv /\ [Next]_vars
        => /\ ledger \subseteq ledger'
           /\ \A t \in Tasks : reservation[t].status \notin {"none", "pending"}
                                  => reservation'[t].status \notin {"none", "pending"}
<1> SUFFICES ASSUME IInv, [Next]_vars
             PROVE  /\ ledger \subseteq ledger'
                    /\ \A t \in Tasks : reservation[t].status \notin {"none", "pending"}
                                           => reservation'[t].status \notin {"none", "pending"}
  OBVIOUS
<1>1. CASE UNCHANGED rows
  BY <1>1 DEF rows
<1>2. ASSUME NEW u \in Users, NEW t \in Tasks, NEW c \in Costs, NEW k \in Keys,
             FreezeOwn(u, t, c, k)
      PROVE  /\ ledger \subseteq ledger'
             /\ \A s \in Tasks : reservation[s].status \notin {"none", "pending"}
                                    => reservation'[s].status \notin {"none", "pending"}
  BY <1>2 DEF FreezeOwn, Fresh, Reserve, IInv, TypeOK
<1>3. ASSUME NEW w \in Workers, FreezePool(w)
      PROVE  /\ ledger \subseteq ledger'
             /\ \A s \in Tasks : reservation[s].status \notin {"none", "pending"}
                                    => reservation'[s].status \notin {"none", "pending"}
  BY <1>3 DEF FreezePool, Reserve, IInv, TypeOK, LocksProtect, Protected
<1>4. ASSUME NEW w \in Workers, SettleCommit(w)
      PROVE  /\ ledger \subseteq ledger'
             /\ \A s \in Tasks : reservation[s].status \notin {"none", "pending"}
                                    => reservation'[s].status \notin {"none", "pending"}
  BY <1>4 DEF SettleCommit, IInv, TypeOK, Reservation
<1>5. ASSUME NEW w \in Workers, UnfreezeCommit(w)
      PROVE  /\ ledger \subseteq ledger'
             /\ \A s \in Tasks : reservation[s].status \notin {"none", "pending"}
                                    => reservation'[s].status \notin {"none", "pending"}
  <2>1. StatusAfter(txn[w].op) \in {"expired", "cancelled", "refunded"}
    BY <1>5 DEF UnfreezeCommit, StatusAfter, UnfreezeTypes
  <2> QED BY <1>5, <2>1 DEF UnfreezeCommit, IInv, TypeOK, Reservation
<1> QED BY <1>1, <1>2, <1>3, <1>4, <1>5, OtherSteps

\* The ledger is append-only and no ended reservation is reopened, in every
\* interleaving.
THEOREM HistoryFinal == Spec => HistoryIsFinal
<1>1. Spec => []IInv
  BY InitInv, NextInv, PTL DEF Spec
<1> QED BY <1>1, StepIsFinal, PTL DEF Spec, HistoryIsFinal

\* The reservation of a freeze that waits for the pool can only be inserted by
\* the transaction that waits, and its member has been short all along.
LEMMA StepUsesPoolLast ==
    ASSUME IInv, [Next]_vars, NEW w \in Requests,
           txn[w].op = "freeze", reservation'[txn[w].task].status = "pending"
    PROVE  available(txn[w].user) < reservation'[txn[w].task].cost
<1> DEFINE t == txn[w].task
<1>0. /\ t \in Tasks /\ reservation[t].status = "none"
      /\ available(txn[w].user) < txn[w].points
  BY DEF IInv, LocksProtect, Protected
<1>1. CASE UNCHANGED rows
  BY <1>0, <1>1 DEF rows
<1>2. ASSUME NEW u \in Users, NEW s \in Tasks, NEW c \in Costs, NEW k \in Keys,
             FreezeOwn(u, s, c, k)
      PROVE  FALSE
  BY <1>0, <1>2 DEF FreezeOwn, Fresh, Reserve, IInv, TypeOK
<1>3. ASSUME NEW v \in Workers, FreezePool(v)
      PROVE  available(txn[w].user) < reservation'[t].cost
  <2>1. v = w
    <3>1. txn[v].task # t => reservation'[t] = reservation[t]
      BY <1>0, <1>3 DEF FreezePool, Reserve, IInv, TypeOK
    <3>2. txn[v].task = t
      BY <1>0, <3>1
    <3>3. txn[v].op = "freeze"
      BY <1>3 DEF FreezePool
    <3> QED BY <3>2, <3>3 DEF IInv, LocksProtect, DistinctClaims
  <2>2. /\ reservation' = [reservation EXCEPT ![t] = [status |-> "pending", owner |-> Pool,
                                       cost |-> txn[w].points, key |-> txn[w].key]]
        /\ t \in DOMAIN reservation
    BY <1>0, <1>3, <2>1 DEF FreezePool, Reserve, IInv, TypeOK
  <2>3. reservation'[t].cost = txn[w].points
    BY ONLY <2>2
  <2> QED BY <1>0, <2>3
<1>4. ASSUME NEW v \in Workers, SettleCommit(v)
      PROVE  FALSE
  BY <1>0, <1>4 DEF SettleCommit, IInv, TypeOK, LocksProtect, Protected, Reservation
<1>5. ASSUME NEW v \in Workers, UnfreezeCommit(v)
      PROVE  FALSE
  <2>1. /\ txn[v].task \in Tasks /\ reservation[txn[v].task].status # "none"
        /\ StatusAfter(txn[v].op) \in Statuses \ {"none", "pending"}
    BY <1>5, ClaimHeld DEF UnfreezeCommit, UnfreezeTypes, StatusAfter, Statuses
  <2>2. /\ reservation' = [reservation EXCEPT ![txn[v].task].status = StatusAfter(txn[v].op)]
        /\ reservation \in [Tasks -> Reservation]
    BY <1>5 DEF UnfreezeCommit, IInv, TypeOK
  <2>3. reservation'[t].status # "pending"
    BY ONLY <1>0, <2>1, <2>2, StatusWritten
  <2> QED BY <2>3
<1> QED BY <1>1, <1>2, <1>3, <1>4, <1>5, OtherSteps

\* BILL-07 for every interleaving: the pool pays only when the member is short.
THEOREM PoolLast == Spec => PoolIsLastResort
<1>1. Spec => []IInv
  BY InitInv, NextInv, PTL DEF Spec
<1>2. IInv /\ [Next]_vars =>
        \A w \in Requests :
            (txn[w].op = "freeze" /\ reservation'[txn[w].task].status = "pending")
            => available(txn[w].user) < reservation'[txn[w].task].cost
  BY StepUsesPoolLast
<1> QED BY <1>1, <1>2, PTL DEF Spec, PoolIsLastResort

=============================================================================
