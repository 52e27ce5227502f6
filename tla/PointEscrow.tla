----------------------------- MODULE PointEscrow -----------------------------
(***************************************************************************)
(* The point accounts as an Escrow.  PointService implements it as long as *)
(* the calls that end one task do not overlap (two that do release its     *)
(* points twice) and linkEnterprise does not run (it writes back columns   *)
(* that it has read without a lock).                                       *)
(***************************************************************************)
EXTENDS PointService

Releasing == UnfreezeTypes \cup {"settle"}

\* At most one transaction that ends a given reservation is open at a time.
NoOverlap ==
    \A v, w \in Workers :
        v # w /\ txn[v].op \in Releasing /\ txn[w].op \in Releasing
            => txn[v].task # txn[w].task

SerialNext == Next /\ NoOverlap'
SerialSpec == Init /\ [][SerialNext]_vars

\* A transaction that ends a task finds it pending when it commits.
StillPending == \A w \in Workers : txn[w].op \in Releasing => Pending(txn[w].task)

-----------------------------------------------------------------------------
(* The refinement mapping *)

Free == [o \in Owners |-> available(o)]

HoldState(s) ==
    CASE s = "none"    -> "none"
      [] s = "pending" -> "held"
      [] s = "settled" -> "charged"
      [] OTHER         -> "returned"

\* What the ledger says a task was charged.
Charges(t) == {r \in ledger : r.task = t /\ r.type = "settle"}
Paid(t)    == (CHOOSE r \in Charges(t) : TRUE).points

HoldPoints(t) ==
    CASE reservation[t].status = "pending" -> reservation[t].cost
      [] reservation[t].status = "settled" -> Paid(t)
      [] OTHER -> 0

Hold == [t \in Tasks |-> [state  |-> HoldState(reservation[t].status),
                          owner  |-> reservation[t].owner,
                          points |-> HoldPoints(t)]]

\* An estimate, a charge of at most twice the estimate, or another amount.
Moved == 0..(2 * MaxCost) \cup Amounts

E == INSTANCE Escrow WITH free <- Free, hold <- Hold, Points <- Moved

\* Each freeze, settlement, release, credit, allocation and recycling does to the
\* available points what the escrow allows, every other step changes nothing, and
\* what a settlement takes is what its ledger row says.
Implements == E!Spec

-----------------------------------------------------------------------------
(* What generation-service sees of a reservation *)

HoldStatus == [t \in Tasks |-> reservation[t].status]

H == INSTANCE Holds WITH hold <- HoldStatus

\* TaskBilling's picture of billing-service is right: a freeze, a settlement and
\* each release are one step there, of a hold that is still pending, with the
\* event it announces; only a task whose deadline is past times out.  (The
\* methods read the status and the deadline before they lock anything.)
ImplementsHolds == H!Spec
=============================================================================
