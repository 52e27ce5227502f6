------------------------------- MODULE Escrow -------------------------------
(***************************************************************************)
(* What the point accounts promise, without balances, frozen points, locks *)
(* or transactions: points that are free, and holds that are opened once   *)
(* for a task and closed once, by a charge or by a return.                 *)
(***************************************************************************)
EXTENDS Naturals, Integers

CONSTANTS
    Owners, Tasks, Nobody,
    Points  \* the amounts, natural numbers, that are held, charged or moved

VARIABLES
    free,  \* the points an owner may still use
    hold   \* the hold of each task; its points are what was charged once it is over

escrowVars == <<free, hold>>

NoHold == [state |-> "none", owner |-> Nobody, points |-> 0]

Init ==
    /\ free \in [Owners -> Nat]
    /\ hold = [t \in Tasks |-> NoHold]

\* Free points are held for a new task.
Open(t, o, n) ==
    /\ hold[t].state = "none"
    /\ n <= free[o]
    /\ free' = [free EXCEPT ![o] = @ - n]
    /\ hold' = [hold EXCEPT ![t] = [state |-> "held", owner |-> o, points |-> n]]

\* A hold ends once: n points are charged and the rest is free again; a charge
\* above the hold takes free points of its owner only.
Close(t, n, state) ==
    LET o == hold[t].owner IN
    /\ hold[t].state = "held"
    /\ n <= free[o] + hold[t].points
    /\ free' = [free EXCEPT ![o] = @ + hold[t].points - n]
    /\ hold' = [hold EXCEPT ![t].state = state, ![t].points = n]

Charge(t, n) == Close(t, n, "charged")
Return(t)    == Close(t, 0, "returned")

Deposit(o, n) ==
    /\ free' = [free EXCEPT ![o] = @ + n]
    /\ UNCHANGED hold

\* Points go from one owner to another, and never points that are held.
Transfer(o, p, n) ==
    /\ o # p /\ n <= free[o]
    /\ free' = [free EXCEPT ![o] = @ - n, ![p] = @ + n]
    /\ UNCHANGED hold

Next ==
    \/ \E t \in Tasks, o \in Owners, n \in Points : Open(t, o, n)
    \/ \E t \in Tasks : Return(t) \/ \E n \in Points : Charge(t, n)
    \/ \E o \in Owners, n \in Points : Deposit(o, n)
    \/ \E o, p \in Owners, n \in Points : Transfer(o, p, n)

Spec == Init /\ [][Next]_escrowVars
=============================================================================
