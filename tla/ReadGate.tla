------------------------------ MODULE ReadGate ------------------------------
(***************************************************************************)
(* PerUserReadExecutionGate for one user: a counter, a queue of resolvers  *)
(* and, between resolve() and the microtask it schedules, the waiters that *)
(* are about to go on.  The counter is a JavaScript Map entry; users share *)
(* nothing, so one user is enough.                                         *)
(***************************************************************************)
EXTENDS Naturals, Sequences, FiniteSets

CONSTANTS
    Callers,    \* calls of run()
    MaxPerUser  \* the limit, 4 in production

ASSUME GateAssumption == MaxPerUser \in Nat \ {0}

VARIABLES
    active,   \* the counter
    waiters,  \* callers in the queue
    woken,    \* callers whose promise is resolved, in microtask order
    inside    \* callers whose operation runs

gateVars == <<active, waiters, woken, inside>>

Places(c) == /\ c \notin inside
             /\ \A i \in 1..Len(waiters) : waiters[i] # c
             /\ \A i \in 1..Len(woken) : woken[i] # c

GateInit ==
    /\ active = 0
    /\ waiters = << >>
    /\ woken = << >>
    /\ inside = {}

\* acquire
Arrive(c) ==
    /\ Places(c)
    /\ IF active < MaxPerUser
         THEN active' = active + 1 /\ inside' = inside \cup {c} /\ UNCHANGED waiters
         ELSE waiters' = Append(waiters, c) /\ UNCHANGED <<active, inside>>
    /\ UNCHANGED woken

\* Mutant of Resume: the slot is thought to be handed over by release.
ResumeUncounted ==
    /\ woken # << >>
    /\ inside' = inside \cup {Head(woken)}
    /\ woken' = Tail(woken)
    /\ UNCHANGED <<active, waiters>>

\* The waiter goes on and counts itself, without looking at the limit again.
Resume ==
    /\ woken # << >>
    /\ active' = active + 1
    /\ inside' = inside \cup {Head(woken)}
    /\ woken' = Tail(woken)
    /\ UNCHANGED waiters

\* Mutant of Leave: nobody is woken while the count is at the limit.
LeaveFull(c) ==
    /\ c \in inside
    /\ inside' = inside \ {c}
    /\ active' = active - 1
    /\ IF waiters # << >> /\ active < MaxPerUser
         THEN woken' = Append(woken, Head(waiters)) /\ waiters' = Tail(waiters)
         ELSE UNCHANGED <<waiters, woken>>

\* release
Leave(c) ==
    /\ c \in inside
    /\ inside' = inside \ {c}
    /\ active' = IF active > 0 THEN active - 1 ELSE 0
    /\ IF waiters # << >>
         THEN woken' = Append(woken, Head(waiters)) /\ waiters' = Tail(waiters)
         ELSE UNCHANGED <<waiters, woken>>

GateNext == Resume \/ \E c \in Callers : Arrive(c) \/ Leave(c)

GateSpec == GateInit /\ [][GateNext]_gateVars

-----------------------------------------------------------------------------
(* Properties *)

GateTypeOK ==
    /\ active \in Nat
    /\ waiters \in Seq(Callers)
    /\ woken \in Seq(Callers)
    /\ inside \subseteq Callers

\* The counter is the number of operations that run: no slot leaks, whatever
\* arrives between a release and the waiter it wakes.
CountIsInside == active = Cardinality(inside)

\* No lost wake-up: while somebody waits, the slots are taken or promised.
NoLostWakeup == waiters # << >> => active + Len(woken) >= MaxPerUser
=============================================================================
