-------------------------------- MODULE Holds --------------------------------
(***************************************************************************)
(* What billing-service promises generation-service, without accounts or   *)
(* transactions: a task is held once, its hold ends once, and the outbox   *)
(* announces the ends that generation-service has not reported itself.     *)
(* TaskBilling is built on it, and PointEscrow shows that the transactions *)
(* of PointService keep it.                                                *)
(***************************************************************************)
CONSTANTS Tasks

VARIABLES
    hold,    \* point_reservations.status, "none" before the freeze
    due,     \* tasks whose freeze_deadline is past
    outbox   \* events not marked published

holdVars == <<hold, due, outbox>>

Init ==
    /\ hold = [t \in Tasks |-> "none"]
    /\ due = {}
    /\ outbox = {}

Freeze(t) ==
    /\ hold[t] = "none"
    /\ hold' = [hold EXCEPT ![t] = "pending"]
    /\ outbox' = outbox \cup {[type |-> "created", task |-> t]}
    /\ UNCHANGED due

\* An end that generation-service has reported: nobody has to be told.
Close(t, end) ==
    /\ hold[t] = "pending"
    /\ hold' = [hold EXCEPT ![t] = end]
    /\ UNCHANGED <<due, outbox>>

\* An end that billing-service decides.
Release(t, end) ==
    /\ hold[t] = "pending"
    /\ hold' = [hold EXCEPT ![t] = end]
    /\ outbox' = outbox \cup {[type |-> end, task |-> t]}
    /\ UNCHANGED due

Cancel(t)  == Release(t, "cancelled")
Timeout(t) == t \in due /\ Release(t, "expired")

DeadlinePasses(t) ==
    /\ hold[t] # "none" /\ t \notin due
    /\ due' = due \cup {t}
    /\ UNCHANGED <<hold, outbox>>

Published(event) ==
    /\ event \in outbox
    /\ outbox' = outbox \ {event}
    /\ UNCHANGED <<hold, due>>

Next ==
    \/ \E t \in Tasks :
          \/ Freeze(t) \/ Cancel(t) \/ Timeout(t) \/ DeadlinePasses(t)
          \/ \E end \in {"settled", "refunded"} : Close(t, end)
    \/ \E event \in outbox : Published(event)

Spec == Init /\ [][Next]_holdVars
=============================================================================
