--------------------------- MODULE MCPointService ---------------------------
(***************************************************************************)
(* Instances of PointService for TLC.                                      *)
(***************************************************************************)
EXTENDS PointEscrow, TLC

Around     == {-1, 0, 1}
OpeningOf1 == [o \in Owners |-> 1]
OpeningOf2 == [o \in Owners |-> 2]
OpeningOf3 == [o \in Owners |-> 3]

\* The deadline passes, the scheduler keeps scanning (its thread runs nothing
\* else), a transaction that waits for a row lock is granted it in turn
\* (PostgreSQL queues waiters) and a lock cycle is broken.
FairSerialSpec ==
    /\ SerialSpec
    /\ \A t \in Tasks :
          /\ WF_vars(DeadlinePasses(t) /\ NoOverlap')
          /\ SF_vars(UnfreezeBegin(Scheduler, t, "unfreeze_timeout") /\ NoOverlap')
    /\ \A w \in Workers : SF_vars(Step(w) /\ NoOverlap')

Symmetry == Permutations(Tasks) \cup Permutations(Requests) \cup Permutations(Users)
=============================================================================
