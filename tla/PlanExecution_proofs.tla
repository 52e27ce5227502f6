------------------------- MODULE PlanExecution_proofs -------------------------
(***************************************************************************)
(* Proofs about PlanExecution, for every plan, number of calls, limit and  *)
(* number of restarts.  What a step does to the gate and what it does to   *)
(* the plan are shown apart: a step is one of the gate, or resets it, and  *)
(* is one of the five things that may happen to a plan.  The gate comes    *)
(* first: its invariant says that a caller is at one place only, or a slot *)
(* would be counted twice.                                                 *)
(***************************************************************************)
EXTENDS PlanExecution, FiniteSetTheorems, SequenceTheorems, TLAPS

\* A queue of callers that are all different and not inside.
Queue(q) ==
    /\ \A i \in 1..Len(q) : q[i] \notin inside
    /\ \A i, k \in 1..Len(q) : q[i] = q[k] => i = k

Apart == \A i \in 1..Len(waiters), k \in 1..Len(woken) : waiters[i] # woken[k]

Counted == IsFiniteSet(inside) /\ CountIsInside

GateInv == GateTypeOK /\ Queue(waiters) /\ Queue(woken) /\ Apart /\ Counted

-----------------------------------------------------------------------------
(* Queues *)

LEMMA Appended ==
    ASSUME NEW S, NEW q \in Seq(S), NEW x \in S
    PROVE  /\ Append(q, x) \in Seq(S)
           /\ Len(Append(q, x)) = Len(q) + 1
           /\ \A i \in 1..Len(q) : Append(q, x)[i] = q[i]
           /\ Append(q, x)[Len(q) + 1] = x
  BY AppendProperties

LEMMA Popped ==
    ASSUME NEW S, NEW q \in Seq(S), q # << >>
    PROVE  /\ Head(q) \in S /\ Head(q) = q[1]
           /\ Tail(q) \in Seq(S)
           /\ Len(q) \in Nat \ {0} /\ Len(Tail(q)) = Len(q) - 1
           /\ \A i \in 1..Len(Tail(q)) : i + 1 \in 1..Len(q) /\ Tail(q)[i] = q[i + 1]
  BY HeadTailProperties, EmptySeq, LenProperties

-----------------------------------------------------------------------------
(* Steps *)

LEMMA InitGate == GateInit => GateInv
<1> SUFFICES ASSUME GateInit PROVE GateInv
  OBVIOUS
<1> USE DEF GateInit
<1>1. GateTypeOK
  BY EmptySeq DEF GateTypeOK
<1>2. Len(waiters) = 0 /\ Len(woken) = 0
  BY EmptySeq
<1>3. Queue(waiters) /\ Queue(woken) /\ Apart
  BY <1>2 DEF Queue, Apart
<1>4. Counted
  BY FS_EmptySet DEF Counted, CountIsInside
<1>5. QED BY <1>1, <1>3, <1>4 DEF GateInv

LEMMA SameGate == GateInv /\ UNCHANGED gateVars => GateInv'
  BY DEF GateInv, gateVars, GateTypeOK, Queue, Apart, Counted, CountIsInside

LEMMA ArriveInv ==
    ASSUME GateInv, NEW c \in Callers, Arrive(c)
    PROVE  GateInv'
<1> USE DEF GateInv, GateTypeOK, Arrive
<1> Len(waiters) \in Nat /\ Len(woken) \in Nat
  BY LenProperties
<1>1. CASE active < MaxPerUser
  <2>1. active' = active + 1 /\ inside' = inside \cup {c} /\ UNCHANGED <<waiters, woken>>
    BY <1>1
  <2>2. GateTypeOK'
    BY <2>1
  <2>3. Queue(waiters)' /\ Queue(woken)' /\ Apart'
    BY <2>1 DEF Queue, Apart, Places
  <2>4. Counted'
    BY <2>1, FS_AddElement DEF Counted, CountIsInside, Places
  <2>5. QED BY <2>2, <2>3, <2>4
<1>2. CASE ~ (active < MaxPerUser)
  <2>1. waiters' = Append(waiters, c) /\ UNCHANGED <<active, inside, woken>>
    BY <1>2
  <2>2. /\ waiters' \in Seq(Callers)
        /\ Len(waiters') = Len(waiters) + 1
        /\ \A i \in 1..Len(waiters) : waiters'[i] = waiters[i]
        /\ waiters'[Len(waiters) + 1] = c
    BY <2>1, Appended
  <2>3. GateTypeOK' /\ Counted'
    BY <2>1, <2>2 DEF Counted, CountIsInside
  <2>4. \A i \in 1..Len(waiters') : i \in 1..Len(waiters) \/ (i = Len(waiters) + 1 /\ waiters'[i] = c)
    BY <2>2
  <2>5. Queue(waiters)'
    BY ONLY <2>1, <2>2, <2>4, Queue(waiters), Places(c), Len(waiters) \in Nat, Arrive(c) DEF Queue, Places
  <2>6. Queue(woken)' /\ Apart'
    BY <2>1, <2>2, <2>4 DEF Queue, Apart, Places
  <2>7. QED BY <2>3, <2>5, <2>6
<1>3. QED BY <1>1, <1>2

LEMMA ResumeInv ==
    ASSUME GateInv, Resume
    PROVE  GateInv'
<1> USE DEF GateInv, GateTypeOK, Resume
<1> DEFINE c == Head(woken)
<1> Len(waiters) \in Nat /\ Len(woken) \in Nat
  BY LenProperties
<1>1. /\ c \in Callers /\ c = woken[1] /\ woken' \in Seq(Callers)
      /\ Len(woken) \in Nat \ {0} /\ Len(woken') = Len(woken) - 1
      /\ \A i \in 1..Len(woken') : i + 1 \in 1..Len(woken) /\ woken'[i] = woken[i + 1]
  BY Popped
<1>2. active' = active + 1 /\ inside' = inside \cup {c} /\ waiters' = waiters
  OBVIOUS
<1> HIDE DEF c
<1>3. GateTypeOK'
  BY <1>1, <1>2
<1>4. c \notin inside /\ 1 \in 1..Len(woken)
  BY <1>1 DEF Queue
<1>5. Counted'
  <2>1. /\ IsFiniteSet(inside \cup {c})
        /\ Cardinality(inside \cup {c}) = Cardinality(inside) + 1
    BY ONLY <1>4, Counted, FS_AddElement DEF Counted
  <2>2. QED BY ONLY <1>2, <2>1, Counted DEF Counted, CountIsInside
<1>6. Queue(waiters)'
  BY ONLY <1>1, <1>2, <1>4, Queue(waiters), Apart DEF Queue, Apart
<1>7. Queue(woken)'
  <2>1. ASSUME NEW i \in 1..Len(woken') PROVE woken'[i] \notin inside'
    <3>1. i + 1 \in 1..Len(woken) /\ woken'[i] = woken[i + 1] /\ i + 1 # 1
      BY ONLY <1>1, i \in 1..Len(woken')
    <3>2. woken[i + 1] \notin inside /\ woken[i + 1] # woken[1]
      BY ONLY <3>1, <1>4, Queue(woken) DEF Queue
    <3>3. QED BY ONLY <3>1, <3>2, <1>1, <1>2
  <2>2. ASSUME NEW i \in 1..Len(woken'), NEW k \in 1..Len(woken'), woken'[i] = woken'[k]
        PROVE  i = k
    <3>1. /\ i + 1 \in 1..Len(woken) /\ k + 1 \in 1..Len(woken)
          /\ woken[i + 1] = woken[k + 1]
      BY <1>1, <2>2
    <3>2. i + 1 = k + 1
      BY ONLY <3>1, Queue(woken) DEF Queue
    <3>3. QED BY ONLY <3>2, <1>1, i \in 1..Len(woken'), k \in 1..Len(woken')
  <2>3. QED BY <2>1, <2>2 DEF Queue
<1>8. Apart'
  BY ONLY <1>1, <1>2, Apart DEF Apart
<1>9. QED BY <1>3, <1>5, <1>6, <1>7, <1>8

LEMMA LeaveInv ==
    ASSUME GateInv, NEW c \in Callers, Leave(c)
    PROVE  GateInv'
<1> USE DEF GateInv, GateTypeOK, Leave
<1> Len(waiters) \in Nat /\ Len(woken) \in Nat
  BY LenProperties
<1>1. c \in inside /\ inside' = inside \ {c}
  OBVIOUS
<1>2. Counted' /\ active' \in Nat
  <2>1. IsFiniteSet(inside') /\ Cardinality(inside') = Cardinality(inside) - 1
    BY <1>1, FS_RemoveElement DEF Counted
  <2>2. Cardinality(inside') \in Nat
    BY <2>1, FS_CardinalityType
  <2>3. active' = active - 1
    BY <2>1, <2>2 DEF Counted, CountIsInside
  <2>4. QED BY <2>1, <2>2, <2>3 DEF Counted, CountIsInside
<1>3. CASE waiters = << >>
  <2>1. UNCHANGED <<waiters, woken>>
    BY <1>3
  <2>2. Queue(waiters)' /\ Queue(woken)' /\ Apart'
    BY <1>1, <2>1 DEF Queue, Apart
  <2>3. QED BY <1>1, <1>2, <2>1, <2>2
<1>4. CASE waiters # << >>
  <2> DEFINE d == Head(waiters)
  <2>1. woken' = Append(woken, d) /\ waiters' = Tail(waiters)
    BY <1>4
  <2>2. /\ d \in Callers /\ d = waiters[1] /\ waiters' \in Seq(Callers)
        /\ Len(waiters) \in Nat \ {0} /\ Len(waiters') = Len(waiters) - 1
        /\ \A i \in 1..Len(waiters') : i + 1 \in 1..Len(waiters) /\ waiters'[i] = waiters[i + 1]
    BY <1>4, <2>1, Popped
  <2> HIDE DEF d
  <2>3. /\ woken' \in Seq(Callers)
        /\ Len(woken') = Len(woken) + 1
        /\ \A i \in 1..Len(woken) : woken'[i] = woken[i]
        /\ woken'[Len(woken) + 1] = d
    BY <2>1, <2>2, Appended
  <2>4. GateTypeOK'
    BY <1>1, <1>2, <2>2, <2>3
  <2>5. 1 \in 1..Len(waiters) /\ d \notin inside /\ \A i \in 1..Len(woken) : woken[i] # d
    BY <2>2 DEF Queue, Apart
  <2>6. \A i \in 1..Len(waiters') : i + 1 # 1 /\ waiters'[i] # d
    BY ONLY <2>2, <2>5, Queue(waiters) DEF Queue
  <2>7. \A i \in 1..Len(woken') : (i \in 1..Len(woken) /\ woken'[i] = woken[i])
                                  \/ (i = Len(woken) + 1 /\ woken'[i] = d)
    BY <2>3
  <2>8. Queue(waiters)'
    <3>1. ASSUME NEW i \in 1..Len(waiters') PROVE waiters'[i] \notin inside'
      BY <1>1, <2>2 DEF Queue
    <3>2. ASSUME NEW i \in 1..Len(waiters'), NEW k \in 1..Len(waiters'), waiters'[i] = waiters'[k]
          PROVE  i = k
      <4>1. /\ i + 1 \in 1..Len(waiters) /\ k + 1 \in 1..Len(waiters)
            /\ waiters[i + 1] = waiters[k + 1]
        BY <2>2, <3>2
      <4>2. i + 1 = k + 1
        BY ONLY <4>1, Queue(waiters) DEF Queue
      <4>3. QED BY ONLY <4>2, <2>2, i \in 1..Len(waiters'), k \in 1..Len(waiters')
    <3>3. QED BY <3>1, <3>2 DEF Queue
  <2>9. Queue(woken)'
    BY ONLY <1>1, <2>5, <2>7, Queue(woken), Len(woken) \in Nat DEF Queue
  <2>10. Apart'
    BY ONLY <2>2, <2>6, <2>7, Apart DEF Apart
  <2>11. QED BY <1>2, <2>4, <2>8, <2>9, <2>10
<1>5. QED BY <1>3, <1>4

\* GateInv is inductive for the gate alone.
LEMMA GateStep ==
    ASSUME GateInv, [GateNext]_gateVars
    PROVE  GateInv'
  BY ArriveInv, ResumeInv, LeaveInv, SameGate DEF GateNext

-----------------------------------------------------------------------------
(* No lost wake-up *)

LEMMA WakeupStep ==
    ASSUME GateInv, NoLostWakeup, [GateNext]_gateVars
    PROVE  NoLostWakeup'
<1> USE GateAssumption DEF GateInv, GateTypeOK, NoLostWakeup
<1> Len(waiters) \in Nat /\ Len(woken) \in Nat
  BY LenProperties
<1>1. ASSUME NEW c \in Callers, Arrive(c) PROVE NoLostWakeup'
  BY <1>1 DEF Arrive
<1>2. CASE Resume
  <2>1. active' = active + 1 /\ waiters' = waiters /\ Len(woken') = Len(woken) - 1
    BY <1>2, Popped DEF Resume
  <2>2. QED BY <2>1
<1>3. ASSUME NEW c \in Callers, Leave(c) PROVE NoLostWakeup'
  <2>1. CASE waiters = << >>
    BY <1>3, <2>1 DEF Leave
  <2>2. CASE waiters # << >>
    <3>1. Len(woken') = Len(woken) + 1
      BY <1>3, <2>2, Popped, Appended DEF Leave
    <3>2. active' \in Nat /\ active' >= active - 1
      BY <1>3 DEF Leave
    <3>3. QED BY <2>2, <3>1, <3>2
  <2>3. QED BY <2>1, <2>2
<1>4. CASE UNCHANGED gateVars
  BY <1>4 DEF gateVars
<1>5. QED BY <1>1, <1>2, <1>3, <1>4 DEF GateNext

-----------------------------------------------------------------------------
\* PerUserReadExecutionGate keeps its count and loses no waiter, for every limit
\* and every number of callers.
THEOREM GateCounts == GateSpec => [](CountIsInside /\ NoLostWakeup)
<1>1. GateInit => GateInv /\ NoLostWakeup
  BY InitGate DEF GateInit, NoLostWakeup
<1>2. GateInv /\ NoLostWakeup /\ [GateNext]_gateVars => GateInv' /\ NoLostWakeup'
  BY GateStep, WakeupStep
<1>3. GateInv => CountIsInside
  BY DEF GateInv, Counted
<1>4. QED BY <1>1, <1>2, <1>3, PTL DEF GateSpec

-----------------------------------------------------------------------------
(* The plan *)

Ended == {"completed", "failed"}

Expire(s) ==
    /\ Is(s, "running")
    /\ expired' = expired \cup {s}
    /\ UNCHANGED <<step, linked>>

LinkTask(s) ==
    /\ linked' = linked \cup {s}
    /\ UNCHANGED <<step, expired>>

\* What a step of the system does to the plan.
PlanStep ==
    \/ UNCHANGED planVars
    \/ \E s \in Steps : ClaimStep(s)
    \/ \E s \in Steps, state \in Ended, output \in 0..MaxAttempts : EndStep(s, state, output)
    \/ \E s \in Steps : Expire(s)
    \/ \E s \in TaskSteps : LinkTask(s)

PlanTyped ==
    /\ step \in [Steps -> [status : StepStates, attempts : 0..MaxAttempts, output : 0..MaxAttempts]]
    /\ linked \subseteq TaskSteps
    /\ expired \subseteq Steps

CallsTyped ==
    /\ call \in [Calls -> {"idle", "running", "done"}]
    /\ todo \in [Calls -> SUBSET Steps]
    /\ job \in [Jobs -> JobStates]
    /\ attempt \in [Jobs -> 0..MaxAttempts]
    /\ crashes \in 0..MaxCrashes

\* Only a step that runs has a lease that can run out.
ExpiredRun == \A s \in expired : Is(s, "running")

\* A read in progress and the attempt it belongs to.
Reading(j)   == job[j] \in {"executing", "failing"}
AttemptsSeen == \A j \in Jobs : Reading(j) => attempt[j] <= step[j[2]].attempts

PlanInv ==
    /\ PlanTyped /\ CallsTyped
    /\ ExpiredRun /\ KeyExclusive /\ DependenciesDone
    /\ AttemptsSeen /\ OneReadPerAttempt

IInv == GateInv /\ NoLostWakeup /\ PlanInv

-----------------------------------------------------------------------------
(* A step of the system at the gate and in the plan *)

LEMMA GatePart == [Next]_vars => [GateNext]_gateVars \/ GateInit'
<1> USE PlanAssumption
<1>1. ASSUME NEW j \in Jobs, Job(j) PROVE [GateNext]_gateVars
  BY <1>1 DEF Job, EnterGate, Claim, Complete, ReadFails, Fail, LeaveGate, GateNext, Jobs
<1>2. ASSUME NEW s \in Steps, LeaseExpires(s) \/ ClaimTask(s) \/ AttachTask(s)
      PROVE  UNCHANGED gateVars
  BY <1>2 DEF LeaseExpires, ClaimTask, AttachTask
<1>3. ASSUME NEW s \in Steps, NEW state \in StepStates, CompleteTaskStep(s, state)
      PROVE  UNCHANGED gateVars
  BY <1>3 DEF CompleteTaskStep
<1>4. ASSUME NEW c \in Calls, StartCall(c) \/ CallStep(c) PROVE UNCHANGED gateVars
  BY <1>4 DEF StartCall, CallStep, StartPartition, Return
<1>5. CASE PassGate
  BY <1>5 DEF PassGate, GateNext
<1>6. CASE Crash
  BY <1>6 DEF Crash, GateInit
<1>7. ASSUME NEW j \in Jobs, Hang(j) PROVE UNCHANGED gateVars
  BY <1>7 DEF Hang
<1>8. CASE UNCHANGED vars
  BY <1>8 DEF vars
<1>9. QED BY <1>1, <1>2, <1>3, <1>4, <1>5, <1>6, <1>7, <1>8 DEF Next

LEMMA PlanPart ==
    ASSUME PlanTyped, CallsTyped, [Next]_vars
    PROVE  PlanStep
<1> USE DEF PlanStep, Ended
<1>1. ASSUME NEW j \in Jobs, Job(j) PROVE PlanStep
  <2>1. j[2] \in Steps /\ attempt[j] \in 0..MaxAttempts /\ 0 \in 0..MaxAttempts
    BY PlanAssumption DEF Jobs, CallsTyped
  <2>2. CASE EnterGate(j) \/ ReadFails(j) \/ LeaveGate(j)
    BY <2>2 DEF EnterGate, ReadFails, LeaveGate
  <2>3. CASE Claim(j)
    BY <2>1, <2>3 DEF Claim
  <2>4. CASE Complete(j)
    BY <2>1, <2>4 DEF Complete
  <2>5. CASE Fail(j)
    BY <2>1, <2>5 DEF Fail
  <2>6. QED BY <1>1, <2>2, <2>3, <2>4, <2>5 DEF Job
<1>2. ASSUME NEW s \in Steps, LeaseExpires(s) \/ ClaimTask(s) \/ AttachTask(s)
      PROVE  PlanStep
  BY <1>2 DEF LeaseExpires, ClaimTask, AttachTask, Expire, LinkTask
<1>3. ASSUME NEW s \in Steps, NEW state \in StepStates, CompleteTaskStep(s, state)
      PROVE  PlanStep
  BY <1>3 DEF CompleteTaskStep, PlanTyped
<1>4. ASSUME NEW c \in Calls, StartCall(c) \/ CallStep(c) PROVE UNCHANGED planVars
  BY <1>4 DEF StartCall, CallStep, StartPartition, Return
<1>5. CASE PassGate \/ Crash \/ \E j \in Jobs : Hang(j)
  BY <1>5 DEF PassGate, Crash, Hang
<1>6. CASE UNCHANGED vars
  BY <1>6 DEF vars
<1>7. QED BY <1>1, <1>2, <1>3, <1>4, <1>5, <1>6 DEF Next

-----------------------------------------------------------------------------
(* The plan *)

\* What ClaimStep and EndStep do to each step of the plan.
LEMMA ClaimEffect ==
    ASSUME PlanTyped, NEW s \in Steps, ClaimStep(s)
    PROVE  /\ step[s].status \in {"pending", "running"} \/ s \in expired
           /\ step'[s].status = "running"
           /\ step'[s].attempts = step[s].attempts + 1
           /\ step'[s].output = step[s].output
           /\ \A r \in Steps \ {s} :
                 /\ step'[r].attempts = step[r].attempts
                 /\ step'[r].output = step[r].output
                 /\ step'[r].status = IF r \in expired THEN "pending" ELSE step[r].status
                 /\ r \notin expired => step'[r] = step[r]
           /\ expired' = {} /\ linked' = linked
  BY DEF ClaimStep, MayClaim, Claimable, PlanTyped, Is

LEMMA EndEffect ==
    ASSUME PlanTyped, NEW s \in Steps, NEW state, NEW output, EndStep(s, state, output)
    PROVE  /\ step[s].status = "running"
           /\ step'[s].status = state
           /\ step'[s].attempts = step[s].attempts
           /\ step'[s].output = output
           /\ \A r \in Steps \ {s} : step'[r] = step[r]
           /\ expired' = expired \ {s} /\ linked' = linked
  BY DEF EndStep, PlanTyped, Is

LEMMA PlanTypeStep ==
    ASSUME PlanTyped, PlanStep
    PROVE  PlanTyped'
<1> DEFINE Row == [status : StepStates, attempts : 0..MaxAttempts, output : 0..MaxAttempts]
<1>1. ASSUME NEW s \in Steps, ClaimStep(s) PROVE PlanTyped'
  <2>1. \A r \in Steps : step[r] \in Row
    BY DEF PlanTyped
  <2>2. step[s].attempts + 1 \in 0..MaxAttempts
    <3>1. step[s].attempts \in 0..MaxAttempts
      BY <2>1
    <3>2. step[s].attempts < MaxAttempts
      BY <1>1 DEF ClaimStep, MayClaim
    <3>3. QED BY ONLY <3>1, <3>2, PlanAssumption
  <2>3. [step[s] EXCEPT !.status = "running", !.attempts = @ + 1] \in Row
    BY <2>1, <2>2 DEF StepStates
  <2>4. \A r \in Steps : [step[r] EXCEPT !.status = "pending"] \in Row
    BY <2>1 DEF StepStates
  <2> HIDE DEF Row
  <2>5. step' \in [Steps -> Row]
    BY <1>1, <2>1, <2>3, <2>4 DEF ClaimStep
  <2>6. QED BY <1>1, <2>5 DEF ClaimStep, PlanTyped, Row
<1>2. ASSUME NEW s \in Steps, NEW state \in Ended, NEW output \in 0..MaxAttempts,
             EndStep(s, state, output)
      PROVE  PlanTyped'
  BY <1>2 DEF EndStep, PlanTyped, Ended, StepStates
<1>3. CASE UNCHANGED planVars \/ (\E s \in Steps : Expire(s)) \/ (\E s \in TaskSteps : LinkTask(s))
  BY <1>3 DEF planVars, Expire, LinkTask, PlanTyped
<1>4. QED BY <1>1, <1>2, <1>3 DEF PlanStep

LEMMA ExpiredRunStep ==
    ASSUME PlanTyped, ExpiredRun, PlanStep
    PROVE  ExpiredRun'
<1>1. ASSUME NEW s \in Steps, ClaimStep(s) PROVE ExpiredRun'
  BY <1>1, ClaimEffect DEF ExpiredRun
<1>2. ASSUME NEW s \in Steps, NEW state \in Ended, NEW output \in 0..MaxAttempts,
             EndStep(s, state, output)
      PROVE  ExpiredRun'
  BY <1>2, EndEffect DEF ExpiredRun, Is, PlanTyped
<1>3. CASE UNCHANGED planVars \/ (\E s \in Steps : Expire(s)) \/ (\E s \in TaskSteps : LinkTask(s))
  BY <1>3 DEF planVars, Expire, LinkTask, ExpiredRun, Is
<1>4. QED BY <1>1, <1>2, <1>3 DEF PlanStep

LEMMA KeyStep ==
    ASSUME PlanTyped, KeyExclusive, PlanStep
    PROVE  KeyExclusive'
<1>1. ASSUME NEW s \in Steps, ClaimStep(s) PROVE KeyExclusive'
  <2>1. KeyFree(s)
    BY <1>1 DEF ClaimStep, MayClaim
  <2>2. \A r \in Steps : step'[r].status = "running" =>
            r = s \/ (step[r].status = "running" /\ r \notin expired)
    BY <1>1, ClaimEffect
  <2>3. QED BY <2>1, <2>2 DEF KeyExclusive, KeyFree, Is
<1>2. ASSUME NEW s \in Steps, NEW state \in Ended, NEW output \in 0..MaxAttempts,
             EndStep(s, state, output)
      PROVE  KeyExclusive'
  <2>1. \A r \in Steps : step'[r].status = "running" => step[r].status = "running"
    BY <1>2, EndEffect DEF Ended
  <2>2. QED BY <2>1 DEF KeyExclusive, Is
<1>3. CASE UNCHANGED planVars \/ (\E s \in Steps : Expire(s)) \/ (\E s \in TaskSteps : LinkTask(s))
  BY <1>3 DEF planVars, Expire, LinkTask, KeyExclusive, Is
<1>4. QED BY <1>1, <1>2, <1>3 DEF PlanStep

\* A step that has ended is left alone.
LEMMA EndedStep ==
    ASSUME PlanTyped, ExpiredRun, PlanStep, NEW r \in Steps, step[r].status \in Ended
    PROVE  step'[r] = step[r]
<1>1. r \notin expired
  BY DEF ExpiredRun, Is, Ended
<1>2. ASSUME NEW s \in Steps, ClaimStep(s) PROVE step'[r] = step[r]
  BY <1>1, <1>2, ClaimEffect DEF Ended, ClaimStep, MayClaim, Claimable, Is
<1>3. ASSUME NEW s \in Steps, NEW state \in Ended, NEW output \in 0..MaxAttempts,
             EndStep(s, state, output)
      PROVE  step'[r] = step[r]
  BY <1>3, EndEffect DEF Ended
<1>4. CASE UNCHANGED planVars \/ (\E s \in Steps : Expire(s)) \/ (\E s \in TaskSteps : LinkTask(s))
  BY <1>4 DEF planVars, Expire, LinkTask
<1>5. QED BY <1>2, <1>3, <1>4 DEF PlanStep

LEMMA DependenciesStep ==
    ASSUME PlanTyped, ExpiredRun, DependenciesDone, PlanStep
    PROVE  DependenciesDone'
<1>1. \A d \in Steps : step[d].status = "completed" => step'[d].status = "completed"
  BY EndedStep DEF Ended
<1>2. ASSUME NEW r \in Steps, step'[r].status # "pending" PROVE DepsDone(r)
  <2>1. ASSUME NEW s \in Steps, ClaimStep(s) PROVE DepsDone(r)
    <3>1. CASE r = s
      BY <2>1, <3>1 DEF ClaimStep, MayClaim, Claimable
    <3>2. CASE r # s
      <4>1. step[r].status # "pending"
        BY <1>2, <2>1, <3>2, ClaimEffect
      <4>2. QED BY <4>1 DEF DependenciesDone, Is
    <3>3. QED BY <3>1, <3>2
  <2>2. ASSUME NEW s \in Steps, NEW state \in Ended, NEW output \in 0..MaxAttempts,
               EndStep(s, state, output)
        PROVE  DepsDone(r)
    <3>1. step[r].status # "pending"
      BY <1>2, <2>2, EndEffect
    <3>2. QED BY <3>1 DEF DependenciesDone, Is
  <2>3. CASE UNCHANGED planVars \/ (\E s \in Steps : Expire(s)) \/ (\E s \in TaskSteps : LinkTask(s))
    BY <1>2, <2>3 DEF planVars, Expire, LinkTask, DependenciesDone, Is
  <2>4. QED BY <2>1, <2>2, <2>3 DEF PlanStep
<1>3. \A r \in Steps : DependsOn[r] \subseteq Steps
  BY PlanAssumption
<1>4. QED BY <1>1, <1>2, <1>3 DEF DependenciesDone, DepsDone, Is

\* attemptCount never goes back.
LEMMA AttemptsGrow ==
    ASSUME PlanTyped, PlanStep, NEW r \in Steps
    PROVE  step'[r].attempts >= step[r].attempts
<1>0. step[r].attempts \in Nat
  BY DEF PlanTyped
<1>1. ASSUME NEW s \in Steps, ClaimStep(s)
      PROVE  step'[r].attempts \in {step[r].attempts, step[r].attempts + 1}
  BY <1>1, ClaimEffect
<1>2. ASSUME NEW s \in Steps, NEW state \in Ended, NEW output \in 0..MaxAttempts,
             EndStep(s, state, output)
      PROVE  step'[r].attempts = step[r].attempts
  BY <1>2, EndEffect
<1>3. CASE UNCHANGED planVars \/ (\E s \in Steps : Expire(s)) \/ (\E s \in TaskSteps : LinkTask(s))
  BY <1>0, <1>3 DEF planVars, Expire, LinkTask
<1>4. QED BY <1>0, <1>1, <1>2, <1>3 DEF PlanStep

-----------------------------------------------------------------------------
(* The reads *)

\* What a step leaves of the reads other than j.
Stays(j) == \A i \in Jobs \ {j} : Reading(i)' => Reading(i) /\ attempt'[i] = attempt[i]

\* A step of one read leaves the others alone, and starts its own read only when
\* it has claimed the step.
LEMMA JobEffect ==
    ASSUME CallsTyped, NEW j \in Jobs, Job(j)
    PROVE  /\ Stays(j)
           /\ \/ Reading(j)' => Reading(j) /\ attempt'[j] = attempt[j]
              \/ ClaimStep(j[2]) /\ attempt'[j] = step'[j[2]].attempts
<1> USE DEF CallsTyped, Stays, Reading, Move
<1>1. CASE EnterGate(j) \/ ReadFails(j) \/ LeaveGate(j)
  BY <1>1 DEF EnterGate, ReadFails, LeaveGate
<1>2. CASE Claim(j)
  BY <1>2 DEF Claim
<1>3. CASE Complete(j) \/ Fail(j)
  BY <1>3 DEF Complete, Fail
<1>4. QED BY <1>1, <1>2, <1>3 DEF Job

LEMMA OtherEffect ==
    ASSUME CallsTyped, GateTypeOK, [Next]_vars, ~ \E j \in Jobs : Job(j)
    PROVE  \A j \in Jobs : Reading(j)' => Reading(j) /\ attempt'[j] = attempt[j]
<1> USE DEF CallsTyped, Reading
<1>1. CASE \E s \in Steps : LeaseExpires(s) \/ ClaimTask(s) \/ AttachTask(s)
  BY <1>1 DEF LeaseExpires, ClaimTask, AttachTask, jobVars
<1>2. CASE \E s \in Steps, state \in StepStates : CompleteTaskStep(s, state)
  BY <1>2 DEF CompleteTaskStep, jobVars
<1>3. CASE \E c \in Calls : StartCall(c) \/ Return(c)
  BY <1>3 DEF StartCall, Return
<1>4. CASE \E c \in Calls : StartPartition(c)
  BY <1>4 DEF StartPartition
<1>5. CASE PassGate
  BY <1>5 DEF PassGate, Move
<1>6. CASE Crash
  BY <1>6 DEF Crash
<1>7. CASE \E j \in Jobs : Hang(j)
  BY <1>7 DEF Hang, Move
<1>8. CASE UNCHANGED vars
  BY <1>8 DEF vars, jobVars
<1>9. QED BY <1>1, <1>2, <1>3, <1>4, <1>5, <1>6, <1>7, <1>8 DEF Next, CallStep

LEMMA ReadsStep ==
    ASSUME PlanTyped, PlanTyped', CallsTyped, CallsTyped', GateTypeOK, PlanStep,
           AttemptsSeen, OneReadPerAttempt, [Next]_vars
    PROVE  AttemptsSeen' /\ OneReadPerAttempt'
<1> DEFINE n(s) == step[s].attempts
<1>1. \A j \in Jobs : j[2] \in Steps /\ attempt[j] \in Nat /\ attempt'[j] \in Nat
  BY PlanAssumption DEF Jobs, CallsTyped
<1>2. \A s \in Steps : n(s) \in Nat /\ n(s)' \in Nat /\ n(s)' >= n(s)
  BY AttemptsGrow DEF PlanTyped
<1>3. \A i \in Jobs : Reading(i) => attempt[i] <= n(i[2])
  BY DEF AttemptsSeen
<1>4. \A i, k \in Jobs : Reading(i) /\ Reading(k) /\ i[2] = k[2] /\ attempt[i] = attempt[k] => i = k
  BY DEF OneReadPerAttempt, Reading
<1> HIDE DEF n
<1>5. CASE \A i \in Jobs : Reading(i)' => Reading(i) /\ attempt'[i] = attempt[i]
  <2>1. \A i \in Jobs : Reading(i)' => attempt'[i] <= n(i[2])'
    BY ONLY <1>1, <1>2, <1>3, <1>5
  <2>2. \A i, k \in Jobs : Reading(i)' /\ Reading(k)' /\ i[2] = k[2] /\ attempt'[i] = attempt'[k] => i = k
    BY ONLY <1>4, <1>5
  <2>3. QED BY ONLY <2>1, <2>2 DEF AttemptsSeen, OneReadPerAttempt, Reading, n
<1>6. ASSUME NEW j \in Jobs, Stays(j), ClaimStep(j[2]), attempt'[j] = n(j[2])'
      PROVE  AttemptsSeen' /\ OneReadPerAttempt'
  <2>1. n(j[2])' = n(j[2]) + 1
    BY <1>1, <1>6, ClaimEffect DEF n
  <2>2. \A i \in Jobs \ {j} : Reading(i)' => Reading(i) /\ attempt'[i] = attempt[i]
    BY <1>6 DEF Stays
  <2>3. \A i \in Jobs \ {j} : Reading(i)' => attempt'[i] <= n(i[2])
    BY ONLY <1>3, <2>2
  <2>4. \A i \in Jobs \ {j} : Reading(i)' /\ i[2] = j[2] => attempt'[i] # attempt'[j]
    BY ONLY <1>1, <1>2, <1>6, <2>1, <2>3
  <2>5. \A i \in Jobs : Reading(i)' => attempt'[i] <= n(i[2])'
    BY ONLY <1>1, <1>2, <1>6, <2>3
  <2>6. \A i, k \in Jobs : Reading(i)' /\ Reading(k)' /\ i[2] = k[2] /\ attempt'[i] = attempt'[k] => i = k
    BY ONLY <1>4, <2>2, <2>4
  <2>7. QED BY ONLY <2>5, <2>6 DEF AttemptsSeen, OneReadPerAttempt, Reading, n
<1>7. CASE \E j \in Jobs : Job(j)
  <2>1. PICK j \in Jobs : Job(j)
    BY <1>7
  <2>2. CASE ClaimStep(j[2]) /\ attempt'[j] = step'[j[2]].attempts
    BY <1>6, <2>1, <2>2, JobEffect DEF n
  <2>3. CASE Reading(j)' => Reading(j) /\ attempt'[j] = attempt[j]
    BY <1>5, <2>1, <2>3, JobEffect DEF Stays
  <2>4. QED BY <2>1, <2>2, <2>3, JobEffect
<1>8. QED BY <1>5, <1>7, OtherEffect

-----------------------------------------------------------------------------
(* The calls *)

LEMMA CallsTypeStep ==
    ASSUME GateTypeOK, PlanTyped, PlanTyped', CallsTyped, [Next]_vars
    PROVE  CallsTyped'
<1> USE DEF CallsTyped
<1>0. 0 \in 0..MaxAttempts
  BY PlanAssumption
<1>1. ASSUME NEW j \in Jobs, Job(j) PROVE CallsTyped'
  <2>0. j[1] \in Calls /\ j[2] \in Steps
    BY DEF Jobs
  <2>1. CASE EnterGate(j) \/ ReadFails(j) \/ LeaveGate(j)
    BY <1>0, <2>1 DEF EnterGate, ReadFails, LeaveGate, Move, JobStates
  <2>2. CASE Claim(j)
    <3>1. step'[j[2]].attempts \in 0..MaxAttempts
      BY <2>0 DEF PlanTyped
    <3>2. QED BY <2>2, <3>1 DEF Claim, Move, JobStates
  <2>3. CASE Complete(j) \/ Fail(j)
    BY <2>0, <2>3 DEF Complete, Fail, Move, JobStates
  <2>4. QED BY <1>1, <2>1, <2>2, <2>3 DEF Job
<1>2. CASE \E s \in Steps : LeaseExpires(s) \/ ClaimTask(s) \/ AttachTask(s)
  BY <1>2 DEF LeaseExpires, ClaimTask, AttachTask, jobVars
<1>3. CASE \E s \in Steps, state \in StepStates : CompleteTaskStep(s, state)
  BY <1>3 DEF CompleteTaskStep, jobVars
<1>4. CASE \E c \in Calls : StartCall(c)
  BY <1>4 DEF StartCall
<1>5. CASE \E c \in Calls : Return(c)
  BY <1>5 DEF Return
<1>6. CASE \E c \in Calls : StartPartition(c)
  BY <1>6 DEF StartPartition, JobStates
<1>7. CASE PassGate
  BY <1>7 DEF PassGate, Move, JobStates
<1>8. CASE Crash
  <2>1. crashes' \in 0..MaxCrashes
    BY <1>8, PlanAssumption DEF Crash
  <2>2. QED BY <1>0, <1>8, <2>1 DEF Crash, JobStates
<1>9. CASE \E j \in Jobs : Hang(j)
  BY <1>0, <1>9 DEF Hang, Move, JobStates
<1>10. CASE UNCHANGED vars
  BY <1>10 DEF vars, jobVars
<1>11. QED BY <1>1, <1>2, <1>3, <1>4, <1>5, <1>6, <1>7, <1>8, <1>9, <1>10 DEF Next, CallStep

-----------------------------------------------------------------------------
(* The invariant *)

LEMMA InitPlan == Init => IInv
<1> SUFFICES ASSUME Init PROVE IInv
  OBVIOUS
<1> USE PlanAssumption DEF Init
<1>1. GateInv
  BY InitGate
<1>2. NoLostWakeup
  BY DEF GateInit, NoLostWakeup
<1>3. PlanTyped /\ CallsTyped
  BY DEF PlanTyped, CallsTyped, StepStates, JobStates
<1>4. \A s \in Steps : step[s].status = "pending"
  OBVIOUS
<1>5. ExpiredRun /\ KeyExclusive /\ DependenciesDone
  BY <1>4 DEF ExpiredRun, KeyExclusive, DependenciesDone, Is
<1>6. \A j \in Jobs : ~ Reading(j)
  BY DEF Reading
<1>7. AttemptsSeen /\ OneReadPerAttempt
  BY <1>6 DEF AttemptsSeen, OneReadPerAttempt, Reading
<1>8. QED BY <1>1, <1>2, <1>3, <1>5, <1>7 DEF IInv, PlanInv

\* A restart leaves the gate as it was at first.
LEMMA GateAgain == GateInit' => GateInv' /\ NoLostWakeup'
<1>1. GateInit => GateInv /\ NoLostWakeup
  BY InitGate DEF GateInit, NoLostWakeup
<1>2. QED BY <1>1, PTL

LEMMA StepPlan == IInv /\ [Next]_vars => IInv'
<1> SUFFICES ASSUME IInv, [Next]_vars PROVE IInv'
  OBVIOUS
<1> USE DEF IInv
<1>1. GateInv' /\ NoLostWakeup'
  BY GatePart, GateStep, WakeupStep, GateAgain
<1>2. GateTypeOK
  BY DEF GateInv
<1>3. PlanStep
  BY PlanPart DEF PlanInv
<1>4. PlanTyped' /\ ExpiredRun' /\ KeyExclusive' /\ DependenciesDone'
  BY <1>3, PlanTypeStep, ExpiredRunStep, KeyStep, DependenciesStep DEF PlanInv
<1>5. CallsTyped'
  BY <1>2, <1>4, CallsTypeStep DEF PlanInv
<1>6. AttemptsSeen' /\ OneReadPerAttempt'
  BY <1>2, <1>3, <1>4, <1>5, ReadsStep DEF PlanInv
<1>7. QED BY <1>1, <1>4, <1>5, <1>6 DEF PlanInv

LEMMA PlanInvariant == Spec => []IInv
  BY InitPlan, StepPlan, PTL DEF Spec

-----------------------------------------------------------------------------
(* Theorems *)

\* The state of plan, calls and gate stays in its types.
THEOREM PlanTyping == Spec => []PlanTypeOK
<1>1. IInv => PlanTypeOK
  BY DEF IInv, PlanInv, GateInv, PlanTypeOK, PlanTyped, CallsTyped
<1>2. QED BY <1>1, PlanInvariant, PTL

\* The counter of the gate is the number of reads that run, through failures,
\* late completions and restarts, for every limit.
THEOREM SlotsCounted == Spec => []CountIsInside
<1>1. IInv => CountIsInside
  BY DEF IInv, GateInv, Counted
<1>2. QED BY <1>1, PlanInvariant, PTL

\* While a call waits at the gate, the slots are taken or promised.
THEOREM NobodyForgotten == Spec => []NoLostWakeup
<1>1. IInv => NoLostWakeup
  BY DEF IInv
<1>2. QED BY <1>1, PlanInvariant, PTL

\* No two steps of a plan hold a lease under the same concurrencyKey.
THEOREM KeysExclude == Spec => []KeyExclusive
<1>1. IInv => KeyExclusive
  BY DEF IInv, PlanInv
<1>2. QED BY <1>1, PlanInvariant, PTL

\* A step runs, and ends, only after all it depends on is complete.
THEOREM DependenciesFirst == Spec => []DependenciesDone
<1>1. IInv => DependenciesDone
  BY DEF IInv, PlanInv
<1>2. QED BY <1>1, PlanInvariant, PTL

\* Two reads in progress never belong to the same attempt of a step.
THEOREM AttemptsDiffer == Spec => []OneReadPerAttempt
<1>1. IInv => OneReadPerAttempt
  BY DEF IInv, PlanInv
<1>2. QED BY <1>1, PlanInvariant, PTL

\* What a step has ended with is never overwritten.
THEOREM EndsStand == Spec => EndedStays
<1>1. IInv /\ [Next]_vars =>
         [\A s \in Steps : step[s].status \in {"completed", "failed"} => step'[s] = step[s]]_vars
  <2> SUFFICES ASSUME IInv, [Next]_vars, NEW s \in Steps, step[s].status \in Ended
               PROVE  step'[s] = step[s]
    BY DEF Ended
  <2>1. PlanStep
    BY PlanPart DEF IInv, PlanInv
  <2>2. QED BY <2>1, EndedStep DEF IInv, PlanInv
<1>2. QED BY <1>1, PlanInvariant, PTL DEF Spec, EndedStays
=============================================================================
