----------------------------- MODULE TaskBilling -----------------------------
(***************************************************************************)
(* A task in both services: its points at billing-service and its run at   *)
(* generation-service, with what they tell each other.  Billing sends the  *)
(* events of its outbox (OutboxPublisher, at least once, each on its own:  *)
(* publishPending goes on after a failure); generation reports the outcome *)
(* with one POST that may be lost (notify_billing).                        *)
(*                                                                         *)
(* Billing's part of a task is its Holds; PointService shows what keeps    *)
(* them, transactions on accounts and a ledger (ImplementsHolds).          *)
(***************************************************************************)
EXTENDS GenerationTask

VARIABLES hold, due, outbox   \* as in Holds

B == INSTANCE Holds

billVars == <<hold, due, outbox>>
tbVars   == <<genVars, billVars>>

Event(type, t) == [type |-> type, task |-> t]
EndEvents == {"cancelled", "expired"}

TBInit ==
    /\ Init
    /\ B!Init

-----------------------------------------------------------------------------
(* billing-service *)

Freeze(t) == B!Freeze(t) /\ UNCHANGED genVars

\* Mutant of Report: the status is not asked for.
ReportAlways(t, type, end) ==
    /\ Event(type, t) \in calls
    /\ calls' = calls \ {Event(type, t)}
    /\ hold' = [hold EXCEPT ![t] = end]
    /\ UNCHANGED <<task, worker, retries, crashes, due, outbox>>

\* settle() and unfreezeFail() for the calls of notify_billing; a task that is
\* no longer pending is left alone, with a warning or an error nobody reads.
Report(t, type, end) ==
    /\ Event(type, t) \in calls
    /\ calls' = calls \ {Event(type, t)}
    /\ IF hold[t] = "pending" THEN B!Close(t, end) ELSE UNCHANGED billVars
    /\ UNCHANGED <<task, worker, retries, crashes>>

Settle(t) == Report(t, "settle", "settled")

\* Mutant of Refund: a failed task is charged too.
ChargeFailed(t) == Report(t, "fail", "settled")

Refund(t) == Report(t, "fail", "refunded")

\* cancel() and unfreezeTimeout() ask whether the task is pending, not whether
\* it is queued or running.
UserCancel(t) == B!Cancel(t) /\ UNCHANGED genVars

\* Mutant of Timeout: a task that runs does not time out.
TimeoutQueued(t) ==
    status[t] \in {"absent", "queued"} /\ B!Timeout(t) /\ UNCHANGED genVars

Timeout(t) == B!Timeout(t) /\ UNCHANGED genVars

DeadlinePasses(t) == B!DeadlinePasses(t) /\ UNCHANGED genVars

-----------------------------------------------------------------------------
(* OutboxPublisher.directDispatch *)

\* An event whose call failed, or whose mark was lost, is sent again.
Sent(event) == \E done \in {{}, {event}} : outbox' = outbox \ done

\* Mutant of PublishCreated: an event sent again is dispatched again.
PublishAgain(t) ==
    /\ Event("created", t) \in outbox
    /\ IF status[t] = "absent" THEN Create(t)
       ELSE /\ jobs' = [jobs EXCEPT ![t] = 1]
            /\ UNCHANGED <<status, attempts, node, worker, calls, retries, crashes>>
    /\ Sent(Event("created", t))
    /\ UNCHANGED <<hold, due>>

PublishCreated(t) ==
    /\ Event("created", t) \in outbox
    /\ IF status[t] = "absent" THEN Create(t) ELSE UNCHANGED genVars
    /\ Sent(Event("created", t))
    /\ UNCHANGED <<hold, due>>

\* cancelTask, for both ends: the handler reads an active task ...
PublishEnd(w, t, end) ==
    /\ Event(end, t) \in outbox
    /\ CancelRead(w, t)
    /\ UNCHANGED billVars

\* Mutant of Publish: the event is marked before the handler has answered.
PublishBlindly(t, end) ==
    /\ Event(end, t) \in outbox
    /\ outbox' = outbox \ {Event(end, t)}
    /\ UNCHANGED <<genVars, hold, due>>

\* ... or none, and answers 200 at once.  The mark that follows an answer asks for
\* nothing and nobody else looks at the row meanwhile, so they are one step.
Publish(t, end) ==
    /\ Event(end, t) \in outbox
    /\ status[t] \notin Active
    /\ outbox' = outbox \ {Event(end, t)}
    /\ UNCHANGED <<genVars, hold, due>>

\* A handler that has written the end answers after its last call, whatever the
\* status is by then.  (That the answer or the mark is lost is a step of Run.)
Answer(w, t, end) ==
    /\ Event(end, t) \in outbox
    /\ worker[w].task = t /\ worker[w].said = "cancelled" /\ worker[w].todo = <<"agent">>
    /\ NotifyAgent(w)
    /\ outbox' = outbox \ {Event(end, t)}
    /\ UNCHANGED <<hold, due>>

-----------------------------------------------------------------------------
Billing(t) ==
    \/ Freeze(t) \/ Settle(t) \/ Refund(t) \/ UserCancel(t) \/ Timeout(t)
    \/ DeadlinePasses(t) \/ PublishCreated(t)
    \/ \E end \in EndEvents :
          \/ Publish(t, end)
          \/ \E w \in Workers : PublishEnd(w, t, end) \/ Answer(w, t, end)

\* No service calls /internal/tasks/{id}/expire.
Generation ==
    /\ \/ \E t \in Tasks : LoseJob(t)
       \/ \E w \in Workers :
             \/ Run(w) \/ EndWrite(w) \/ RetryWrite(w) \/ Crash(w)
             \/ \E t \in Tasks : Claim(w, t) \/ RetryRead(w, t)
    /\ UNCHANGED billVars

TBNext == (\E t \in Tasks : Billing(t)) \/ Generation

TBSpec == TBInit /\ [][TBNext]_tbVars

\* The two @Scheduled threads keep running, and a process that is up goes on
\* with its work; the deadline passes.  A user need not cancel or retry, a
\* report need not arrive.
TBFairness ==
    /\ \A t \in Tasks :
          /\ WF_tbVars(DeadlinePasses(t) \/ Timeout(t))
          /\ WF_tbVars(PublishCreated(t))
          /\ \A end \in EndEvents :
                SF_tbVars(Publish(t, end) \/ \E w \in Workers : PublishEnd(w, t, end))
    /\ \A w \in Workers :
          WF_tbVars((Run(w) \/ EndWrite(w) \/ RetryWrite(w)) /\ UNCHANGED billVars)

TBFairSpec == TBSpec /\ TBFairness

-----------------------------------------------------------------------------
(* Properties *)

TBTypeOK ==
    /\ TypeOK
    /\ hold \in [Tasks -> {"none", "pending", "settled", "refunded", "cancelled", "expired"}]
    /\ due \subseteq Tasks
    /\ outbox \subseteq [type : {"created"} \cup EndEvents, task : Tasks]

\* Points are charged only if an execution of the task succeeded, whatever is
\* cancelled, timed out, lost or retried on the way (execute_task: commit, then
\* settle).  That it delivered anything does not follow: see Succeed.
ChargedForSuccess == \A t \in Tasks : hold[t] = "settled" => attempts[t] > 0

\* Billing has the last word: a charged task stays succeeded, although cancel
\* and the deadline may overtake the settlement.
ChargedIsSucceeded ==
    \A t \in Tasks : hold[t] = "settled" /\ retries = 0 => status[t] = "succeeded"

\* A refund reported by generation is for a task that did fail, and of which no
\* execution succeeded, as long as nobody retries it.
RefundedHasFailed ==
    \A t \in Tasks : hold[t] = "refunded" /\ retries = 0
        => status[t] = "failed" /\ attempts[t] = 0

\* Points do not stay frozen, whatever crashes and whichever call is lost.
EveryHoldEnds == \A t \in Tasks : hold[t] = "pending" ~> hold[t] # "pending"

\* A handler has written the end of t and not answered yet.
Handled(t) ==
    \E w \in Workers :
        worker[w].task = t /\ worker[w].said = "cancelled" /\ worker[w].pc = "notify"

\* An end that billing has announced is written, although the process that
\* handles it may crash: until one has, the event is not marked.  It is written
\* once: an execution that read "queued" before may write "running" after it, and
\* the event is marked all the same, hence the handlers set apart here.
EndIsCarriedOut ==
    \A t \in Tasks :
        (/\ status[t] \in Active /\ ~ Handled(t)
         /\ \E end \in EndEvents : Event(end, t) \in outbox)
            ~> status[t] \notin Active
=============================================================================
