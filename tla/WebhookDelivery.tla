--------------------------- MODULE WebhookDelivery --------------------------
(***************************************************************************)
(* Delivery of webhooks: WebhookWorker.processEvent fans an event out into *)
(* one delivery task per active subscription, processDelivery posts a task *)
(* to its subscription's URL, handleDeliveryRetry retries it or archives   *)
(* it in the dead-letter table, and administrators replay archived rows.   *)
(*                                                                         *)
(* Events and tasks are messages of JetStream consumers with explicit acks *)
(* and the same MaxDeliver.  A copy prefetched by a process is modelled as *)
(* a handler that has taken it and not started.  Every subscription        *)
(* listens to every event (MatchesAny is a filter on the list); private    *)
(* payloads are acked and dropped before fan-out and are left out.  The    *)
(* circuit breaker (module Breaker) appears here as a refusal that may     *)
(* happen at any call.                                                     *)
(***************************************************************************)
EXTENDS Integers, FiniteSets

CONSTANTS Procs,       \* concurrent handlers of each consumer
          Events,      \* events in the WEBHOOKS / INBOUND streams
          Subs,        \* webhook subscriptions of the workspace
          Nobody,      \* "no message", for an idle handler
          MaxEventDeliver,  \* MaxDeliver of the event consumers
          MaxDeliver,  \* MaxDeliver of the delivery consumer
          MaxTasks,    \* bound of the model: tasks published
          MaxAdmin,    \* bound of the model: administrators' operations
          MaxCrash     \* bound of the model: process restarts

TaskIds  == 1 .. MaxTasks
Messages == Events \cup TaskIds

ASSUME WebhookAssumption ==
  /\ Events \cap Int = {}
  /\ Nobody \notin Messages \cup Subs
  /\ MaxEventDeliver \in Nat \ {0}
  /\ MaxDeliver \in Nat \ {0}
  /\ MaxTasks \in Nat
  /\ MaxAdmin \in Nat
  /\ MaxCrash \in Nat

VARIABLES
  sub,      \* sub[s]: "active", "inactive" or "deleted"
  queue,    \* queue[m]: message m as its consumer sees it
  num,      \* num[m]: deliveries of m so far
  task,     \* task[k]: event and subscription of task k (k <= tasks)
  tasks,    \* tasks published so far; ids are fresh
  fan,      \* fan[p]: p's call of processEvent
  work,     \* work[p]: p's call of processDelivery
  rows,     \* rows[k]: rows of webhook_dlqs archived for task k
  admin,    \* the retry of a row under way: its task, or Nobody
  posted,   \* pairs <<event, subscription>> the endpoint took
  steady,   \* steady[e]: subscriptions active ever since e was published
  dropped,  \* pairs whose row an administrator deleted
  ops,      \* administrators' operations so far
  crashes   \* restarts so far

vars == <<sub, queue, num, task, tasks, fan, work, rows, admin, posted, steady,
          dropped, ops, crashes>>

history == <<posted, steady, dropped>>
broker  == <<queue, num, task, tasks>>

Pair(k) == <<task[k].event, task[k].sub>>

Fan(at, e, todo)   == [at |-> at, event |-> e, todo |-> todo]
Work(at, k, n)     == [at |-> at, task |-> k, n |-> n]
NoFan  == Fan("idle", Nobody, {})
NoWork == Work("idle", Nobody, 0)

Init ==
  /\ sub = [s \in Subs |-> "active"]
  /\ queue = [m \in Messages |-> IF m \in Events THEN "ready" ELSE "none"]
  /\ num = [m \in Messages |-> 0]
  /\ task = [k \in TaskIds |-> [event |-> Nobody, sub |-> Nobody]]
  /\ tasks = 0
  /\ fan = [p \in Procs |-> NoFan]
  /\ work = [p \in Procs |-> NoWork]
  /\ rows = [k \in TaskIds |-> 0]
  /\ admin = Nobody
  /\ posted = {}
  /\ steady = [e \in Events |-> Subs]
  /\ dropped = {}
  /\ ops = 0
  /\ crashes = 0

-----------------------------------------------------------------------------
(* The broker.                                                             *)

\* MaxDeliver of m's consumer.
Limit(m) == IF m \in Events THEN MaxEventDeliver ELSE MaxDeliver

\* A delivery of m.
Delivered(m) ==
  /\ queue[m] = "ready"
  /\ num[m] < Limit(m)
  /\ queue' = [queue EXCEPT ![m] = "pending"]
  /\ num' = [num EXCEPT ![m] = @ + 1]
  /\ UNCHANGED <<task, tasks>>

\* AckWait runs out.
AckWait(m) ==
  /\ queue[m] = "pending"
  /\ queue' = [queue EXCEPT ![m] = "ready"]
  /\ UNCHANGED <<sub, num, task, tasks, fan, work, rows, admin, history, ops, crashes>>

\* msg.Ack and msg.NakWithDelay; either may be lost, and a nak does nothing
\* to a message another delivery acked.
Acked(m) == {queue, [queue EXCEPT ![m] = "acked"]}
Naked(m) == {queue} \cup IF queue[m] = "acked" THEN {}
                         ELSE {[queue EXCEPT ![m] = "ready"]}

\* Publish a task under a fresh id (uuid.New is also the Nats-Msg-Id).
Publish(e, s) ==
  /\ tasks < MaxTasks
  /\ tasks' = tasks + 1
  /\ task' = [task EXCEPT ![tasks + 1] = [event |-> e, sub |-> s]]
  /\ queue' = [queue EXCEPT ![tasks + 1] = "ready"]
  /\ UNCHANGED num

-----------------------------------------------------------------------------
(* processEvent.                                                           *)

TakeEvent(p, e) ==
  /\ fan[p].at = "idle"
  /\ Delivered(e)
  /\ fan' = [fan EXCEPT ![p] = Fan("list", e, {})]
  /\ UNCHANGED <<sub, work, rows, admin, history, ops, crashes>>

\* NakWithDelay and return.
GiveUpEvent(p) ==
  /\ queue' \in Naked(fan[p].event)
  /\ fan' = [fan EXCEPT ![p] = NoFan]
  /\ UNCHANGED <<num, task, tasks>>

\* ListByWorkspace and the Active filter; a database error naks.
ListSubs(p) ==
  /\ fan[p].at = "list"
  /\ \/ /\ fan' = [fan EXCEPT ![p] = Fan("fan", @.event, {s \in Subs : sub[s] = "active"})]
        /\ UNCHANGED broker
     \/ GiveUpEvent(p)
  /\ UNCHANGED <<sub, work, rows, admin, history, ops, crashes>>

\* Mutant of FanOut: a publish error is logged and the loop goes on.
FanOutSkipsErrors(p, s) ==
  /\ fan[p].at = "fan"
  /\ s \in fan[p].todo
  /\ fan' = [fan EXCEPT ![p] = Fan("fan", @.event, @.todo \ {s})]
  /\ Publish(fan[p].event, s) \/ UNCHANGED broker
  /\ UNCHANGED <<sub, work, rows, admin, history, ops, crashes>>

\* One iteration of the loop over the subscriptions.
FanOut(p, s) ==
  /\ fan[p].at = "fan"
  /\ s \in fan[p].todo
  /\ \/ /\ Publish(fan[p].event, s)
        /\ fan' = [fan EXCEPT ![p] = Fan("fan", @.event, @.todo \ {s})]
     \/ GiveUpEvent(p)
  /\ UNCHANGED <<sub, work, rows, admin, history, ops, crashes>>

AckEvent(p) ==
  /\ fan[p].at = "fan"
  /\ fan[p].todo = {}
  /\ queue' \in Acked(fan[p].event)
  /\ fan' = [fan EXCEPT ![p] = NoFan]
  /\ UNCHANGED <<sub, num, task, tasks, work, rows, admin, history, ops, crashes>>

-----------------------------------------------------------------------------
(* processDelivery, Dispatch and handleDeliveryRetry.                      *)

TakeTask(p, k) ==
  /\ work[p].at = "idle"
  /\ Delivered(k)
  /\ work' = [work EXCEPT ![p] = Work("check", k, num[k] + 1)]
  /\ UNCHANGED <<sub, fan, rows, admin, history, ops, crashes>>

WorkOn(p, label) == work' = [work EXCEPT ![p] = Work(label, @.task, @.n)]

\* Dispatch up to the HTTP call: the subscription is gone or switched off
\* (terminal), the database or the circuit breaker refuses (retry), or go on.
Check(p) ==
  LET s == task[work[p].task].sub IN
  /\ work[p].at = "check"
  /\ \/ sub[s] # "active" /\ WorkOn(p, "archive")
     \/ sub[s] = "active" /\ WorkOn(p, "post")
     \/ WorkOn(p, "retry")
  /\ UNCHANGED <<sub, broker, fan, rows, admin, history, ops, crashes>>

\* The HTTP call: 2xx; 400, 401, 403 or 404; or anything else, in which case
\* the endpoint may have taken the event all the same.
Post(p) ==
  LET k == work[p].task IN
  /\ work[p].at = "post"
  /\ \/ WorkOn(p, "done") /\ posted' = posted \cup {Pair(k)}
     \/ WorkOn(p, "archive") /\ UNCHANGED posted
     \/ WorkOn(p, "retry") /\ posted' \in {posted, posted \cup {Pair(k)}}
  /\ UNCHANGED <<sub, broker, fan, rows, admin, steady, dropped, ops, crashes>>

\* NakWithDelay and return.
GiveUpTask(p) ==
  /\ queue' \in Naked(work[p].task)
  /\ work' = [work EXCEPT ![p] = NoWork]
  /\ UNCHANGED <<num, task, tasks>>

\* handleDeliveryRetry for an error that is not terminal.
Retry(p) ==
  /\ work[p].at = "retry"
  /\ IF work[p].n >= MaxDeliver
     THEN WorkOn(p, "archive") /\ UNCHANGED broker
     ELSE GiveUpTask(p)
  /\ UNCHANGED <<sub, fan, rows, admin, history, ops, crashes>>

\* Mutant of Archive: a failed WriteToDLQ is tried again at once, for ever.
ArchiveLoops(p) ==
  LET k == work[p].task IN
  /\ work[p].at = "archive"
  /\ sub[task[k].sub] # "deleted"
  /\ rows' = [rows EXCEPT ![k] = @ + 1]
  /\ WorkOn(p, "done")
  /\ UNCHANGED <<sub, broker, fan, admin, history, ops, crashes>>

\* WriteToDLQ: fails when the subscription is deleted or the database errs.
Archive(p) ==
  LET k == work[p].task IN
  /\ work[p].at = "archive"
  /\ \/ /\ sub[task[k].sub] # "deleted"
        /\ rows' = [rows EXCEPT ![k] = @ + 1]
        /\ WorkOn(p, "done")
        /\ UNCHANGED broker
     \/ GiveUpTask(p) /\ UNCHANGED rows
  /\ UNCHANGED <<sub, fan, admin, history, ops, crashes>>

\* Delivered or archived: ack.
AckTask(p) ==
  /\ work[p].at = "done"
  /\ queue' \in Acked(work[p].task)
  /\ work' = [work EXCEPT ![p] = NoWork]
  /\ UNCHANGED <<sub, num, task, tasks, fan, rows, admin, history, ops, crashes>>

\* The process of handler p restarts.
Crash(p) ==
  /\ crashes < MaxCrash
  /\ crashes' = crashes + 1
  /\ fan' = [fan EXCEPT ![p] = NoFan]
  /\ work' = [work EXCEPT ![p] = NoWork]
  /\ UNCHANGED <<sub, broker, rows, admin, history, ops>>

-----------------------------------------------------------------------------
(* Administrators.                                                         *)

\* Update: switch a subscription on or off.
Update(s) ==
  /\ ops < MaxAdmin
  /\ sub[s] # "deleted"
  /\ \E a \in {"active", "inactive"} :
       /\ sub' = [sub EXCEPT ![s] = a]
       /\ steady' = [e \in Events |-> IF a = "active" THEN steady[e] ELSE steady[e] \ {s}]
  /\ ops' = ops + 1
  /\ UNCHANGED <<broker, fan, work, rows, admin, posted, dropped, crashes>>

\* Delete: the foreign key cascades to the archived rows.
Delete(s) ==
  /\ ops < MaxAdmin
  /\ sub[s] # "deleted"
  /\ sub' = [sub EXCEPT ![s] = "deleted"]
  /\ steady' = [e \in Events |-> steady[e] \ {s}]
  /\ rows' = [k \in TaskIds |-> IF task[k].sub = s THEN 0 ELSE rows[k]]
  /\ ops' = ops + 1
  /\ UNCHANGED <<broker, fan, work, admin, posted, dropped, crashes>>

\* Mutant of RetryDLQ: the row is deleted before the task is published.
RetryDLQDeletesFirst(k) ==
  /\ ops < MaxAdmin
  /\ admin = Nobody
  /\ rows[k] > 0
  /\ rows' = [rows EXCEPT ![k] = @ - 1]
  /\ Publish(task[k].event, task[k].sub) \/ UNCHANGED broker
  /\ ops' = ops + 1
  /\ UNCHANGED <<sub, fan, work, admin, history, crashes>>

\* Mutant of RetryDLQ: the task is rebuilt without its subscription.
RetryDLQForgetsSub(k) ==
  /\ ops < MaxAdmin
  /\ admin = Nobody
  /\ rows[k] > 0
  /\ Publish(task[k].event, Nobody)
  /\ admin' = k
  /\ ops' = ops + 1
  /\ UNCHANGED <<sub, fan, work, rows, history, crashes>>

\* RetryDLQ and the re-enqueue of handleReplayWebhookDLQ: publish a new task
\* for the row; without an error the row is deleted next.
RetryDLQ(k) ==
  /\ ops < MaxAdmin
  /\ admin = Nobody
  /\ rows[k] > 0
  /\ Publish(task[k].event, task[k].sub)
  /\ admin' = k
  /\ ops' = ops + 1
  /\ UNCHANGED <<sub, fan, work, rows, history, crashes>>

\* The DELETE after the publish; its error is only logged.
FinishRetry ==
  /\ admin # Nobody
  /\ rows' \in {rows, [rows EXCEPT ![admin] = IF @ > 0 THEN @ - 1 ELSE 0]}
  /\ admin' = Nobody
  /\ UNCHANGED <<sub, broker, fan, work, history, ops, crashes>>

\* DeleteDLQ from the admin console.
DeleteDLQ(k) ==
  /\ ops < MaxAdmin
  /\ rows[k] > 0
  /\ rows' = [rows EXCEPT ![k] = @ - 1]
  /\ dropped' = dropped \cup {Pair(k)}
  /\ ops' = ops + 1
  /\ UNCHANGED <<sub, broker, fan, work, admin, posted, steady, crashes>>

\* dispatch_immediate: posts the row's payload and leaves the row.
DispatchImmediate(k) ==
  /\ ops < MaxAdmin
  /\ rows[k] > 0
  /\ posted' = posted \cup {Pair(k)}
  /\ ops' = ops + 1
  /\ UNCHANGED <<sub, broker, fan, work, rows, admin, steady, dropped, crashes>>

-----------------------------------------------------------------------------
ProcessEvent(p) ==
  \/ ListSubs(p)
  \/ \E s \in Subs : FanOut(p, s)
  \/ AckEvent(p)

ProcessDelivery(p) == Check(p) \/ Post(p) \/ Retry(p) \/ Archive(p) \/ AckTask(p)

Next ==
  \/ \E m \in Messages : AckWait(m)
  \/ \E p \in Procs : ProcessEvent(p) \/ ProcessDelivery(p) \/ Crash(p)
  \/ \E p \in Procs, e \in Events : TakeEvent(p, e)
  \/ \E p \in Procs, k \in TaskIds : TakeTask(p, k)
  \/ \E s \in Subs : Update(s) \/ Delete(s)
  \/ FinishRetry
  \/ \E k \in TaskIds : RetryDLQ(k) \/ DeleteDLQ(k) \/ DispatchImmediate(k)

\* Handlers return (their calls have deadlines); the broker delivers and
\* redelivers.
Fairness ==
  /\ \A p \in Procs : WF_vars(ProcessEvent(p)) /\ WF_vars(ProcessDelivery(p))
  /\ \A m \in Messages : WF_vars(AckWait(m))
  /\ \A e \in Events : WF_vars(\E p \in Procs : TakeEvent(p, e))
  /\ \A k \in TaskIds : WF_vars(\E p \in Procs : TakeTask(p, k))

Spec == Init /\ [][Next]_vars
FairSpec == Spec /\ Fairness
-----------------------------------------------------------------------------
(* Properties.                                                             *)

Pairs == Events \X Subs

Tasks == 1 .. tasks

BrokerType ==
  /\ queue \in [Messages -> {"none", "ready", "pending", "acked"}]
  /\ num \in [Messages -> Nat]
  /\ \A m \in Messages : num[m] <= Limit(m)
  /\ tasks \in 0 .. MaxTasks
  /\ task \in [TaskIds -> [event : Events \cup {Nobody}, sub : Subs \cup {Nobody}]]
  /\ \A k \in Tasks : task[k].event \in Events /\ task[k].sub \in Subs
  /\ \A k \in TaskIds : queue[k] = "none" <=> k > tasks
  /\ \A e \in Events : queue[e] # "none"

FanType ==
  /\ fan \in [Procs -> [at : {"idle", "list", "fan"}, event : Events \cup {Nobody},
                        todo : SUBSET Subs]]
  /\ \A p \in Procs : fan[p].at # "idle" => fan[p].event \in Events

WorkType ==
  /\ work \in [Procs -> [at : {"idle", "check", "post", "retry", "archive", "done"},
                         task : TaskIds \cup {Nobody}, n : Nat]]
  /\ \A p \in Procs : work[p].at # "idle" => work[p].task \in Tasks

TableType ==
  /\ sub \in [Subs -> {"active", "inactive", "deleted"}]
  /\ rows \in [TaskIds -> Nat]
  /\ \A k \in TaskIds : k > tasks => rows[k] = 0
  /\ admin \in Tasks \cup {Nobody}

HistoryType ==
  /\ posted \subseteq Pairs
  /\ steady \in [Events -> SUBSET Subs]
  /\ dropped \subseteq Pairs

\* Every variable holds a value of its kind; only published tasks are
\* queued, handled or archived.
TypeOK == BrokerType /\ FanType /\ WorkType /\ TableType /\ HistoryType

\* Once an event is acked, every subscription that was active from the
\* event's publication on has a delivery task for it, whatever failed or was
\* redelivered half-way through the loop (webhook_worker.go processEvent).
EveryActiveTold ==
  \A e \in Events : queue[e] = "acked" =>
    \A s \in steady[e] : \E k \in Tasks : Pair(k) = <<e, s>>

\* An event owed to a subscription never vanishes while the subscription
\* exists: the endpoint took it, or it is archived, or an administrator
\* deleted the archived row, or a task for it is not acked yet.  Retries,
\* duplicates, restarts and replays of archived rows keep it so.
NeverVanishes ==
  \A k \in Tasks :
    sub[task[k].sub] # "deleted" =>
      \/ Pair(k) \in posted \cup dropped
      \/ \E j \in Tasks : Pair(j) = Pair(k) /\ (rows[j] > 0 \/ queue[j] # "acked")

\* No handler holds m and the consumer will not deliver it again.
Settled(m) ==
  /\ queue[m] = "acked" \/ num[m] = Limit(m)
  /\ \A p \in Procs : fan[p].event # m /\ work[p].task # m

\* Every event and every task is settled in the end.
AllSettle == \A m \in Messages : queue[m] = "ready" ~> Settled(m)

\* "If maximum delivery attempts are exhausted, the payload is persisted to
\* the `webhook_dlq` table" (docs/architecture/resilience.md:91): a task out
\* of deliveries that no handler holds was taken by the endpoint, is archived
\* or its row was removed since (here: no administrator acts).
ExhaustedIsArchived ==
  \A k \in Tasks :
    Settled(k) => Pair(k) \in posted \/ rows[k] > 0
=============================================================================
