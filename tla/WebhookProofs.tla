--------------------------- MODULE WebhookProofs ----------------------------
(***************************************************************************)
(* Proofs about WebhookDelivery, for any number of handlers, events,       *)
(* subscriptions, tasks, deliveries, administrators' operations and        *)
(* restarts.  FanInv makes EveryActiveTold inductive, OwedInv makes        *)
(* NeverVanishes inductive.                                                *)
(***************************************************************************)
EXTENDS WebhookDelivery, TLAPS

USE WebhookAssumption

-----------------------------------------------------------------------------
(* What the helpers leave behind.                                          *)

FanLabels  == {"idle", "list", "fan"}
WorkLabels == {"idle", "check", "post", "retry", "archive", "done"}

\* The broker after a step that publishes nothing.
Same == tasks' = tasks /\ task' = task

LEMMA DeliveredType ==
  ASSUME NEW m \in Messages, TypeOK, Delivered(m)
  PROVE  /\ BrokerType' /\ Same
         /\ \A x \in Messages : queue'[x] = "acked" <=> queue[x] = "acked"
<1>1. queue[m] = "ready" /\ num[m] < Limit(m) /\ Same
      /\ queue' = [queue EXCEPT ![m] = "pending"] /\ num' = [num EXCEPT ![m] = @ + 1]
  BY DEF Delivered, Same
<1>2. \A x \in Messages : Limit(x) \in Nat
  BY DEF Limit
<1>3. num' \in [Messages -> Nat] /\ \A x \in Messages : num'[x] <= Limit(x)
  BY <1>1, <1>2 DEF TypeOK, BrokerType
<1>4. /\ queue' \in [Messages -> {"none", "ready", "pending", "acked"}]
      /\ \A x \in Messages : queue'[x] = "none" <=> queue[x] = "none"
      /\ \A x \in Messages : queue'[x] = "acked" <=> queue[x] = "acked"
  BY <1>1 DEF TypeOK, BrokerType
<1> QED
  BY <1>1, <1>3, <1>4 DEF TypeOK, BrokerType, Same, Tasks, Messages, Limit

\* A message that was published stays so; only the state of m may change.
LEMMA AckedType ==
  ASSUME NEW m \in Messages, TypeOK, queue[m] # "none", queue' \in Acked(m) \cup Naked(m),
         UNCHANGED <<num, task, tasks>>
  PROVE  /\ BrokerType' /\ Same
         /\ \A x \in Messages : x # m => queue'[x] = queue[x]
<1>1. /\ queue' \in [Messages -> {"none", "ready", "pending", "acked"}]
      /\ \A x \in Messages : queue'[x] = "none" <=> queue[x] = "none"
      /\ \A x \in Messages : x # m => queue'[x] = queue[x]
  BY DEF Acked, Naked, TypeOK, BrokerType
<1> QED
  BY <1>1 DEF TypeOK, BrokerType, Same, Tasks, Messages, Limit

LEMMA NakedKeeps ==
  ASSUME NEW m \in Messages, TypeOK, queue' \in Naked(m)
  PROVE  \A x \in Messages : queue'[x] = "acked" <=> queue[x] = "acked"
BY DEF Naked, TypeOK, BrokerType

LEMMA PublishType ==
  ASSUME NEW e \in Events, NEW s \in Subs, TypeOK, Publish(e, s)
  PROVE  /\ BrokerType'
         /\ tasks' = tasks + 1 /\ tasks + 1 \in TaskIds
         /\ task'[tasks + 1] = [event |-> e, sub |-> s]
         /\ queue'[tasks + 1] = "ready"
         /\ \A k \in Tasks : task'[k] = task[k]
         /\ \A x \in Messages : x # tasks + 1 => queue'[x] = queue[x]
<1>1. /\ tasks < MaxTasks /\ tasks' = tasks + 1 /\ num' = num
      /\ task' = [task EXCEPT ![tasks + 1] = [event |-> e, sub |-> s]]
      /\ queue' = [queue EXCEPT ![tasks + 1] = "ready"]
  BY DEF Publish
<1>2. tasks \in Nat /\ tasks + 1 \in TaskIds /\ tasks' \in 0 .. MaxTasks
  BY <1>1 DEF TypeOK, BrokerType, TaskIds
<1>3. task' \in [TaskIds -> [event : Events \cup {Nobody}, sub : Subs \cup {Nobody}]]
  BY <1>1, <1>2 DEF TypeOK, BrokerType
<1>4. /\ task'[tasks + 1] = [event |-> e, sub |-> s]
      /\ \A k \in Tasks : task'[k] = task[k]
  BY <1>1, <1>2 DEF TypeOK, BrokerType, Tasks
<1>5. \A k \in 1 .. tasks' : task'[k].event \in Events /\ task'[k].sub \in Subs
  <2>1. \A k \in 1 .. tasks' : k \in Tasks \/ k = tasks + 1
    BY <1>1, <1>2 DEF Tasks
  <2> QED
    BY <2>1, <1>4 DEF TypeOK, BrokerType
<1>6. /\ queue' \in [Messages -> {"none", "ready", "pending", "acked"}]
      /\ queue'[tasks + 1] = "ready"
      /\ \A x \in Messages : x # tasks + 1 => queue'[x] = queue[x]
  BY <1>1, <1>2 DEF TypeOK, BrokerType, Messages
<1>7. \A k \in TaskIds : queue'[k] = "none" <=> k > tasks'
  BY <1>1, <1>2, <1>6 DEF TypeOK, BrokerType, TaskIds, Messages
<1>8. num' \in [Messages -> Nat] /\ \A m \in Messages : num'[m] <= Limit(m)
  BY <1>1 DEF TypeOK, BrokerType
<1>9. \A x \in Events : queue'[x] # "none"
  <2>1. \A x \in Events : x \in Messages /\ x # tasks + 1 /\ queue[x] # "none"
    BY <1>2 DEF Messages, TaskIds, TypeOK, BrokerType
  <2> QED
    BY <2>1, <1>6
<1>10. BrokerType'
  BY <1>2, <1>3, <1>5, <1>6, <1>7, <1>8, <1>9 DEF BrokerType, Tasks, Limit
<1> QED
  BY <1>1, <1>2, <1>4, <1>6, <1>10

\* Parts that a step leaves alone while tasks may be published.
LEMMA FanKept ==
  ASSUME TypeOK, UNCHANGED fan
  PROVE  FanType'
BY DEF TypeOK, FanType

LEMMA FanSet ==
  ASSUME NEW p \in Procs, NEW at \in FanLabels, NEW e \in Events \cup {Nobody}, NEW todo \in SUBSET Subs,
         TypeOK, fan' = [fan EXCEPT ![p] = Fan(at, e, todo)], at # "idle" => e \in Events
  PROVE  FanType'
BY DEF TypeOK, FanType, FanLabels, Fan

LEMMA WorkKept ==
  ASSUME TypeOK, UNCHANGED work, tasks' \in Nat, tasks' >= tasks
  PROVE  WorkType'
BY DEF TypeOK, WorkType, BrokerType, Tasks

LEMMA WorkSet ==
  ASSUME NEW p \in Procs, NEW at \in WorkLabels, NEW k \in TaskIds \cup {Nobody}, NEW n \in Nat,
         TypeOK, work' = [work EXCEPT ![p] = Work(at, k, n)], at # "idle" => k \in Tasks,
         tasks' = tasks
  PROVE  WorkType'
BY DEF TypeOK, WorkType, WorkLabels, Work, Tasks

LEMMA TableKept ==
  ASSUME TypeOK, UNCHANGED <<sub, rows, admin>>, tasks' \in Nat, tasks' >= tasks
  PROVE  TableType'
BY DEF TypeOK, TableType, BrokerType, Tasks, TaskIds

LEMMA HistoryKept ==
  ASSUME TypeOK, UNCHANGED history
  PROVE  HistoryType'
BY DEF TypeOK, HistoryType, history

LEMMA PairType ==
  ASSUME NEW k \in Tasks, TypeOK
  PROVE  Pair(k) \in Pairs /\ k \in TaskIds /\ k \in Messages /\ queue[k] # "none"
BY DEF TypeOK, BrokerType, Pair, Pairs, Tasks, TaskIds, Messages

-----------------------------------------------------------------------------
(* Types.                                                                  *)

LEMMA InitTypes == Init => TypeOK
<1> SUFFICES ASSUME Init PROVE TypeOK
  OBVIOUS
<1>1. BrokerType
  <2>1. \A k \in TaskIds : k \in Messages /\ k \notin Events /\ k > 0
    BY DEF Messages, TaskIds
  <2>2. Tasks = {} /\ tasks \in 0 .. MaxTasks
    BY DEF Init, Tasks
  <2>3. num \in [Messages -> Nat] /\ \A m \in Messages : num[m] <= Limit(m)
    BY DEF Init, Limit
  <2>4. queue \in [Messages -> {"none", "ready", "pending", "acked"}]
    BY DEF Init
  <2>5. \A k \in TaskIds : queue[k] = "none" /\ k > tasks
    BY <2>1 DEF Init
  <2>6. \A e \in Events : queue[e] # "none"
    BY DEF Init, Messages
  <2>7. task \in [TaskIds -> [event : Events \cup {Nobody}, sub : Subs \cup {Nobody}]]
    BY DEF Init
  <2> QED
    BY <2>2, <2>3, <2>4, <2>5, <2>6, <2>7 DEF BrokerType
<1>2. FanType
  BY DEF Init, FanType, NoFan, Fan
<1>3. WorkType
  BY DEF Init, WorkType, NoWork, Work
<1>4. TableType
  BY DEF Init, TableType
<1>5. HistoryType
  BY DEF Init, HistoryType
<1> QED
  BY <1>1, <1>2, <1>3, <1>4, <1>5 DEF TypeOK

LEMMA NextTypes ==
  ASSUME TypeOK, [Next]_vars
  PROVE  TypeOK'
<1>1. ASSUME NEW m \in Messages, AckWait(m)
      PROVE  TypeOK'
  <2>1. BrokerType' /\ tasks' \in Nat /\ tasks' >= tasks
    <3>1. queue' \in Acked(m) \cup Naked(m) /\ queue[m] # "none" /\ UNCHANGED <<num, task, tasks>>
      BY <1>1 DEF AckWait, Naked
    <3> QED
      BY <3>1, AckedType DEF Same, TypeOK, BrokerType
  <2>2. FanType'
    BY <1>1, FanKept DEF AckWait
  <2>3. WorkType'
    BY <1>1, <2>1, WorkKept DEF AckWait
  <2>4. TableType'
    BY <1>1, <2>1, TableKept DEF AckWait
  <2>5. HistoryType'
    BY <1>1, HistoryKept DEF AckWait
  <2> QED
    BY <2>1, <2>2, <2>3, <2>4, <2>5 DEF TypeOK
<1>2. ASSUME NEW p \in Procs, NEW e \in Events, TakeEvent(p, e)
      PROVE  TypeOK'
  <2>1. BrokerType' /\ tasks' \in Nat /\ tasks' >= tasks
    BY <1>2, DeliveredType, e \in Messages DEF TakeEvent, Messages, Same, TypeOK, BrokerType
  <2>2. FanType'
    BY <1>2, FanSet, "list" \in FanLabels, {} \in SUBSET Subs DEF TakeEvent, FanLabels
  <2>3. WorkType'
    BY <1>2, <2>1, WorkKept DEF TakeEvent
  <2>4. TableType'
    BY <1>2, <2>1, TableKept DEF TakeEvent
  <2>5. HistoryType'
    BY <1>2, HistoryKept DEF TakeEvent
  <2> QED
    BY <2>1, <2>2, <2>3, <2>4, <2>5 DEF TypeOK
<1>3. ASSUME NEW p \in Procs, ListSubs(p)
      PROVE  TypeOK'
  <2>1. BrokerType' /\ tasks' \in Nat /\ tasks' >= tasks
    <3>1. CASE GiveUpEvent(p)
      <4>1. fan[p].event \in Messages /\ queue[fan[p].event] # "none"
        BY <1>3 DEF ListSubs, TypeOK, FanType, BrokerType, Messages
      <4>2. queue' \in Acked(fan[p].event) \cup Naked(fan[p].event) /\ UNCHANGED <<num, task, tasks>>
        BY <3>1 DEF GiveUpEvent
      <4> QED
        BY <4>1, <4>2, AckedType DEF Same, TypeOK, BrokerType
    <3>2. CASE UNCHANGED broker
      BY <3>2 DEF broker, TypeOK, BrokerType, Tasks, Limit
    <3> QED
      BY <1>3, <3>1, <3>2 DEF ListSubs
  <2>2. FanType'
    <3>1. CASE GiveUpEvent(p)
      BY <3>1, FanSet, "idle" \in FanLabels, {} \in SUBSET Subs DEF GiveUpEvent, NoFan, FanLabels
    <3>2. CASE fan' = [fan EXCEPT ![p] = Fan("fan", @.event, {s \in Subs : sub[s] = "active"})]
      <4>1. fan[p].event \in Events /\ {s \in Subs : sub[s] = "active"} \in SUBSET Subs /\ "fan" \in FanLabels
        BY <1>3 DEF ListSubs, TypeOK, FanType, FanLabels
      <4> QED
        BY <3>2, <4>1, FanSet
    <3> QED
      BY <1>3, <3>1, <3>2 DEF ListSubs
  <2>3. WorkType'
    BY <1>3, <2>1, WorkKept DEF ListSubs
  <2>4. TableType'
    BY <1>3, <2>1, TableKept DEF ListSubs
  <2>5. HistoryType'
    BY <1>3, HistoryKept DEF ListSubs
  <2> QED
    BY <2>1, <2>2, <2>3, <2>4, <2>5 DEF TypeOK
<1>4. ASSUME NEW p \in Procs, NEW s \in Subs, FanOut(p, s)
      PROVE  TypeOK'
  <2>1. BrokerType' /\ tasks' \in Nat /\ tasks' >= tasks
    <3>1. CASE GiveUpEvent(p)
      <4>1. fan[p].event \in Messages /\ queue[fan[p].event] # "none"
        BY <1>4 DEF FanOut, TypeOK, FanType, BrokerType, Messages
      <4>2. queue' \in Acked(fan[p].event) \cup Naked(fan[p].event) /\ UNCHANGED <<num, task, tasks>>
        BY <3>1 DEF GiveUpEvent
      <4> QED
        BY <4>1, <4>2, AckedType DEF Same, TypeOK, BrokerType
    <3>2. CASE Publish(fan[p].event, s)
      <4>1. fan[p].event \in Events
        BY <1>4 DEF FanOut, TypeOK, FanType
      <4>2. BrokerType' /\ tasks' = tasks + 1
        BY <3>2, <4>1, PublishType
      <4> QED
        BY <4>2 DEF TypeOK, BrokerType
    <3> QED
      BY <1>4, <3>1, <3>2 DEF FanOut
  <2>2. FanType'
    <3>1. CASE GiveUpEvent(p)
      BY <3>1, FanSet, "idle" \in FanLabels, {} \in SUBSET Subs DEF GiveUpEvent, NoFan, FanLabels
    <3>2. CASE fan' = [fan EXCEPT ![p] = Fan("fan", @.event, @.todo \ {s})]
      <4>1. fan[p].event \in Events /\ fan[p].todo \ {s} \in SUBSET Subs /\ "fan" \in FanLabels
        BY <1>4 DEF FanOut, TypeOK, FanType, FanLabels
      <4> QED
        BY <3>2, <4>1, FanSet
    <3> QED
      BY <1>4, <3>1, <3>2 DEF FanOut
  <2>3. WorkType'
    BY <1>4, <2>1, WorkKept DEF FanOut
  <2>4. TableType'
    BY <1>4, <2>1, TableKept DEF FanOut
  <2>5. HistoryType'
    BY <1>4, HistoryKept DEF FanOut
  <2> QED
    BY <2>1, <2>2, <2>3, <2>4, <2>5 DEF TypeOK
<1>5. ASSUME NEW p \in Procs, AckEvent(p)
      PROVE  TypeOK'
  <2>1. BrokerType' /\ tasks' \in Nat /\ tasks' >= tasks
    <3>1. fan[p].event \in Messages /\ queue[fan[p].event] # "none"
      BY <1>5 DEF AckEvent, TypeOK, FanType, BrokerType, Messages
    <3> QED
      BY <1>5, <3>1, AckedType DEF AckEvent, Same, TypeOK, BrokerType
  <2>2. FanType'
    BY <1>5, FanSet, "idle" \in FanLabels, {} \in SUBSET Subs DEF AckEvent, NoFan, FanLabels
  <2>3. WorkType'
    BY <1>5, <2>1, WorkKept DEF AckEvent
  <2>4. TableType'
    BY <1>5, <2>1, TableKept DEF AckEvent
  <2>5. HistoryType'
    BY <1>5, HistoryKept DEF AckEvent
  <2> QED
    BY <2>1, <2>2, <2>3, <2>4, <2>5 DEF TypeOK
<1>6. ASSUME NEW p \in Procs, NEW k \in TaskIds, TakeTask(p, k)
      PROVE  TypeOK'
  <2>1. BrokerType' /\ tasks' \in Nat /\ tasks' >= tasks
    BY <1>6, DeliveredType, k \in Messages DEF TakeTask, Messages, Same, TypeOK, BrokerType
  <2>2. FanType'
    BY <1>6, FanKept DEF TakeTask
  <2>3. WorkType'
    <3>1. k \in Tasks /\ num[k] + 1 \in Nat /\ tasks' = tasks /\ "check" \in WorkLabels
      BY <1>6 DEF TakeTask, Delivered, TypeOK, BrokerType, Tasks, TaskIds, Messages, WorkLabels
    <3>2. work' = [work EXCEPT ![p] = Work("check", k, num[k] + 1)]
      BY <1>6 DEF TakeTask
    <3>3. k \in TaskIds \cup {Nobody}
      OBVIOUS
    <3> QED
      BY ONLY <3>1, <3>2, <3>3, p \in Procs, TypeOK, WorkSet, Zenon
  <2>4. TableType'
    BY <1>6, <2>1, TableKept DEF TakeTask
  <2>5. HistoryType'
    BY <1>6, HistoryKept DEF TakeTask
  <2> QED
    BY <2>1, <2>2, <2>3, <2>4, <2>5 DEF TypeOK
<1>7. ASSUME NEW p \in Procs, Check(p)
      PROVE  TypeOK'
  <2>1. BrokerType' /\ tasks' \in Nat /\ tasks' >= tasks
    BY <1>7 DEF Check, broker, TypeOK, BrokerType, Tasks, Limit
  <2>2. FanType'
    BY <1>7, FanKept DEF Check
  <2>3. WorkType'
    <3>1. PICK at \in {"archive", "post", "retry"} : WorkOn(p, at)
      BY <1>7 DEF Check
    <3>2. work[p].task \in Tasks /\ work[p].task \in TaskIds \cup {Nobody} /\ work[p].n \in Nat
          /\ at \in WorkLabels /\ tasks' = tasks
      BY <1>7 DEF Check, broker, TypeOK, WorkType, WorkLabels
    <3> QED
      BY <3>1, <3>2, WorkSet DEF WorkOn
  <2>4. TableType'
    BY <1>7, <2>1, TableKept DEF Check
  <2>5. HistoryType'
    BY <1>7, HistoryKept DEF Check
  <2> QED
    BY <2>1, <2>2, <2>3, <2>4, <2>5 DEF TypeOK
<1>8. ASSUME NEW p \in Procs, Post(p)
      PROVE  TypeOK'
  <2>1. BrokerType' /\ tasks' \in Nat /\ tasks' >= tasks
    BY <1>8 DEF Post, broker, TypeOK, BrokerType, Tasks, Limit
  <2>2. FanType'
    BY <1>8, FanKept DEF Post
  <2>3. WorkType'
    <3>1. PICK at \in {"done", "archive", "retry"} : WorkOn(p, at)
      BY <1>8 DEF Post
    <3>2. work[p].task \in Tasks /\ work[p].task \in TaskIds \cup {Nobody} /\ work[p].n \in Nat
          /\ at \in WorkLabels /\ tasks' = tasks
      BY <1>8 DEF Post, broker, TypeOK, WorkType, WorkLabels
    <3> QED
      BY <3>1, <3>2, WorkSet DEF WorkOn
  <2>4. TableType'
    BY <1>8, <2>1, TableKept DEF Post
  <2>5. HistoryType'
    <3>1. Pair(work[p].task) \in Pairs
      BY <1>8, PairType DEF Post, TypeOK, WorkType
    <3> QED
      BY <1>8, <3>1 DEF Post, TypeOK, HistoryType
  <2> QED
    BY <2>1, <2>2, <2>3, <2>4, <2>5 DEF TypeOK
<1>9. ASSUME NEW p \in Procs, Retry(p)
      PROVE  TypeOK'
  <2>1. BrokerType' /\ tasks' \in Nat /\ tasks' >= tasks
    <3>1. CASE GiveUpTask(p)
      <4>1. work[p].task \in Tasks
        BY <1>9 DEF Retry, TypeOK, WorkType
      <4>2. work[p].task \in Messages /\ queue[work[p].task] # "none"
        BY <4>1, PairType
      <4> QED
        BY <3>1, <4>2, AckedType DEF GiveUpTask, Same, TypeOK, BrokerType
    <3>2. CASE UNCHANGED broker
      BY <3>2 DEF broker, TypeOK, BrokerType, Tasks, Limit
    <3> QED
      BY <1>9, <3>1, <3>2 DEF Retry
  <2>2. FanType'
    BY <1>9, FanKept DEF Retry
  <2>3. WorkType'
    <3>1. CASE GiveUpTask(p)
      <4>1. work' = [work EXCEPT ![p] = Work("idle", Nobody, 0)] /\ tasks' = tasks
        BY <3>1 DEF GiveUpTask, NoWork
      <4> QED
        BY <4>1, WorkSet, "idle" \in WorkLabels DEF WorkLabels
    <3>2. CASE WorkOn(p, "archive") /\ UNCHANGED broker
      <4>1. work[p].task \in Tasks /\ work[p].task \in TaskIds \cup {Nobody} /\ work[p].n \in Nat
            /\ "archive" \in WorkLabels /\ tasks' = tasks
        BY <1>9, <3>2 DEF Retry, broker, TypeOK, WorkType, WorkLabels
      <4> QED
        BY <3>2, <4>1, WorkSet DEF WorkOn
    <3> QED
      BY <1>9, <3>1, <3>2 DEF Retry
  <2>4. TableType'
    BY <1>9, <2>1, TableKept DEF Retry
  <2>5. HistoryType'
    BY <1>9, HistoryKept DEF Retry
  <2> QED
    BY <2>1, <2>2, <2>3, <2>4, <2>5 DEF TypeOK
<1>10. ASSUME NEW p \in Procs, Archive(p)
       PROVE  TypeOK'
  <2>1. BrokerType' /\ tasks' \in Nat /\ tasks' >= tasks
    <3>1. CASE GiveUpTask(p)
      <4>1. work[p].task \in Tasks
        BY <1>10 DEF Archive, TypeOK, WorkType
      <4>2. work[p].task \in Messages /\ queue[work[p].task] # "none"
        BY <4>1, PairType
      <4> QED
        BY <3>1, <4>2, AckedType DEF GiveUpTask, Same, TypeOK, BrokerType
    <3>2. CASE UNCHANGED broker
      BY <3>2 DEF broker, TypeOK, BrokerType, Tasks, Limit
    <3> QED
      BY <1>10, <3>1, <3>2 DEF Archive
  <2>2. FanType'
    BY <1>10, FanKept DEF Archive
  <2>3. WorkType'
    <3>1. CASE GiveUpTask(p)
      <4>1. work' = [work EXCEPT ![p] = Work("idle", Nobody, 0)] /\ tasks' = tasks
        BY <3>1 DEF GiveUpTask, NoWork
      <4> QED
        BY <4>1, WorkSet, "idle" \in WorkLabels DEF WorkLabels
    <3>2. CASE WorkOn(p, "done") /\ UNCHANGED broker
      <4>1. work[p].task \in Tasks /\ work[p].task \in TaskIds \cup {Nobody} /\ work[p].n \in Nat
            /\ "done" \in WorkLabels /\ tasks' = tasks
        BY <1>10, <3>2 DEF Archive, broker, TypeOK, WorkType, WorkLabels
      <4> QED
        BY <3>2, <4>1, WorkSet DEF WorkOn
    <3> QED
      BY <1>10, <3>1, <3>2 DEF Archive
  <2>4. TableType'
    <3>1. work[p].task \in Tasks /\ tasks' = tasks
      BY <1>10 DEF Archive, GiveUpTask, broker, TypeOK, WorkType
    <3>2. rows' \in [TaskIds -> Nat] /\ \A k \in TaskIds : k > tasks => rows'[k] = 0
      BY <1>10, <3>1 DEF Archive, TypeOK, TableType, BrokerType, Tasks
    <3> QED
      BY <1>10, <3>1, <3>2 DEF Archive, TypeOK, TableType, Tasks
  <2>5. HistoryType'
    BY <1>10, HistoryKept DEF Archive
  <2> QED
    BY <2>1, <2>2, <2>3, <2>4, <2>5 DEF TypeOK
<1>11. ASSUME NEW p \in Procs, AckTask(p)
       PROVE  TypeOK'
  <2>1. BrokerType' /\ tasks' \in Nat /\ tasks' >= tasks
    <3>1. work[p].task \in Tasks
      BY <1>11 DEF AckTask, TypeOK, WorkType
    <3>2. work[p].task \in Messages /\ queue[work[p].task] # "none"
      BY <3>1, PairType
    <3> QED
      BY <1>11, <3>2, AckedType DEF AckTask, Same, TypeOK, BrokerType
  <2>2. FanType'
    BY <1>11, FanKept DEF AckTask
  <2>3. WorkType'
    <3>1. work' = [work EXCEPT ![p] = Work("idle", Nobody, 0)] /\ tasks' = tasks
      BY <1>11 DEF AckTask, NoWork
    <3> QED
      BY <3>1, WorkSet, "idle" \in WorkLabels DEF WorkLabels
  <2>4. TableType'
    BY <1>11, <2>1, TableKept DEF AckTask
  <2>5. HistoryType'
    BY <1>11, HistoryKept DEF AckTask
  <2> QED
    BY <2>1, <2>2, <2>3, <2>4, <2>5 DEF TypeOK
<1>12. ASSUME NEW p \in Procs, Crash(p)
       PROVE  TypeOK'
  <2>1. BrokerType' /\ tasks' \in Nat /\ tasks' >= tasks
    BY <1>12 DEF Crash, broker, TypeOK, BrokerType, Tasks, Limit
  <2>2. FanType'
    BY <1>12, FanSet, "idle" \in FanLabels, {} \in SUBSET Subs DEF Crash, NoFan, FanLabels
  <2>3. WorkType'
    <3>1. work' = [work EXCEPT ![p] = Work("idle", Nobody, 0)] /\ tasks' = tasks
      BY <1>12 DEF Crash, NoWork, broker
    <3> QED
      BY <3>1, WorkSet, "idle" \in WorkLabels DEF WorkLabels
  <2>4. TableType'
    BY <1>12, <2>1, TableKept DEF Crash
  <2>5. HistoryType'
    BY <1>12, HistoryKept DEF Crash
  <2> QED
    BY <2>1, <2>2, <2>3, <2>4, <2>5 DEF TypeOK
<1>13. ASSUME NEW s \in Subs, Update(s)
       PROVE  TypeOK'
  <2>1. BrokerType' /\ tasks' \in Nat /\ tasks' >= tasks
    BY <1>13 DEF Update, broker, TypeOK, BrokerType, Tasks, Limit
  <2>2. FanType'
    BY <1>13, FanKept DEF Update
  <2>3. WorkType'
    BY <1>13, <2>1, WorkKept DEF Update
  <2>4. TableType'
    <3>1. tasks' = tasks /\ sub' \in [Subs -> {"active", "inactive", "deleted"}]
      BY <1>13 DEF Update, broker, TypeOK, TableType
    <3> QED
      BY <1>13, <3>1 DEF Update, TypeOK, TableType, Tasks
  <2>5. HistoryType'
    BY <1>13 DEF Update, TypeOK, HistoryType
  <2> QED
    BY <2>1, <2>2, <2>3, <2>4, <2>5 DEF TypeOK
<1>14. ASSUME NEW s \in Subs, Delete(s)
       PROVE  TypeOK'
  <2>1. BrokerType' /\ tasks' \in Nat /\ tasks' >= tasks
    BY <1>14 DEF Delete, broker, TypeOK, BrokerType, Tasks, Limit
  <2>2. FanType'
    BY <1>14, FanKept DEF Delete
  <2>3. WorkType'
    BY <1>14, <2>1, WorkKept DEF Delete
  <2>4. TableType'
    <3>1. tasks' = tasks /\ sub' \in [Subs -> {"active", "inactive", "deleted"}]
      BY <1>14 DEF Delete, broker, TypeOK, TableType
    <3> QED
      BY <1>14, <3>1 DEF Delete, TypeOK, TableType, Tasks
  <2>5. HistoryType'
    BY <1>14 DEF Delete, TypeOK, HistoryType
  <2> QED
    BY <2>1, <2>2, <2>3, <2>4, <2>5 DEF TypeOK
<1>15. CASE FinishRetry
  <2>1. BrokerType' /\ tasks' \in Nat /\ tasks' >= tasks
    BY <1>15 DEF FinishRetry, broker, TypeOK, BrokerType, Tasks, Limit
  <2>2. FanType'
    BY <1>15, FanKept DEF FinishRetry
  <2>3. WorkType'
    BY <1>15, <2>1, WorkKept DEF FinishRetry
  <2>4. TableType'
    <3>1. tasks' = tasks /\ admin \in TaskIds
      BY <1>15 DEF FinishRetry, broker, TypeOK, TableType, BrokerType, Tasks, TaskIds
    <3>2. rows' \in [TaskIds -> Nat] /\ \A k \in TaskIds : k > tasks => rows'[k] = 0
      BY <1>15, <3>1 DEF FinishRetry, TypeOK, TableType
    <3> QED
      BY <1>15, <3>1, <3>2 DEF FinishRetry, TypeOK, TableType, Tasks
  <2>5. HistoryType'
    BY <1>15, HistoryKept DEF FinishRetry
  <2> QED
    BY <2>1, <2>2, <2>3, <2>4, <2>5 DEF TypeOK
<1>16. ASSUME NEW k \in TaskIds, RetryDLQ(k)
       PROVE  TypeOK'
  <2>0. k \in Tasks /\ task[k].event \in Events /\ task[k].sub \in Subs
    BY <1>16 DEF RetryDLQ, TypeOK, TableType, BrokerType, Tasks, TaskIds
  <2>1. BrokerType' /\ tasks' \in Nat /\ tasks' >= tasks
    BY <1>16, <2>0, PublishType DEF RetryDLQ, TypeOK, BrokerType
  <2>2. FanType'
    BY <1>16, FanKept DEF RetryDLQ
  <2>3. WorkType'
    BY <1>16, <2>1, WorkKept DEF RetryDLQ
  <2>4. TableType'
    <3>1. tasks' = tasks + 1 /\ admin' = k
      BY <1>16 DEF RetryDLQ, Publish
    <3> QED
      BY <1>16, <2>0, <2>1, <3>1 DEF RetryDLQ, TypeOK, TableType, BrokerType, Tasks, TaskIds
  <2>5. HistoryType'
    BY <1>16, HistoryKept DEF RetryDLQ
  <2> QED
    BY <2>1, <2>2, <2>3, <2>4, <2>5 DEF TypeOK
<1>17. ASSUME NEW k \in TaskIds, DeleteDLQ(k)
       PROVE  TypeOK'
  <2>0. k \in Tasks /\ Pair(k) \in Pairs
    <3>1. k \in Tasks
      BY <1>17 DEF DeleteDLQ, TypeOK, TableType, BrokerType, Tasks, TaskIds
    <3> QED
      BY <3>1, PairType
  <2>1. BrokerType' /\ tasks' \in Nat /\ tasks' >= tasks
    BY <1>17 DEF DeleteDLQ, broker, TypeOK, BrokerType, Tasks, Limit
  <2>2. FanType'
    BY <1>17, FanKept DEF DeleteDLQ
  <2>3. WorkType'
    BY <1>17, <2>1, WorkKept DEF DeleteDLQ
  <2>4. TableType'
    <3>1. tasks' = tasks
      BY <1>17 DEF DeleteDLQ, broker
    <3> QED
      BY <1>17, <3>1 DEF DeleteDLQ, TypeOK, TableType, Tasks
  <2>5. HistoryType'
    BY <1>17, <2>0 DEF DeleteDLQ, TypeOK, HistoryType
  <2> QED
    BY <2>1, <2>2, <2>3, <2>4, <2>5 DEF TypeOK
<1>18. ASSUME NEW k \in TaskIds, DispatchImmediate(k)
       PROVE  TypeOK'
  <2>0. k \in Tasks /\ Pair(k) \in Pairs
    <3>1. k \in Tasks
      BY <1>18 DEF DispatchImmediate, TypeOK, TableType, BrokerType, Tasks, TaskIds
    <3> QED
      BY <3>1, PairType
  <2>1. BrokerType' /\ tasks' \in Nat /\ tasks' >= tasks
    BY <1>18 DEF DispatchImmediate, broker, TypeOK, BrokerType, Tasks, Limit
  <2>2. FanType'
    BY <1>18, FanKept DEF DispatchImmediate
  <2>3. WorkType'
    BY <1>18, <2>1, WorkKept DEF DispatchImmediate
  <2>4. TableType'
    BY <1>18, <2>1, TableKept DEF DispatchImmediate
  <2>5. HistoryType'
    BY <1>18, <2>0 DEF DispatchImmediate, TypeOK, HistoryType
  <2> QED
    BY <2>1, <2>2, <2>3, <2>4, <2>5 DEF TypeOK
<1>19. CASE UNCHANGED vars
  BY <1>19 DEF vars, history, TypeOK, BrokerType, FanType, WorkType, TableType, HistoryType, Tasks, Limit
<1> QED
  BY <1>1, <1>2, <1>3, <1>4, <1>5, <1>6, <1>7, <1>8, <1>9, <1>10, <1>11, <1>12, <1>13, <1>14, <1>15, <1>16, <1>17, <1>18, <1>19 DEF Next, ProcessEvent, ProcessDelivery

\* Every value has its type and only published tasks are queued, handled or
\* archived, whatever is lost, repeated or restarted.
THEOREM TypeCorrect == Spec => []TypeOK
<1>1. TypeOK /\ [Next]_vars => TypeOK'
  BY NextTypes
<1> QED
  BY InitTypes, <1>1, PTL DEF Spec

-----------------------------------------------------------------------------
(* What every step leaves behind.                                          *)

\* Published tasks stay what they are.
LEMMA TasksKept ==
  ASSUME TypeOK, [Next]_vars
  PROVE  \A k \in Tasks : k \in Tasks' /\ task'[k] = task[k] /\ Pair(k)' = Pair(k)
<1>1. tasks \in Nat
  BY DEF TypeOK, BrokerType
<1>2. CASE UNCHANGED <<task, tasks>>
  BY <1>2 DEF Tasks, Pair
<1>3. ASSUME NEW e, NEW s, Publish(e, s)
      PROVE  \A k \in Tasks : k \in Tasks' /\ task'[k] = task[k]
  <2>1. tasks' = tasks + 1 /\ task' = [task EXCEPT ![tasks + 1] = [event |-> e, sub |-> s]]
    BY <1>3 DEF Publish
  <2>2. \A k \in Tasks : k \in TaskIds /\ k # tasks + 1 /\ k \in Tasks'
    BY <1>1, <2>1 DEF Tasks, TaskIds, TypeOK, BrokerType
  <2> QED
    BY <2>1, <2>2 DEF TypeOK, BrokerType
<1>4. UNCHANGED <<task, tasks>> \/ \E e, s : Publish(e, s)
  <2>1. ASSUME NEW p \in Procs, ProcessEvent(p) \/ ProcessDelivery(p) \/ Crash(p)
        PROVE  UNCHANGED <<task, tasks>> \/ \E e, s : Publish(e, s)
    BY <2>1 DEF ProcessEvent, ListSubs, FanOut, AckEvent, ProcessDelivery, Check, Post, Retry,
                Archive, AckTask, Crash, GiveUpEvent, GiveUpTask, broker
  <2>2. ASSUME NEW p \in Procs, NEW m \in Messages, AckWait(m) \/ TakeEvent(p, m) \/ TakeTask(p, m)
        PROVE  UNCHANGED <<task, tasks>>
    BY <2>2 DEF AckWait, TakeEvent, TakeTask, Delivered
  <2>3. ASSUME NEW s \in Subs, Update(s) \/ Delete(s)
        PROVE  UNCHANGED <<task, tasks>>
    BY <2>3 DEF Update, Delete, broker
  <2>4. ASSUME NEW k \in TaskIds, RetryDLQ(k) \/ DeleteDLQ(k) \/ DispatchImmediate(k)
        PROVE  UNCHANGED <<task, tasks>> \/ \E e, s : Publish(e, s)
    BY <2>4 DEF RetryDLQ, DeleteDLQ, DispatchImmediate, broker
  <2>5. CASE FinishRetry
    BY <2>5 DEF FinishRetry, broker
  <2>6. CASE UNCHANGED vars
    BY <2>6 DEF vars
  <2>7. ASSUME NEW m \in Messages, AckWait(m)
        PROVE  UNCHANGED <<task, tasks>>
    BY <2>7 DEF AckWait
  <2> QED
    BY <2>1, <2>2, <2>3, <2>4, <2>5, <2>6, <2>7 DEF Next, Messages
<1> QED
  BY <1>2, <1>3, <1>4 DEF Pair

-----------------------------------------------------------------------------
(* EveryActiveTold.                                                        *)

Told(e, s) == \E k \in Tasks : Pair(k) = <<e, s>>

\* steady[e] only holds subscriptions that are active now.
SteadyActive == \A e \in Events : \A s \in steady[e] : sub[s] = "active"

\* A handler in the loop has yet to reach a steady subscription, or a task
\* for it exists: one of its own, or of an earlier delivery of the event.
Covering ==
  \A p \in Procs : fan[p].at = "fan" =>
    \A s \in steady[fan[p].event] : s \in fan[p].todo \/ Told(fan[p].event, s)

FanInv == SteadyActive /\ Covering /\ EveryActiveTold

LEMMA ToldKept ==
  ASSUME TypeOK, [Next]_vars, NEW e, NEW s, Told(e, s)
  PROVE  Told(e, s)'
BY TasksKept DEF Told

\* steady only shrinks, and a subscription leaves it as it stops being active.
LEMMA SteadyStep ==
  ASSUME TypeOK, SteadyActive, [Next]_vars
  PROVE  /\ \A e \in Events : steady'[e] \subseteq steady[e]
         /\ SteadyActive'
<1>1. CASE UNCHANGED <<sub, steady>>
  BY <1>1 DEF SteadyActive
<1>2. ASSUME NEW s \in Subs, Update(s)
      PROVE  /\ \A e \in Events : steady'[e] \subseteq steady[e]
             /\ SteadyActive'
  BY <1>2 DEF Update, SteadyActive, TypeOK, TableType, HistoryType
<1>3. ASSUME NEW s \in Subs, Delete(s)
      PROVE  /\ \A e \in Events : steady'[e] \subseteq steady[e]
             /\ SteadyActive'
  BY <1>3 DEF Delete, SteadyActive, TypeOK, TableType, HistoryType
<1>4. UNCHANGED <<sub, steady>> \/ \E s \in Subs : Update(s) \/ Delete(s)
  <2>1. ASSUME NEW p \in Procs, ProcessEvent(p) \/ ProcessDelivery(p) \/ Crash(p)
        PROVE  UNCHANGED <<sub, steady>>
    BY <2>1 DEF ProcessEvent, ListSubs, FanOut, AckEvent, ProcessDelivery, Check, Post, Retry,
                Archive, AckTask, Crash, history
  <2>2. ASSUME NEW p \in Procs, NEW m \in Messages, TakeEvent(p, m) \/ TakeTask(p, m)
        PROVE  UNCHANGED <<sub, steady>>
    BY <2>2 DEF TakeEvent, TakeTask, history
  <2>3. ASSUME NEW m \in Messages, AckWait(m)
        PROVE  UNCHANGED <<sub, steady>>
    BY <2>3 DEF AckWait, history
  <2>4. ASSUME NEW k \in TaskIds, RetryDLQ(k) \/ DeleteDLQ(k) \/ DispatchImmediate(k)
        PROVE  UNCHANGED <<sub, steady>>
    BY <2>4 DEF RetryDLQ, DeleteDLQ, DispatchImmediate, history
  <2>5. CASE FinishRetry
    BY <2>5 DEF FinishRetry, history
  <2>6. CASE UNCHANGED vars
    BY <2>6 DEF vars, history
  <2> QED
    BY <2>1, <2>2, <2>3, <2>4, <2>5, <2>6 DEF Next, Messages
<1> QED
  BY <1>1, <1>2, <1>3, <1>4

\* A handler is in the loop because it was, or it has just listed the active
\* subscriptions, or it has just published one task.
LEMMA LoopStep ==
  ASSUME TypeOK, [Next]_vars, NEW p \in Procs, fan'[p].at = "fan"
  PROVE  \/ fan'[p] = fan[p]
         \/ fan'[p].event = fan[p].event /\ fan'[p].todo = {s \in Subs : sub[s] = "active"}
         \/ /\ fan[p].at = "fan" /\ fan'[p].event = fan[p].event
            /\ \E s \in Subs : fan'[p].todo = fan[p].todo \ {s} /\ Publish(fan[p].event, s)
<1>1. ASSUME NEW q \in Procs, NEW e \in Events, TakeEvent(q, e)
      PROVE  fan'[p] = fan[p]
  BY <1>1 DEF TakeEvent, TypeOK, FanType, Fan
<1>2. ASSUME NEW q \in Procs, ListSubs(q)
      PROVE  \/ fan'[p] = fan[p]
             \/ fan'[p].event = fan[p].event /\ fan'[p].todo = {s \in Subs : sub[s] = "active"}
  BY <1>2 DEF ListSubs, GiveUpEvent, NoFan, TypeOK, FanType, Fan
<1>3. ASSUME NEW q \in Procs, NEW s \in Subs, FanOut(q, s)
      PROVE  \/ fan'[p] = fan[p]
             \/ /\ fan[p].at = "fan" /\ fan'[p].event = fan[p].event
                /\ fan'[p].todo = fan[p].todo \ {s} /\ Publish(fan[p].event, s)
  <2>1. CASE GiveUpEvent(q)
    BY <2>1 DEF GiveUpEvent, NoFan, TypeOK, FanType, Fan
  <2>2. CASE Publish(fan[q].event, s) /\ fan' = [fan EXCEPT ![q] = Fan("fan", @.event, @.todo \ {s})]
    <3>1. CASE p = q
      BY <1>3, <2>2, <3>1 DEF FanOut, TypeOK, FanType, Fan
    <3>2. CASE p # q
      BY <2>2, <3>2 DEF TypeOK, FanType
    <3> QED
      BY <3>1, <3>2
  <2> QED
    BY <1>3, <2>1, <2>2 DEF FanOut
<1>4. ASSUME NEW q \in Procs, AckEvent(q) \/ Crash(q)
      PROVE  fan'[p] = fan[p]
  BY <1>4 DEF AckEvent, Crash, NoFan, TypeOK, FanType, Fan
<1>5. CASE UNCHANGED fan
  BY <1>5
<1>6. ASSUME NEW q \in Procs, ProcessDelivery(q)
      PROVE  UNCHANGED fan
  BY <1>6 DEF ProcessDelivery, Check, Post, Retry, Archive, AckTask
<1>7. ASSUME NEW q \in Procs, NEW m \in Messages, AckWait(m) \/ TakeTask(q, m)
      PROVE  UNCHANGED fan
  BY <1>7 DEF AckWait, TakeTask
<1>8. ASSUME NEW s \in Subs, Update(s) \/ Delete(s)
      PROVE  UNCHANGED fan
  BY <1>8 DEF Update, Delete
<1>9. ASSUME NEW k \in TaskIds, RetryDLQ(k) \/ DeleteDLQ(k) \/ DispatchImmediate(k)
      PROVE  UNCHANGED fan
  BY <1>9 DEF RetryDLQ, DeleteDLQ, DispatchImmediate
<1>10. FinishRetry \/ UNCHANGED vars => UNCHANGED fan
  BY DEF FinishRetry, vars
<1> QED
  BY <1>1, <1>2, <1>3, <1>4, <1>5, <1>6, <1>7, <1>8, <1>9, <1>10 DEF Next, ProcessEvent, Messages

\* An event is acked because it was, or by a handler whose loop is over.
LEMMA AckStep ==
  ASSUME TypeOK, [Next]_vars, NEW e \in Events, queue'[e] = "acked"
  PROVE  \/ queue[e] = "acked"
         \/ /\ UNCHANGED steady
            /\ \E p \in Procs : fan[p].at = "fan" /\ fan[p].event = e /\ fan[p].todo = {}
<1>0. e \in Messages /\ e \notin TaskIds
  BY DEF Messages, TaskIds
<1>1. ASSUME NEW m \in Messages, Delivered(m)
      PROVE  queue[e] = "acked"
  BY <1>0, <1>1 DEF Delivered, TypeOK, BrokerType
<1>2. ASSUME NEW m \in Messages, queue' \in Naked(m)
      PROVE  queue[e] = "acked"
  BY <1>0, <1>2, NakedKeeps
<1>3. ASSUME NEW k \in TaskIds, queue' \in Acked(k)
      PROVE  queue[e] = "acked"
  BY <1>0, <1>3 DEF Acked, TypeOK, BrokerType
<1>4. ASSUME NEW d \in Events, NEW s \in Subs, Publish(d, s)
      PROVE  queue[e] = "acked"
  <2>1. tasks + 1 \in TaskIds /\ \A x \in Messages : x # tasks + 1 => queue'[x] = queue[x]
    BY <1>4, PublishType
  <2> QED
    BY <1>0, <2>1
<1>5. CASE UNCHANGED queue
  BY <1>5
<1>6. ASSUME NEW m \in Messages, AckWait(m)
      PROVE  queue[e] = "acked"
  BY <1>0, <1>6 DEF AckWait, TypeOK, BrokerType
<1>7. ASSUME NEW p \in Procs, ListSubs(p)
      PROVE  queue[e] = "acked"
  <2>1. fan[p].event \in Messages
    BY <1>7 DEF ListSubs, TypeOK, FanType, Messages
  <2> QED
    BY <1>2, <1>5, <1>7, <2>1 DEF ListSubs, GiveUpEvent, broker
<1>8. ASSUME NEW p \in Procs, NEW s \in Subs, FanOut(p, s)
      PROVE  queue[e] = "acked"
  <2>1. fan[p].event \in Events /\ fan[p].event \in Messages
    BY <1>8 DEF FanOut, TypeOK, FanType, Messages
  <2> QED
    BY <1>2, <1>4, <1>8, <2>1 DEF FanOut, GiveUpEvent
<1>9. ASSUME NEW p \in Procs, AckEvent(p), queue[e] # "acked"
      PROVE  UNCHANGED steady /\ fan[p].at = "fan" /\ fan[p].event = e /\ fan[p].todo = {}
  <2>1. fan[p].event \in Messages
    BY <1>9 DEF AckEvent, TypeOK, FanType, Messages
  <2> QED
    BY <1>0, <1>9, <2>1 DEF AckEvent, Acked, TypeOK, BrokerType, history
<1>10. ASSUME NEW p \in Procs, ProcessDelivery(p)
       PROVE  queue[e] = "acked"
  <2>1. CASE UNCHANGED queue
    BY <2>1
  <2>2. CASE GiveUpTask(p) /\ work[p].at # "idle"
    <3>1. work[p].task \in Messages
      BY <2>2, PairType DEF TypeOK, WorkType
    <3> QED
      BY <1>2, <2>2, <3>1 DEF GiveUpTask
  <2>3. CASE AckTask(p)
    <3>1. work[p].task \in TaskIds
      BY <2>3, PairType DEF AckTask, TypeOK, WorkType
    <3> QED
      BY <1>3, <2>3, <3>1 DEF AckTask
  <2> QED
    BY <1>10, <2>1, <2>2, <2>3 DEF ProcessDelivery, Check, Post, Retry, Archive, broker
<1>11. ASSUME NEW k \in TaskIds, RetryDLQ(k)
       PROVE  queue[e] = "acked"
  <2>1. task[k].event \in Events /\ task[k].sub \in Subs
    BY <1>11 DEF RetryDLQ, TypeOK, TableType, BrokerType, Tasks, TaskIds
  <2> QED
    BY <1>4, <1>11, <2>1 DEF RetryDLQ
<1>12. ASSUME NEW p \in Procs, NEW m \in Messages, TakeEvent(p, m) \/ TakeTask(p, m)
       PROVE  queue[e] = "acked"
  BY <1>1, <1>12 DEF TakeEvent, TakeTask
<1>13. ASSUME NEW s \in Subs, Update(s) \/ Delete(s)
       PROVE  UNCHANGED queue
  BY <1>13 DEF Update, Delete, broker
<1>14. ASSUME NEW k \in TaskIds, DeleteDLQ(k) \/ DispatchImmediate(k)
       PROVE  UNCHANGED queue
  BY <1>14 DEF DeleteDLQ, DispatchImmediate, broker
<1>15. ASSUME NEW p \in Procs, Crash(p)
       PROVE  UNCHANGED queue
  BY <1>15 DEF Crash, broker
<1>16. FinishRetry \/ UNCHANGED vars => UNCHANGED queue
  BY DEF FinishRetry, vars, broker
<1> QED
  BY <1>5, <1>6, <1>7, <1>8, <1>9, <1>10, <1>11, <1>12, <1>13, <1>14, <1>15, <1>16
     DEF Next, ProcessEvent, Messages

LEMMA NextFan ==
  ASSUME TypeOK, FanInv, [Next]_vars
  PROVE  FanInv'
<1>1. SteadyActive' /\ \A e \in Events : steady'[e] \subseteq steady[e]
  BY SteadyStep DEF FanInv
<1>2. ASSUME NEW p \in Procs, NEW e \in Events, fan'[p].at = "fan", fan'[p].event = e,
             NEW s \in steady'[e]
      PROVE  s \in fan'[p].todo \/ Told(e, s)'
  <2>1. s \in Subs /\ s \in steady[e]
    BY <1>1, <1>2 DEF TypeOK, HistoryType
  <2>2. CASE fan'[p] = fan[p]
    <3>1. s \in fan[p].todo \/ Told(e, s)
      BY <1>2, <2>1, <2>2 DEF FanInv, Covering
    <3> QED
      BY <2>2, <3>1, ToldKept
  <2>3. CASE fan'[p].todo = {x \in Subs : sub[x] = "active"}
    BY <2>1, <2>3 DEF FanInv, SteadyActive
  <2>4. ASSUME fan[p].at = "fan", fan[p].event = e,
               NEW r \in Subs, fan'[p].todo = fan[p].todo \ {r}, Publish(e, r)
        PROVE  s \in fan'[p].todo \/ Told(e, s)'
    <3>1. s \in fan[p].todo \/ Told(e, s)
      BY <2>1, <2>4 DEF FanInv, Covering
    <3>2. CASE Told(e, s)
      BY <3>2, ToldKept
    <3>3. CASE s = r
      <4>1. tasks' = tasks + 1 /\ task'[tasks + 1] = [event |-> e, sub |-> r]
        BY <2>4, PublishType
      <4>2. PICK k : k = tasks + 1
        OBVIOUS
      <4>3. k \in Tasks'
        BY <4>1, <4>2 DEF Tasks, TypeOK, BrokerType
      <4>4. Pair(k)' = <<e, s>>
        BY <3>3, <4>1, <4>2 DEF Pair
      <4> QED
        BY <4>3, <4>4 DEF Told
    <3> QED
      BY <2>4, <3>1, <3>2, <3>3
  <2> QED
    BY <1>2, <2>2, <2>3, <2>4, LoopStep
<1>3. ASSUME NEW e \in Events, queue'[e] = "acked", NEW s \in steady'[e]
      PROVE  Told(e, s)'
  <2>1. s \in steady[e]
    BY <1>1, <1>3
  <2>2. Told(e, s)
    BY <1>3, <2>1, AckStep DEF FanInv, EveryActiveTold, Covering, Told
  <2> QED
    BY <2>2, ToldKept
<1>4. Covering'
  <2>1. \A p \in Procs : fan'[p].at = "fan" => fan'[p].event \in Events
    BY NextTypes DEF TypeOK, FanType
  <2> QED
    BY <1>2, <2>1 DEF Covering, Told
<1>5. EveryActiveTold'
  BY <1>3 DEF EveryActiveTold, Told
<1> QED
  BY <1>1, <1>4, <1>5 DEF FanInv

\* Whatever fails, is lost, redelivered or restarted during the fan-out, an
\* acked event has a task for every subscription that was active throughout.
THEOREM ToldCorrect == Spec => []EveryActiveTold
<1>1. Init => FanInv
  BY DEF Init, FanInv, SteadyActive, Covering, EveryActiveTold, NoFan, Fan, Messages
<1>2. TypeOK /\ FanInv /\ [Next]_vars => FanInv'
  BY NextFan
<1>3. FanInv => EveryActiveTold
  BY DEF FanInv
<1> QED
  BY TypeCorrect, <1>1, <1>2, <1>3, PTL DEF Spec

-----------------------------------------------------------------------------
(* NeverVanishes.                                                          *)

\* A handler is about to ack task j.
Done(j) == \E p \in Procs : work[p].at = "done" /\ work[p].task = j

\* A row of j that no retry under way may delete, or j itself, unacked and in
\* no handler that is about to ack it.
Kept(j) ==
  \/ rows[j] > (IF admin = j THEN 1 ELSE 0)
  \/ queue[j] # "acked" /\ ~ Done(j)

\* Nothing is owed for pair q any more.
Closed(q) == q \in posted \cup dropped \/ sub[q[2]] = "deleted"

Owed == \A k \in Tasks : Closed(Pair(k)) \/ \E j \in Tasks : Pair(j) = Pair(k) /\ Kept(j)

\* The row of the retry under way is there, unless it is owed no more.
RetryHasRow == admin # Nobody => rows[admin] > 0 \/ Closed(Pair(admin))

OwedInv == Owed /\ RetryHasRow

\* What is closed stays closed: deleted subscriptions do not come back.
LEMMA ClosedKept ==
  ASSUME TypeOK, [Next]_vars, NEW q \in Pairs, Closed(q)
  PROVE  Closed(q)'
<1>1. /\ posted \subseteq posted' /\ dropped \subseteq dropped'
      /\ \A s \in Subs : sub[s] = "deleted" => sub'[s] = "deleted"
  <2>1. ASSUME NEW s \in Subs, Update(s) \/ Delete(s)
        PROVE  /\ UNCHANGED <<posted, dropped>>
               /\ \A x \in Subs : sub[x] = "deleted" => sub'[x] = "deleted"
    BY <2>1 DEF Update, Delete, TypeOK, TableType
  <2>2. ASSUME NEW p \in Procs, ProcessEvent(p) \/ ProcessDelivery(p) \/ Crash(p)
        PROVE  posted \subseteq posted' /\ UNCHANGED <<sub, dropped>>
    BY <2>2 DEF ProcessEvent, ListSubs, FanOut, AckEvent, ProcessDelivery, Check, Post, Retry,
                Archive, AckTask, Crash, history
  <2>3. ASSUME NEW p \in Procs, NEW m \in Messages, TakeEvent(p, m) \/ TakeTask(p, m)
        PROVE  UNCHANGED <<sub, posted, dropped>>
    BY <2>3 DEF TakeEvent, TakeTask, history
  <2>4. ASSUME NEW m \in Messages, AckWait(m)
        PROVE  UNCHANGED <<sub, posted, dropped>>
    BY <2>4 DEF AckWait, history
  <2>5. ASSUME NEW k \in TaskIds, RetryDLQ(k) \/ DeleteDLQ(k) \/ DispatchImmediate(k)
        PROVE  posted \subseteq posted' /\ dropped \subseteq dropped' /\ UNCHANGED sub
    BY <2>5 DEF RetryDLQ, DeleteDLQ, DispatchImmediate, history
  <2>6. FinishRetry \/ UNCHANGED vars => UNCHANGED <<sub, posted, dropped>>
    BY DEF FinishRetry, vars, history
  <2> QED
    BY <2>1, <2>2, <2>3, <2>4, <2>5, <2>6 DEF Next, Messages
<1>2. q[2] \in Subs
  BY DEF Pairs
<1> QED
  BY <1>1, <1>2 DEF Closed

\* A step that touches neither the rows nor the retry, acks nothing and takes
\* no handler to "done" keeps what is kept.
LEMMA KeptQuiet ==
  ASSUME NEW j \in Tasks, Kept(j), UNCHANGED <<rows, admin>>,
         queue'[j] = "acked" => queue[j] = "acked", Done(j)' => Done(j)
  PROVE  Kept(j)'
BY DEF Kept

\* Done(j) with work[p] alone changed.
LEMMA DoneStep ==
  ASSUME TypeOK, NEW p \in Procs, NEW at, NEW k, NEW n, NEW j,
         work' = [work EXCEPT ![p] = Work(at, k, n)], Done(j)'
  PROVE  Done(j) \/ (at = "done" /\ k = j)
BY DEF Done, TypeOK, WorkType, Work

LEMMA FreshKept ==
  ASSUME TypeOK, NEW e \in Events, NEW s \in Subs, Publish(e, s), UNCHANGED work, NEW k, k = tasks + 1
  PROVE  k \in Tasks' /\ Pair(k)' = <<e, s>> /\ Kept(k)'
<1>1. tasks' = tasks + 1 /\ task'[k] = [event |-> e, sub |-> s] /\ queue'[k] = "ready" /\ tasks \in Nat
  BY PublishType DEF TypeOK, BrokerType
<1>2. k \in Tasks' /\ k \notin Tasks
  BY <1>1 DEF Tasks
<1>3. Pair(k)' = <<e, s>>
  BY <1>1 DEF Pair
<1>4. ~ Done(k)'
  BY <1>2 DEF Done, TypeOK, WorkType
<1> QED
  BY <1>1, <1>2, <1>3, <1>4 DEF Kept

Survives(j) == Closed(Pair(j)) \/ \E i \in Tasks : Pair(i) = Pair(j) /\ Kept(i)

\* Whatever kept a pair, something keeps it after the next step.
LEMMA KeptStep ==
  ASSUME TypeOK, OwedInv, [Next]_vars, NEW j \in Tasks, Kept(j)
  PROVE  Survives(j)'
<1>0. j \in Tasks' /\ Pair(j)' = Pair(j) /\ task'[j] = task[j]
  BY TasksKept
<1>a. j \in TaskIds /\ j \in Messages /\ j \notin Events /\ Pair(j) \in Pairs /\ j # Nobody
  BY PairType DEF Messages, TaskIds
<1>b. ASSUME Kept(j)' PROVE Survives(j)'
  BY <1>b, <1>0 DEF Survives
<1>c. ASSUME Closed(Pair(j))' PROVE Survives(j)'
  BY <1>c, <1>0 DEF Survives
<1>d. ASSUME UNCHANGED <<rows, admin, work>>, queue'[j] = "acked" => queue[j] = "acked"
      PROVE  Survives(j)'
  BY <1>b, <1>d, KeptQuiet DEF Done
<1>1. ASSUME NEW m \in Messages, AckWait(m)
      PROVE  Survives(j)'
  BY <1>a, <1>d, <1>1 DEF AckWait, TypeOK, BrokerType
<1>2. ASSUME NEW p \in Procs, NEW e \in Events, TakeEvent(p, e)
      PROVE  Survives(j)'
  BY <1>a, <1>d, <1>2 DEF TakeEvent, Delivered, TypeOK, BrokerType
<1>3. ASSUME NEW p \in Procs, NEW m \in Messages, queue' \in Naked(m), UNCHANGED <<rows, admin, work>>
      PROVE  Survives(j)'
  BY <1>a, <1>d, <1>3, NakedKeeps
<1>4. ASSUME NEW e \in Events, NEW s \in Subs, Publish(e, s), UNCHANGED <<rows, admin, work>>
      PROVE  Survives(j)'
  <2>1. \A x \in Messages : x # tasks + 1 => queue'[x] = queue[x]
    BY <1>4, PublishType
  <2>2. j # tasks + 1
    BY DEF Tasks, TypeOK, BrokerType
  <2> QED
    BY <1>a, <1>d, <1>4, <2>1, <2>2
<1>5. ASSUME NEW p \in Procs, ProcessEvent(p)
      PROVE  Survives(j)'
  <2>1. fan[p].event \in Events /\ fan[p].event \in Messages
    BY <1>5 DEF ProcessEvent, ListSubs, FanOut, AckEvent, TypeOK, FanType, Messages
  <2>2. CASE ListSubs(p)
    BY <1>3, <1>d, <2>1, <2>2 DEF ListSubs, GiveUpEvent, broker
  <2>3. ASSUME NEW s \in Subs, FanOut(p, s)
        PROVE  Survives(j)'
    BY <1>3, <1>4, <2>1, <2>3 DEF FanOut, GiveUpEvent
  <2>4. CASE AckEvent(p)
    BY <1>a, <1>d, <2>1, <2>4 DEF AckEvent, Acked, TypeOK, BrokerType
  <2> QED
    BY <1>5, <2>2, <2>3, <2>4 DEF ProcessEvent
<1>6. ASSUME NEW p \in Procs, NEW k \in TaskIds, TakeTask(p, k)
      PROVE  Survives(j)'
  <2>1. queue'[j] = "acked" => queue[j] = "acked"
    BY <1>a, <1>6 DEF TakeTask, Delivered, TypeOK, BrokerType
  <2>2. Done(j)' => Done(j)
    BY <1>6, DoneStep DEF TakeTask
  <2> QED
    BY <1>b, <1>6, <2>1, <2>2, KeptQuiet DEF TakeTask
<1>7. ASSUME NEW p \in Procs, NEW at, WorkOn(p, at), at # "done", UNCHANGED <<queue, rows, admin>>
      PROVE  Survives(j)'
  <2>1. Done(j)' => Done(j)
    BY <1>7, DoneStep DEF WorkOn
  <2> QED
    BY <1>b, <1>7, <2>1, KeptQuiet
<1>8. ASSUME NEW p \in Procs, GiveUpTask(p), work[p].at # "idle", UNCHANGED <<rows, admin>>
      PROVE  Survives(j)'
  <2>1. work[p].task \in Messages
    BY <1>8, PairType DEF TypeOK, WorkType
  <2>2. queue'[j] = "acked" => queue[j] = "acked"
    BY <1>a, <1>8, <2>1, NakedKeeps DEF GiveUpTask
  <2>3. Done(j)' => Done(j)
    BY <1>8, DoneStep DEF GiveUpTask, NoWork
  <2> QED
    BY <1>b, <1>8, <2>2, <2>3, KeptQuiet
<1>9. ASSUME NEW p \in Procs, Check(p)
      PROVE  Survives(j)'
  BY <1>7, <1>9 DEF Check, broker
<1>10. ASSUME NEW p \in Procs, Post(p)
       PROVE  Survives(j)'
  <2>1. UNCHANGED <<queue, rows, admin>>
    BY <1>10 DEF Post, broker
  <2>2. CASE WorkOn(p, "archive") \/ WorkOn(p, "retry")
    BY <1>7, <2>1, <2>2
  <2>3. CASE WorkOn(p, "done") /\ posted' = posted \cup {Pair(work[p].task)}
    <3>1. CASE work[p].task = j
      BY <1>c, <1>a, <1>0, <2>3, <3>1 DEF Closed
    <3>2. CASE work[p].task # j
      <4>1. Done(j)' => Done(j)
        BY <2>3, <3>2 DEF WorkOn, Done, Work, TypeOK, WorkType
      <4> QED
        BY <1>b, <2>1, <4>1, KeptQuiet
    <3> QED
      BY <3>1, <3>2
  <2> QED
    BY <1>10, <2>2, <2>3 DEF Post
<1>11. ASSUME NEW p \in Procs, Retry(p)
       PROVE  Survives(j)'
  BY <1>7, <1>8, <1>11 DEF Retry, broker
<1>12. ASSUME NEW p \in Procs, Archive(p)
       PROVE  Survives(j)'
  <2>1. CASE GiveUpTask(p) /\ UNCHANGED rows
    BY <1>8, <1>12, <2>1 DEF Archive
  <2>2. CASE rows' = [rows EXCEPT ![work[p].task] = @ + 1] /\ WorkOn(p, "done") /\ UNCHANGED broker
    <3>0. UNCHANGED <<queue, admin>> /\ rows \in [TaskIds -> Nat]
      BY <1>12, <2>2 DEF Archive, broker, TypeOK, TableType
    <3>1. CASE work[p].task = j
      <4>1. rows'[j] = rows[j] + 1 /\ rows[j] \in Nat
        BY <1>a, <2>2, <3>0, <3>1
      <4>2. CASE admin # j
        BY <1>b, <3>0, <4>1, <4>2 DEF Kept
      <4>3. CASE admin = j /\ rows[j] > 0
        BY <1>b, <3>0, <4>1, <4>3 DEF Kept
      <4>4. CASE admin = j /\ Closed(Pair(j))
        BY <1>a, <1>0, <1>c, <4>4, ClosedKept
      <4> QED
        BY <1>a, <4>2, <4>3, <4>4 DEF OwedInv, RetryHasRow
    <3>2. CASE work[p].task # j
      <4>1. rows'[j] = rows[j]
        BY <1>a, <2>2, <3>0, <3>2
      <4>2. Done(j)' => Done(j)
        BY <2>2, <3>2 DEF WorkOn, Done, Work, TypeOK, WorkType
      <4> QED
        BY <1>b, <3>0, <4>1, <4>2 DEF Kept
    <3> QED
      BY <3>1, <3>2
  <2> QED
    BY <1>12, <2>1, <2>2 DEF Archive
<1>13. ASSUME NEW p \in Procs, AckTask(p)
       PROVE  Survives(j)'
  <2>1. UNCHANGED <<rows, admin>> /\ work[p].task \in Messages
    BY <1>13, PairType DEF AckTask, TypeOK, WorkType
  <2>2. CASE work[p].task = j
    <3>1. Done(j)
      BY <1>13, <2>2 DEF AckTask, Done
    <3> QED
      BY <1>b, <2>1, <3>1 DEF Kept
  <2>3. CASE work[p].task # j
    <3>1. queue'[j] = queue[j]
      BY <1>a, <1>13, <2>1, <2>3 DEF AckTask, Acked, TypeOK, BrokerType
    <3>2. Done(j)' => Done(j)
      BY <1>13, DoneStep DEF AckTask, NoWork
    <3> QED
      BY <1>b, <2>1, <3>1, <3>2, KeptQuiet
  <2> QED
    BY <2>2, <2>3
<1>14. ASSUME NEW p \in Procs, Crash(p)
       PROVE  Survives(j)'
  <2>1. Done(j)' => Done(j)
    BY <1>14, DoneStep DEF Crash, NoWork
  <2> QED
    BY <1>b, <1>14, <2>1, KeptQuiet DEF Crash, broker
<1>15. ASSUME NEW s \in Subs, Update(s)
       PROVE  Survives(j)'
  BY <1>d, <1>15 DEF Update, broker
<1>16. ASSUME NEW s \in Subs, Delete(s)
       PROVE  Survives(j)'
  <2>1. CASE task[j].sub = s
    <3>1. sub'[s] = "deleted"
      BY <1>16 DEF Delete, TypeOK, TableType
    <3>2. Pair(j)[2] = s
      BY <2>1 DEF Pair
    <3> QED
      BY <1>0, <1>c, <3>1, <3>2 DEF Closed
  <2>2. CASE task[j].sub # s
    <3>1. rows'[j] = rows[j] /\ UNCHANGED <<queue, admin, work>>
      BY <1>a, <1>16, <2>2 DEF Delete, broker
    <3> QED
      BY <1>b, <3>1 DEF Kept, Done
  <2> QED
    BY <2>1, <2>2
<1>17. CASE FinishRetry
  <2>1. UNCHANGED <<queue, work>> /\ rows \in [TaskIds -> Nat] /\ admin # Nobody /\ admin' = Nobody
    BY <1>17 DEF FinishRetry, broker, TypeOK, TableType
  <2>2. rows[j] > (IF admin = j THEN 1 ELSE 0) => rows'[j] > 0
    BY <1>a, <1>17, <2>1 DEF FinishRetry
  <2> QED
    BY <1>a, <1>b, <2>1, <2>2 DEF Kept, Done
<1>18. ASSUME NEW k \in TaskIds, RetryDLQ(k)
       PROVE  Survives(j)'
  <2>1. k \in Tasks /\ task[k].event \in Events /\ task[k].sub \in Subs
    BY <1>18 DEF RetryDLQ, TypeOK, TableType, BrokerType, Tasks, TaskIds
  <2>2. Publish(task[k].event, task[k].sub) /\ UNCHANGED <<rows, work>> /\ admin' = k
    BY <1>18 DEF RetryDLQ
  <2>3. CASE k = j
    <3>1. PICK i : i = tasks + 1
      OBVIOUS
    <3>2. i \in Tasks' /\ Pair(i)' = <<task[k].event, task[k].sub>> /\ Kept(i)'
      BY <2>1, <2>2, <3>1, FreshKept
    <3>3. Pair(i)' = Pair(j)
      BY <2>3, <3>2 DEF Pair
    <3> QED
      BY <1>0, <3>2, <3>3 DEF Survives
  <2>4. CASE k # j
    <3>1. \A x \in Messages : x # tasks + 1 => queue'[x] = queue[x]
      BY <2>1, <2>2, PublishType
    <3>2. j # tasks + 1
      BY DEF Tasks, TypeOK, BrokerType
    <3>3. queue'[j] = queue[j]
      BY <1>a, <3>1, <3>2
    <3>4. rows[j] \in Nat
      BY <1>a DEF TypeOK, TableType
    <3> QED
      BY <1>b, <2>2, <2>4, <3>3, <3>4 DEF Kept, Done
  <2> QED
    BY <2>3, <2>4
<1>19. ASSUME NEW k \in TaskIds, DeleteDLQ(k)
       PROVE  Survives(j)'
  <2>1. CASE k = j
    BY <1>0, <1>c, <1>19, <2>1 DEF DeleteDLQ, Closed
  <2>2. CASE k # j
    <3>1. rows'[j] = rows[j] /\ UNCHANGED <<queue, admin, work>>
      BY <1>a, <1>19, <2>2 DEF DeleteDLQ, broker, TypeOK, TableType
    <3> QED
      BY <1>b, <3>1 DEF Kept, Done
  <2> QED
    BY <2>1, <2>2
<1>20. ASSUME NEW k \in TaskIds, DispatchImmediate(k)
       PROVE  Survives(j)'
  BY <1>d, <1>20 DEF DispatchImmediate, broker
<1>21. CASE UNCHANGED vars
  BY <1>d, <1>21 DEF vars
<1> QED
  BY <1>1, <1>2, <1>5, <1>6, <1>9, <1>10, <1>11, <1>12, <1>13, <1>14, <1>15, <1>16, <1>17, <1>18,
     <1>19, <1>20, <1>21 DEF Next, ProcessDelivery

\* A retry under way holds a row it will try to delete, or one that an
\* administrator removed in the meantime.
LEMMA RetryStep ==
  ASSUME TypeOK, OwedInv, [Next]_vars
  PROVE  RetryHasRow'
<1>1. CASE UNCHANGED <<rows, admin>>
  <2>1. SUFFICES ASSUME admin # Nobody PROVE (rows[admin] > 0 \/ Closed(Pair(admin)))'
    BY <1>1 DEF RetryHasRow
  <2>2. PICK k : k = admin
    OBVIOUS
  <2>3. k \in Tasks /\ Pair(k) \in Pairs /\ Pair(k)' = Pair(k)
    BY <2>1, <2>2, PairType, TasksKept DEF TypeOK, TableType
  <2>4. rows[k] > 0 \/ Closed(Pair(k))
    BY <2>1, <2>2 DEF OwedInv, RetryHasRow
  <2>5. Closed(Pair(k)) => Closed(Pair(k))'
    BY <2>3, ClosedKept
  <2>6. admin' = k /\ rows' = rows
    BY <1>1, <2>2
  <2>7. CASE rows[k] > 0
    BY <2>6, <2>7
  <2>8. CASE Closed(Pair(k))'
    BY <2>6, <2>8 DEF Closed, Pair
  <2> QED
    BY <2>4, <2>5, <2>7, <2>8
<1>2. ASSUME NEW p \in Procs, Archive(p)
      PROVE  RetryHasRow'
  <2>1. PICK k : k = admin
    OBVIOUS
  <2>2. SUFFICES ASSUME k # Nobody PROVE rows'[k] > 0 \/ Closed(Pair(k))'
    BY <1>2, <2>1 DEF Archive, RetryHasRow, Closed, Pair
  <2>3. k \in Tasks /\ Pair(k) \in Pairs /\ Pair(k)' = Pair(k) /\ k \in TaskIds
    BY <2>1, <2>2, PairType, TasksKept DEF TypeOK, TableType
  <2>4. Closed(Pair(k)) => Closed(Pair(k))'
    BY <2>3, ClosedKept
  <2>5. rows[k] > 0 => rows'[k] > 0
    BY <1>2, <2>3 DEF Archive, TypeOK, TableType
  <2> QED
    BY <2>1, <2>2, <2>4, <2>5 DEF OwedInv, RetryHasRow
<1>3. ASSUME NEW s \in Subs, Delete(s)
      PROVE  RetryHasRow'
  <2>1. PICK k : k = admin
    OBVIOUS
  <2>2. SUFFICES ASSUME k # Nobody PROVE rows'[k] > 0 \/ Closed(Pair(k))'
    BY <1>3, <2>1 DEF Delete, RetryHasRow, Closed, Pair
  <2>3. k \in Tasks /\ Pair(k) \in Pairs /\ Pair(k)' = Pair(k) /\ k \in TaskIds
    BY <2>1, <2>2, PairType, TasksKept DEF TypeOK, TableType
  <2>4. Closed(Pair(k)) => Closed(Pair(k))'
    BY <2>3, ClosedKept
  <2>5. CASE task[k].sub = s
    <3>1. sub'[s] = "deleted"
      BY <1>3 DEF Delete, TypeOK, TableType
    <3>2. Pair(k)[2] = s
      BY <2>5 DEF Pair
    <3> QED
      BY <2>3, <3>1, <3>2 DEF Closed
  <2>6. CASE task[k].sub # s
    <3>1. rows'[k] = rows[k]
      BY <1>3, <2>3, <2>6 DEF Delete
    <3> QED
      BY <2>1, <2>2, <2>4, <3>1 DEF OwedInv, RetryHasRow
  <2> QED
    BY <2>5, <2>6
<1>4. CASE FinishRetry
  BY <1>4 DEF FinishRetry, RetryHasRow
<1>5. ASSUME NEW k \in TaskIds, RetryDLQ(k)
      PROVE  RetryHasRow'
  BY <1>5 DEF RetryDLQ, RetryHasRow
<1>6. ASSUME NEW k \in TaskIds, DeleteDLQ(k)
      PROVE  RetryHasRow'
  <2>1. PICK a : a = admin
    OBVIOUS
  <2>2. SUFFICES ASSUME a # Nobody PROVE rows'[a] > 0 \/ Closed(Pair(a))'
    BY <1>6, <2>1 DEF DeleteDLQ, RetryHasRow, Closed, Pair
  <2>3. a \in Tasks /\ Pair(a) \in Pairs /\ Pair(a)' = Pair(a) /\ a \in TaskIds
    BY <2>1, <2>2, PairType, TasksKept DEF TypeOK, TableType
  <2>4. Closed(Pair(a)) => Closed(Pair(a))'
    BY <2>3, ClosedKept
  <2>5. CASE k = a
    BY <1>6, <2>3, <2>5 DEF DeleteDLQ, Closed
  <2>6. CASE k # a
    <3>1. rows'[a] = rows[a]
      BY <1>6, <2>3, <2>6 DEF DeleteDLQ, TypeOK, TableType
    <3> QED
      BY <2>1, <2>2, <2>4, <3>1 DEF OwedInv, RetryHasRow
  <2> QED
    BY <2>5, <2>6
<1>7. ASSUME NEW p \in Procs, ProcessEvent(p) \/ Check(p) \/ Post(p) \/ Retry(p) \/ AckTask(p) \/ Crash(p)
      PROVE  UNCHANGED <<rows, admin>>
  BY <1>7 DEF ProcessEvent, ListSubs, FanOut, AckEvent, Check, Post, Retry, AckTask, Crash
<1>8. ASSUME NEW p \in Procs, NEW m \in Messages, TakeEvent(p, m) \/ TakeTask(p, m)
      PROVE  UNCHANGED <<rows, admin>>
  BY <1>8 DEF TakeEvent, TakeTask
<1>9. ASSUME NEW m \in Messages, AckWait(m)
      PROVE  UNCHANGED <<rows, admin>>
  BY <1>9 DEF AckWait
<1>10. ASSUME NEW s \in Subs, Update(s)
       PROVE  UNCHANGED <<rows, admin>>
  BY <1>10 DEF Update
<1>11. ASSUME NEW k \in TaskIds, DispatchImmediate(k)
       PROVE  UNCHANGED <<rows, admin>>
  BY <1>11 DEF DispatchImmediate
<1>12. CASE UNCHANGED vars
  BY <1>1, <1>12 DEF vars
<1> QED
  BY <1>1, <1>2, <1>3, <1>4, <1>5, <1>6, <1>7, <1>8, <1>9, <1>10, <1>11, <1>12
     DEF Next, ProcessDelivery, Messages

\* The tasks after a step: those before it, and one that was just published.
LEMMA NewTask ==
  ASSUME TypeOK, [Next]_vars, NEW k \in Tasks', k \notin Tasks
  PROVE  Kept(k)'
<1>1. ASSUME NEW e \in Events, NEW s \in Subs, Publish(e, s), UNCHANGED work
      PROVE  Kept(k)'
  <2>1. k = tasks + 1
    BY <1>1 DEF Publish, Tasks, TypeOK, BrokerType
  <2> QED
    BY <1>1, <2>1, FreshKept
<1>2. CASE UNCHANGED tasks
  BY <1>2 DEF Tasks
<1>3. ASSUME NEW p \in Procs, NEW s \in Subs, FanOut(p, s)
      PROVE  Kept(k)'
  <2>1. fan[p].event \in Events
    BY <1>3 DEF FanOut, TypeOK, FanType
  <2> QED
    BY <1>1, <1>2, <1>3, <2>1 DEF FanOut, GiveUpEvent
<1>4. ASSUME NEW r \in TaskIds, RetryDLQ(r)
      PROVE  Kept(k)'
  <2>1. task[r].event \in Events /\ task[r].sub \in Subs
    BY <1>4 DEF RetryDLQ, TypeOK, TableType, BrokerType, Tasks, TaskIds
  <2> QED
    BY <1>1, <1>4, <2>1 DEF RetryDLQ
<1>5. ASSUME NEW p \in Procs, ListSubs(p) \/ AckEvent(p) \/ ProcessDelivery(p) \/ Crash(p)
      PROVE  UNCHANGED tasks
  BY <1>5 DEF ListSubs, AckEvent, ProcessDelivery, Check, Post, Retry, Archive, AckTask, Crash,
              GiveUpEvent, GiveUpTask, broker
<1>6. ASSUME NEW p \in Procs, NEW m \in Messages, TakeEvent(p, m) \/ TakeTask(p, m)
      PROVE  UNCHANGED tasks
  BY <1>6 DEF TakeEvent, TakeTask, Delivered
<1>7. ASSUME NEW m \in Messages, AckWait(m)
      PROVE  UNCHANGED tasks
  BY <1>7 DEF AckWait
<1>8. ASSUME NEW s \in Subs, Update(s) \/ Delete(s)
      PROVE  UNCHANGED tasks
  BY <1>8 DEF Update, Delete, broker
<1>9. ASSUME NEW r \in TaskIds, DeleteDLQ(r) \/ DispatchImmediate(r)
      PROVE  UNCHANGED tasks
  BY <1>9 DEF DeleteDLQ, DispatchImmediate, broker
<1>10. FinishRetry \/ UNCHANGED vars => UNCHANGED tasks
  BY DEF FinishRetry, vars, broker
<1> QED
  BY <1>2, <1>3, <1>4, <1>5, <1>6, <1>7, <1>8, <1>9, <1>10 DEF Next, ProcessEvent, Messages

LEMMA NextOwed ==
  ASSUME TypeOK, OwedInv, [Next]_vars
  PROVE  OwedInv'
<1>1. ASSUME NEW k \in Tasks'
      PROVE  Survives(k)'
  <2>1. CASE k \notin Tasks
    BY <1>1, <2>1, NewTask DEF Survives
  <2>2. CASE k \in Tasks /\ Closed(Pair(k))
    <3>1. Closed(Pair(k))'
      BY <2>2, PairType, TasksKept, ClosedKept
    <3> QED
      BY <3>1 DEF Survives
  <2>3. ASSUME k \in Tasks, NEW j \in Tasks, Pair(j) = Pair(k), Kept(j)
        PROVE  Survives(k)'
    <3>1. Survives(j)'
      BY <2>3, KeptStep
    <3>2. Pair(j)' = Pair(k)'
      BY <2>3, TasksKept
    <3> QED
      BY <3>1, <3>2 DEF Survives, Closed
  <2> QED
    BY <2>1, <2>2, <2>3 DEF OwedInv, Owed
<1>2. Owed'
  BY <1>1 DEF Owed, Survives
<1> QED
  BY <1>2, RetryStep DEF OwedInv

\* An event owed to a subscription is taken by the endpoint, archived,
\* dropped by an administrator, or still in an unacked task, whatever
\* handlers, restarts and replays do.
THEOREM VanishCorrect == Spec => []NeverVanishes
<1>1. Init => OwedInv
  BY DEF Init, OwedInv, Owed, RetryHasRow, Tasks
<1>2. TypeOK /\ OwedInv /\ [Next]_vars => OwedInv'
  BY NextOwed
<1>3. TypeOK /\ OwedInv => NeverVanishes
  <2>1. SUFFICES ASSUME TypeOK, OwedInv, NEW k \in Tasks, sub[task[k].sub] # "deleted",
                        Pair(k) \notin posted \cup dropped
                 PROVE  \E j \in Tasks : Pair(j) = Pair(k) /\ (rows[j] > 0 \/ queue[j] # "acked")
    BY DEF NeverVanishes
  <2>2. ~ Closed(Pair(k))
    BY <2>1 DEF Closed, Pair
  <2>3. PICK j \in Tasks : Pair(j) = Pair(k) /\ Kept(j)
    BY <2>1, <2>2 DEF OwedInv, Owed
  <2>4. rows[j] \in Nat
    BY <2>1, PairType DEF TypeOK, TableType
  <2> QED
    BY <2>3, <2>4 DEF Kept
<1> QED
  BY TypeCorrect, <1>1, <1>2, <1>3, PTL DEF Spec

=============================================================================
