------------------------------ MODULE Dispatch ------------------------------
(***************************************************************************)
(* The outbound dispatch path of PerGo: the tail of Processor.Ingest that  *)
(* publishes a message to the MESSAGES work queue and counts it, the       *)
(* JetStream consumer that hands it to server processes, and               *)
(* Worker.processMessage / DispatchOrchestrator.Process, which walk the    *)
(* message's channels, keep its row of message_dispatches up to date and   *)
(* publish its status events; and the delivery receipts that rewrite that  *)
(* row once a provider's id of the message is stored in it.                *)
(*                                                                         *)
(* One action is one step between two accesses to something shared: the    *)
(* broker, the database, the provider or the process's own counters.       *)
(* Process may be killed between any two of them.                          *)
(*                                                                         *)
(* Abstractions.  A message is its trace id.  Its channels are positions   *)
(* 0..NumChannels-1 of allChannels (primary first).  A back-off delay or   *)
(* an AckWait is "some later step".  Audit records are left out: no        *)
(* control depends on them.  retryAttempt is always 0, because no          *)
(* publisher writes the X-Retry-Attempt header, so handleFailure's         *)
(* "attempt >= maxRetries" branch is never taken.  Delivery claims are     *)
(* left out: cmd/pergo/main.go never calls SetClaimsRepo.                  *)
(***************************************************************************)
EXTENDS Integers, FiniteSets

CONSTANTS Workers,      \* server processes: each runs Ingest and one Worker
          Traces,       \* trace ids of the messages
          NoTrace,      \* "no message", for an idle worker
          NumChannels,  \* Len(allChannels)
          Registered,   \* positions whose channel has a dispatcher
          Receipted,    \* positions that store the provider's id (whatsapp_cloud)
          Receivers,    \* handlers of receipts that may run at the same time
          Expiring,     \* traces sent with ttl_seconds
          Private,      \* traces marked is_private or internal note
          MaxDeliver,   \* MaxDeliver of the consumer
          QueueLimit,   \* the 1000 of Processor.Ingest
          WatchEvents,  \* whether the run follows the status events
          MaxCrash      \* bound of the model: process restarts

Positions == 0 .. NumChannels - 1

ASSUME DispatchAssumption ==
  /\ Workers # {} /\ IsFiniteSet(Workers)
  /\ NoTrace \notin Traces
  /\ NumChannels \in Nat \ {0}
  /\ Registered \subseteq Positions
  /\ Receipted \subseteq Registered
  /\ Expiring \subseteq Traces
  /\ Private \subseteq Traces
  /\ MaxDeliver \in Nat \ {0}
  /\ QueueLimit \in Nat \ {0}
  /\ WatchEvents \in BOOLEAN
  /\ MaxCrash \in Nat

VARIABLES
  ingest,      \* ingest[t]: how far Ingest got with t, and in which process
  queue,       \* queue[t]: t in the MESSAGES stream, as its consumer sees it
  delivered,   \* delivered[t]: deliveries so far
  buffer,      \* buffer[w][t]: copies of t waiting in w's consume callback
  row,         \* row[t]: the message_dispatches row of t
  known,       \* messages whose row has a provider_message_id
  receipt,     \* receipt[h]: what handler h read of a row, to be written back
  dispatched,  \* dispatched[w]: the in-memory dedup map of w's orchestrator
  job,         \* job[w]: where w's call of Process stands
  depth,       \* depth[w]: QueueDepthTracker of w
  event,       \* event[t]: what the WEBHOOKS stream holds of t
  accepted,    \* accepted[w][t]: times a provider took t from w since w started
  sends,       \* sends[t]: times a provider took t, ever
  refused,     \* refused[t]: positions skipped or refused terminally, ever
  crashes      \* restarts so far

vars == <<ingest, queue, delivered, buffer, row, known, receipt, dispatched, job,
          depth, event, accepted, sends, refused, crashes>>

broker   == <<queue, delivered>>
provider == <<accepted, sends, refused>>
receipts == <<known, receipt>>

\* What the orchestrator writes and publishes, and what a receipt may say.
Status        == {"queued", "sending", "sent", "failed_transient", "failed"}
ReceiptStatus == {"sent", "delivered", "read", "failed"}

\* The row of a message GetOrCreateDispatch has not seen yet.
NoRow == [status |-> "none", index |-> 0]

\* A handler of receipts that has read nothing.
NoReceipt == [trace |-> NoTrace, index |-> 0]

\* lastAttemptedChannel = "": no channel tried in this call of Process.
NotTried == NumChannels

\* A call of Process: the step it is about to take, its message, the loop's
\* position and the last position tried.
Job(at, t, i, last) == [at |-> at, trace |-> t, i |-> i, last |-> last]
Idle == Job("idle", NoTrace, 0, NotTried)

\* The status events of a message: kept by the stream, discarded by it as
\* duplicates, and whether its duplicate window is open.
Event(stored, dropped, window) == [stored |-> stored, dropped |-> dropped, window |-> window]

Init ==
  /\ ingest = [t \in Traces |-> [at |-> "new", on |-> CHOOSE w \in Workers : TRUE]]
  /\ queue = [t \in Traces |-> "none"]
  /\ delivered = [t \in Traces |-> 0]
  /\ buffer = [w \in Workers |-> [t \in Traces |-> 0]]
  /\ row = [t \in Traces |-> NoRow]
  /\ known = {}
  /\ receipt = [h \in Receivers |-> NoReceipt]
  /\ dispatched = [w \in Workers |-> {}]
  /\ job = [w \in Workers |-> Idle]
  /\ depth = [w \in Workers |-> 0]
  /\ event = [t \in Traces |-> Event({}, {}, FALSE)]
  /\ accepted = [w \in Workers |-> [t \in Traces |-> 0]]
  /\ sends = [t \in Traces |-> 0]
  /\ refused = [t \in Traces |-> {}]
  /\ crashes = 0

-----------------------------------------------------------------------------
(* Ingest: backpressure check, publish, count.                             *)

\* tracker.Exceeds: the caller gets ErrQueueFull, or Ingest goes on.
Admit(w, t) ==
  /\ ingest[t].at = "new"
  /\ ingest' = [ingest EXCEPT ![t] =
        [at |-> IF depth[w] >= QueueLimit THEN "rejected" ELSE "admitted",
         on |-> w]]
  /\ UNCHANGED <<broker, buffer, row, dispatched, job, depth, event, provider, crashes, receipts>>

\* publisher.Publish to messages.outbound: stored, or an error to the caller,
\* who is then not counted, whether or not the stream has the message.
Publish(w, t) ==
  /\ ingest[t] = [at |-> "admitted", on |-> w]
  /\ \/ /\ ingest' = [ingest EXCEPT ![t] = [at |-> "published", on |-> w]]
        /\ queue' = [queue EXCEPT ![t] = "ready"]
     \/ /\ ingest' = [ingest EXCEPT ![t] = [at |-> "failed", on |-> w]]
        /\ queue' \in {queue, [queue EXCEPT ![t] = "ready"]}
  /\ UNCHANGED <<delivered, buffer, row, dispatched, job, depth, event, provider, crashes, receipts>>

\* tracker.Increment, after the message is already visible to the workers.
Increment(w, t) ==
  /\ ingest[t] = [at |-> "published", on |-> w]
  /\ ingest' = [ingest EXCEPT ![t] = [at |-> "counted", on |-> w]]
  /\ depth' = [depth EXCEPT ![w] = @ + 1]
  /\ UNCHANGED <<broker, buffer, row, dispatched, job, event, provider, crashes, receipts>>

-----------------------------------------------------------------------------
(* The broker: pull consumer with explicit acks on a work-queue stream.    *)

\* A delivery lands in the buffer of one process's consume callback.
Deliver(w, t) ==
  /\ queue[t] = "ready"
  /\ delivered[t] < MaxDeliver
  /\ queue' = [queue EXCEPT ![t] = "pending"]
  /\ delivered' = [delivered EXCEPT ![t] = @ + 1]
  /\ buffer' = [buffer EXCEPT ![w][t] = @ + 1]
  /\ UNCHANGED <<ingest, row, dispatched, job, depth, event, provider, crashes, receipts>>

\* AckWait runs out, whether or not some process still holds a delivery.
AckWait(t) ==
  /\ queue[t] = "pending"
  /\ queue' = [queue EXCEPT ![t] = "ready"]
  /\ UNCHANGED <<ingest, delivered, buffer, row, dispatched, job, depth, event, provider, crashes, receipts>>

\* The duplicate window of the WEBHOOKS stream passes for t's message id.
WindowPasses(t) ==
  /\ event[t].window
  /\ event' = [event EXCEPT ![t] = Event(@.stored, @.dropped, FALSE)]
  /\ UNCHANGED <<ingest, broker, buffer, row, dispatched, job, depth, provider, crashes, receipts>>

\* What an ack or a nak can do to the stream: nothing when it is lost, or
\* when another delivery of the message was acked before.
Acked(t) == {queue, [queue EXCEPT ![t] = "acked"]}
Naked(t) == {queue} \cup IF queue[t] = "acked" THEN {}
                                ELSE {[queue EXCEPT ![t] = "ready"]}

\* publishWebhookEvent(s): Nats-Msg-Id is the trace id, so inside the window
\* every event after the first is discarded as a duplicate; a publish error
\* is logged and forgotten.  Nothing in the dispatch path reads the events.
Published(t, s) ==
  {event} \cup IF ~WatchEvents THEN {}
               ELSE IF event[t].window
                    THEN {[event EXCEPT ![t] = Event(@.stored, @.dropped \cup {s}, TRUE)]}
                    ELSE {[event EXCEPT ![t] = Event(@.stored \cup {s}, @.dropped, TRUE)]}

-----------------------------------------------------------------------------
(* The worker.                                                             *)

\* The consume callback is called for one buffered delivery at a time.
Take(w, t) ==
  /\ job[w].at = "idle"
  /\ buffer[w][t] > 0
  /\ buffer' = [buffer EXCEPT ![w][t] = @ - 1]
  /\ job' = [job EXCEPT ![w] = Job("gate", t, 0, NotTried)]
  /\ UNCHANGED <<ingest, broker, row, dispatched, depth, event, provider, crashes, receipts>>

GoTo(w, label) == job' = [job EXCEPT ![w] = Job(label, @.trace, @.i, @.last)]

\* The fallback loop of w is about to look at position i.
Visit(w, i) == job' = [job EXCEPT ![w] = Job("loop", @.trace, i, @.last)]

\* The message has expired; i is the position its row stood on when read.
Lapse(w, i) == job' = [job EXCEPT ![w] = Job("expired", @.trace, i, @.last)]

\* GetOrCreateDispatch: the row, created "queued" at index 0 if there is none.
Row(t) == IF row[t] = NoRow THEN [status |-> "queued", index |-> 0] ELSE row[t]

\* Mutant of Pass: the in-memory map is filled but not consulted.
PassNoDedup(w, t) ==
  /\ row' = [row EXCEPT ![t] = Row(t)]
  /\ event' \in IF Row(t).status = "queued" THEN Published(t, "queued") ELSE {event}
  /\ IF Row(t).status = "sent"
     THEN GoTo(w, "ack") /\ UNCHANGED dispatched
     ELSE /\ dispatched' = [dispatched EXCEPT ![w] = @ \cup {t}]
          /\ \/ t \in Expiring /\ Lapse(w, Row(t).index)
             \/ Visit(w, Row(t).index)

\* Mutant of Pass: a row that says "sent" is not recognised.
PassIgnoresSent(w, t) ==
  /\ row' = [row EXCEPT ![t] = Row(t)]
  /\ event' \in IF Row(t).status = "queued" THEN Published(t, "queued") ELSE {event}
  /\ dispatched' = [dispatched EXCEPT ![w] = @ \cup {t}]
  /\ IF t \in dispatched[w]
     THEN GoTo(w, "ack")
     ELSE Visit(w, Row(t).index)

\* Mutant of Pass: the walk restarts at the primary channel.
PassFromPrimary(w, t) ==
  /\ row' = [row EXCEPT ![t] = Row(t)]
  /\ event' \in IF Row(t).status = "queued" THEN Published(t, "queued") ELSE {event}
  /\ IF Row(t).status = "sent"
     THEN GoTo(w, "ack") /\ UNCHANGED dispatched
     ELSE /\ dispatched' = [dispatched EXCEPT ![w] = @ \cup {t}]
          /\ IF t \in dispatched[w]
             THEN GoTo(w, "ack")
             ELSE Visit(w, 0)

\* The gate when the database answers: already sent, the in-memory map, the
\* TTL, and the position the walk starts from.
Pass(w, t) ==
  /\ row' = [row EXCEPT ![t] = Row(t)]
  /\ event' \in IF Row(t).status = "queued" THEN Published(t, "queued") ELSE {event}
  /\ IF Row(t).status = "sent"
     THEN GoTo(w, "ack") /\ UNCHANGED dispatched
     ELSE /\ dispatched' = [dispatched EXCEPT ![w] = @ \cup {t}]
          /\ IF t \in dispatched[w]
             THEN GoTo(w, "ack")
             ELSE \/ t \in Expiring /\ Lapse(w, Row(t).index)
                  \/ Visit(w, Row(t).index)

\* Process up to the fallback loop: a private message is acked and not sent;
\* a database error, with or without the row created, goes to handleFailure.
\* (A start index outside allChannels cannot occur: the row's index is a
\* position of the same message.)
Gate(w) ==
  LET t == job[w].trace IN
  /\ job[w].at = "gate"
  /\ \/ t \in Private /\ GoTo(w, "ack") /\ UNCHANGED <<row, dispatched, event>>
     \/ t \notin Private /\ Pass(w, t)
     \/ /\ t \notin Private
        /\ GoTo(w, "fail")
        /\ row' \in {row, [row EXCEPT ![t] = Row(t)]}
        /\ UNCHANGED <<dispatched, event>>
  /\ UNCHANGED <<ingest, broker, buffer, depth, provider, crashes, receipts>>

\* UpdateDispatchStatus with its error ignored: written, or not.
Updated(t, s, i) == {row, [row EXCEPT ![t] = [status |-> s, index |-> i]]}

\* TTL enforcement: the row fails where it stood at the gate.
Expire(w) ==
  LET t == job[w].trace IN
  /\ job[w].at = "expired"
  /\ row' \in Updated(t, "failed", job[w].i)
  /\ event' \in Published(t, "failed")
  /\ GoTo(w, "ack")
  /\ UNCHANGED <<ingest, broker, buffer, dispatched, depth, provider, crashes, receipts>>

\* Mutant of Advance: "continue" without moving to the next position.
AdvanceStays(w) ==
  /\ Visit(w, job[w].i)
  /\ refused' = [refused EXCEPT ![job[w].trace] = @ \cup {job[w].i}]

\* "continue" in the fallback loop: the next position.
Advance(w) ==
  /\ Visit(w, job[w].i + 1)
  /\ refused' = [refused EXCEPT ![job[w].trace] = @ \cup {job[w].i}]

\* The recipient has no identity on the channel: next position.
Skip(w) ==
  /\ job[w].at = "loop"
  /\ job[w].i < NumChannels
  /\ Advance(w)
  /\ UNCHANGED <<ingest, broker, buffer, row, dispatched, depth, event, accepted, sends, crashes, receipts>>

\* Mutant of Begin: the row says "sent" before the channel answers.
BeginMarksSent(w) ==
  LET t == job[w].trace
      i == job[w].i
  IN
  /\ job[w].at = "loop"
  /\ i < NumChannels
  /\ \/ /\ row' = [row EXCEPT ![t] = [status |-> "sent", index |-> i]]
        /\ event' \in Published(t, "sent")
        /\ job' = [job EXCEPT ![w] = Job("send", t, i, i)]
     \/ GoTo(w, "fail") /\ row' \in Updated(t, "sending", i) /\ UNCHANGED event
  /\ UNCHANGED <<ingest, broker, buffer, dispatched, depth, provider, crashes, receipts>>

\* Status "sending" before the channel is called; an error gives up for now,
\* whether or not the statement took effect.
Begin(w) ==
  LET t == job[w].trace
      i == job[w].i
  IN
  /\ job[w].at = "loop"
  /\ i < NumChannels
  /\ \/ /\ row' = [row EXCEPT ![t] = [status |-> "sending", index |-> i]]
        /\ event' \in Published(t, "sending")
        /\ job' = [job EXCEPT ![w] = Job("send", t, i, i)]
     \/ GoTo(w, "fail") /\ row' \in Updated(t, "sending", i) /\ UNCHANGED event
  /\ UNCHANGED <<ingest, broker, buffer, dispatched, depth, provider, crashes, receipts>>

\* The provider takes the message.
Accept(w, t) ==
  /\ accepted' = [accepted EXCEPT ![w][t] = @ + 1]
  /\ sends' = [sends EXCEPT ![t] = @ + 1]
  /\ UNCHANGED refused

\* dispatchToChannel.  A channel without a dispatcher reports success; a
\* transient error does not say whether the provider took the message.
Send(w) ==
  LET t == job[w].trace IN
  /\ job[w].at = "send"
  /\ IF job[w].i \notin Registered
     THEN GoTo(w, "sent") /\ UNCHANGED provider
     ELSE \/ GoTo(w, "sent") /\ Accept(w, t)
          \/ GoTo(w, "transient") /\ (Accept(w, t) \/ UNCHANGED provider)
          \/ Advance(w) /\ UNCHANGED <<accepted, sends>>
  /\ UNCHANGED <<ingest, broker, buffer, row, dispatched, depth, event, crashes, receipts>>

\* Success: status "sent", on whatsapp_cloud the id the provider gave the
\* message, if it gave one, then the event and the ack.
RecordSent(w) ==
  LET t == job[w].trace IN
  /\ job[w].at = "sent"
  /\ row' \in Updated(t, "sent", job[w].i)
  /\ known' \in {known} \cup IF job[w].i \in Receipted THEN {known \cup {t}} ELSE {}
  /\ event' \in Published(t, "sent")
  /\ GoTo(w, "ack")
  /\ UNCHANGED <<ingest, broker, buffer, dispatched, depth, provider, crashes, receipt>>

\* Mutant of RecordTransient: a transient error moves on to the next channel.
RecordTransientAdvances(w) ==
  LET t == job[w].trace IN
  /\ job[w].at = "transient"
  /\ row' \in Updated(t, "failed_transient", IF job[w].i + 1 < NumChannels THEN job[w].i + 1 ELSE job[w].i)
  /\ event' \in Published(t, "failed_transient")
  /\ GoTo(w, "fail")
  /\ UNCHANGED <<ingest, broker, buffer, dispatched, depth, provider, crashes, receipts>>

\* Transient error: status "failed_transient", event, then handleFailure.
RecordTransient(w) ==
  LET t == job[w].trace IN
  /\ job[w].at = "transient"
  /\ row' \in Updated(t, "failed_transient", job[w].i)
  /\ event' \in Published(t, "failed_transient")
  /\ GoTo(w, "fail")
  /\ UNCHANGED <<ingest, broker, buffer, dispatched, depth, provider, crashes, receipts>>

\* All channels exhausted: the row fails at the last position tried, or at
\* the last position when none was.
Exhaust(w) ==
  LET t == job[w].trace IN
  /\ job[w].at = "loop"
  /\ job[w].i = NumChannels
  /\ row' \in Updated(t, "failed", IF job[w].last = NotTried THEN NumChannels - 1
                                                             ELSE job[w].last)
  /\ event' \in Published(t, "failed")
  /\ GoTo(w, "ack")
  /\ UNCHANGED <<ingest, broker, buffer, dispatched, depth, provider, crashes, receipts>>

\* Mutant of Decrement: no floor.
DecrementNoFloor(w) == depth' = [depth EXCEPT ![w] = @ - 1]

\* Decrement floors at 0.
Decrement(w) == depth' = [depth EXCEPT ![w] = IF @ > 0 THEN @ - 1 ELSE 0]

\* ack: acknowledge, decrement, return; the ack itself may be lost.
Ack(w) ==
  /\ job[w].at = "ack"
  /\ queue' \in Acked(job[w].trace)
  /\ Decrement(w)
  /\ job' = [job EXCEPT ![w] = Idle]
  /\ UNCHANGED <<ingest, delivered, buffer, row, dispatched, event, provider, crashes, receipts>>

\* handleFailure: NakWithDelay, or ack when the nak cannot be sent.
HandleFailure(w) ==
  /\ job[w].at = "fail"
  /\ \/ /\ queue' \in Naked(job[w].trace)
        /\ job' = [job EXCEPT ![w] = Idle]
     \/ GoTo(w, "ack") /\ UNCHANGED queue
  /\ UNCHANGED <<ingest, delivered, buffer, row, dispatched, depth, event, provider, crashes, receipts>>

\* The process dies and restarts: what it kept in memory is gone.
Crash(w) ==
  /\ crashes < MaxCrash
  /\ crashes' = crashes + 1
  /\ job' = [job EXCEPT ![w] = Idle]
  /\ buffer' = [buffer EXCEPT ![w] = [t \in Traces |-> 0]]
  /\ dispatched' = [dispatched EXCEPT ![w] = {}]
  /\ depth' = [depth EXCEPT ![w] = 0]
  /\ accepted' = [accepted EXCEPT ![w] = [t \in Traces |-> 0]]
  /\ ingest' = [t \in Traces |->
        IF ingest[t].on = w /\ ingest[t].at \in {"admitted", "published"}
        THEN [at |-> "failed", on |-> w] ELSE ingest[t]]
  /\ UNCHANGED <<broker, row, event, sends, refused, receipts>>

-----------------------------------------------------------------------------
(* Receipts: the provider says what became of a message, in any order, as  *)
(* often as it likes, to any process.                                      *)

\* status_update: the row is looked up by the provider's id; without one
\* there is nothing to do.
ReadReceipt(h, t) ==
  /\ receipt[h] = NoReceipt
  /\ t \in known
  /\ receipt' = [receipt EXCEPT ![h] = [trace |-> t, index |-> row[t].index]]
  /\ UNCHANGED <<ingest, broker, buffer, row, known, dispatched, job, depth, event, provider, crashes>>

\* The status of the receipt goes into the row, with the channel and the index
\* read before; or nothing, when the statement fails or the process is killed.
\* messages.status_updated is a subject of no stream: no event is stored.
WriteReceipt(h) ==
  /\ receipt[h] # NoReceipt
  /\ \E s \in ReceiptStatus : row' \in Updated(receipt[h].trace, s, receipt[h].index)
  /\ receipt' = [receipt EXCEPT ![h] = NoReceipt]
  /\ UNCHANGED <<ingest, broker, buffer, known, dispatched, job, depth, event, provider, crashes>>

\* The e-mail tracking and SES handlers: one statement that sets the status
\* of the row with the provider's id and nothing else.
EmailReceipt(t) ==
  /\ t \in known
  /\ \E s \in ReceiptStatus \ {"sent"} : row' \in Updated(t, s, row[t].index)
  /\ UNCHANGED <<ingest, broker, buffer, dispatched, job, depth, event, provider, crashes, receipts>>

-----------------------------------------------------------------------------
Process(w) ==
  \/ Gate(w) \/ Expire(w) \/ Skip(w) \/ Begin(w) \/ Send(w)
  \/ RecordSent(w) \/ RecordTransient(w) \/ Exhaust(w)
  \/ Ack(w) \/ HandleFailure(w)

Receipt ==
  \/ \E h \in Receivers, t \in Traces : ReadReceipt(h, t)
  \/ \E h \in Receivers : WriteReceipt(h)
  \/ \E t \in Traces : EmailReceipt(t)

Next ==
  \/ \E w \in Workers, t \in Traces :
       Admit(w, t) \/ Publish(w, t) \/ Increment(w, t) \/ Deliver(w, t) \/ Take(w, t)
  \/ \E t \in Traces : AckWait(t) \/ WindowPasses(t)
  \/ \E w \in Workers : Process(w) \/ Crash(w)
  \/ Receipt

\* Every call of Process returns (its calls have deadlines), the broker
\* redelivers what is not acked, and a live process drains its buffer.
Fairness ==
  /\ \A w \in Workers : WF_vars(Process(w))
  /\ \A w \in Workers, t \in Traces : WF_vars(Take(w, t))
  /\ \A t \in Traces : /\ WF_vars(\E w \in Workers : Deliver(w, t))
                       /\ WF_vars(AckWait(t))

Spec == Init /\ [][Next]_vars
FairSpec == Spec /\ Fairness
-----------------------------------------------------------------------------
(* Properties.                                                             *)

Labels == {"idle", "gate", "expired", "loop", "send", "sent", "transient", "ack", "fail"}

Ingests == [at : {"new", "rejected", "admitted", "published", "counted", "failed"},
            on : Workers]
Rows    == [status : Status \cup ReceiptStatus \cup {"none"}, index : Positions]
Reads   == [trace : Traces, index : Positions] \cup {NoReceipt}
Jobs    == [at : Labels, trace : Traces \cup {NoTrace},
            i : 0 .. NumChannels, last : 0 .. NumChannels]
Events  == [stored : SUBSET Status, dropped : SUBSET Status, window : BOOLEAN]

\* Every variable holds a value of its kind; a worker that is not idle
\* works on a message.
TypeOK ==
  /\ ingest \in [Traces -> Ingests]
  /\ queue \in [Traces -> {"none", "ready", "pending", "acked"}]
  /\ delivered \in [Traces -> 0 .. MaxDeliver]
  /\ buffer \in [Workers -> [Traces -> Nat]]
  /\ row \in [Traces -> Rows]
  /\ known \subseteq Traces
  /\ receipt \in [Receivers -> Reads]
  /\ dispatched \in [Workers -> SUBSET Traces]
  /\ job \in [Workers -> Jobs]
  /\ \A w \in Workers : job[w].at # "idle" => job[w].trace \in Traces
  /\ depth \in [Workers -> Nat]
  /\ event \in [Traces -> Events]
  /\ accepted \in [Workers -> [Traces -> Nat]]
  /\ sends \in [Traces -> Nat]
  /\ refused \in [Traces -> SUBSET Positions]
  /\ crashes \in 0 .. MaxCrash

\* Between two restarts a process makes a provider take a message at most
\* once, however often the broker redelivers it, whatever acks, naks and
\* status updates are lost, and even when a provider takes a message and
\* reports a transient error (orchestrator.go, "In-memory dedup fast path").
OncePerLifetime == \A w \in Workers, t \in Traces : accepted[w][t] <= 1

\* A row never stands on a channel while an earlier channel of the message
\* has been neither refused terminally nor skipped: a transient failure, a
\* crash or a redelivery resumes the walk and never jumps ahead, and neither
\* does the stale index a receipt writes back (orchestrator.go, fallback
\* loop and dispatch.FallbackIndex; inbound/processor.go, status_update).
NoChannelBypassed ==
  \A t \in Traces : \A p \in Positions : p < row[t].index => p \in refused[t]

\* A row says "sent", "delivered" or "read" only if a provider took the
\* message, or the row stands on a channel that has no dispatcher: no receipt
\* finds the row of a message that was not sent (orchestrator.go,
\* dispatchToChannel and UpdateProviderMessageID).
SentWasAccepted ==
  \A t \in Traces :
    row[t].status \in {"sent", "delivered", "read"} =>
      sends[t] > 0 \/ row[t].index \notin Registered

\* A client is told "sent" only if a provider took the message or the walk,
\* refused by every channel before it, has come to a channel without a
\* dispatcher, and "failed" only if the message expired or every channel
\* refused it or had no recipient, in whichever calls of Process that
\* happened (orchestrator.go, publishWebhookEvent after each status update,
\* whose own result is ignored).
StatusEventsTrue ==
  \A t \in Traces :
    LET told == event[t].stored \cup event[t].dropped IN
    /\ "sent" \in told => \/ sends[t] > 0
                          \/ \E p \in Positions \ Registered : 0 .. (p - 1) \subseteq refused[t]
    /\ "failed" \in told => t \in Expiring \/ refused[t] = Positions

\* With one server process "sent" is final for a message no receipt can
\* find: no redelivery, lost ack or restart moves its row again
\* (orchestrator.go, "status already sent").
SentIsFinal ==
  [][\A t \in Traces \ known : row[t].status = "sent" => row'[t] = row[t]]_vars

\* With one server process the walk of a message no receipt can find never
\* returns to a channel it has left (orchestrator.go, dispatch.FallbackIndex).
NeverGoesBack ==
  [][\A t \in Traces \ known : row[t].index <= row'[t].index]_vars

\* What the sender was told of t's end; a discarded event counts.
ToldEnd(t) == (event[t].stored \cup event[t].dropped) \cap {"sent", "failed"}

O == INSTANCE Outcome WITH told <- [t \in Traces |-> ToldEnd(t)],
                           restarts <- crashes,
                           Processes <- Cardinality(Workers)

\* The dispatch path implements module Outcome: whatever is redelivered, lost
\* or restarted half-way, channels are tried in order, a message is taken at
\* most once per life of a process, and what the sender is told is true.
ImplementsOutcome == O!Spec

\* No delivery of t is waiting or being processed, and none will come.
Settled(t) ==
  /\ queue[t] = "acked" \/ delivered[t] = MaxDeliver
  /\ \A w \in Workers : buffer[w][t] = 0 /\ job[w].trace # t

\* Every published message is settled in the end: acked, or out of
\* deliveries, with no process still holding it.
PublishedSettles == \A t \in Traces : queue[t] = "ready" ~> Settled(t)

-----------------------------------------------------------------------------
(* What the documentation says and the code does not do: see README.       *)

\* No user receives a message twice (docs/architecture/summary.md:19).
AtMostOnce == \A t \in Traces : sends[t] <= 1

\* The redelivery of a message that failed transiently is not dropped as a
\* duplicate: it is retried (orchestrator.go:279, resilience.md:80).
TransientIsRetried ==
  [][\A w \in Workers :
       job[w].at = "gate" /\ job'[w].at = "ack"
         => row[job[w].trace].status # "failed_transient"]_vars

\* Dedup by message id discards only repetitions of a stored status event
\* (jetstream.go:180, resilience.md:75).
OnlyRepeatsDropped == \A t \in Traces : event[t].dropped \subseteq event[t].stored

\* When every message is acked and nothing is under way, the depth is 0
\* (docs/architecture/summary.md:20, "tracks per-workspace pending messages").
DepthReturnsToZero ==
  (/\ \A t \in Traces : queue[t] = "acked" /\ ingest[t].at = "counted"
   /\ \A w \in Workers : job[w].at = "idle" /\ \A t \in Traces : buffer[w][t] = 0)
    => \A w \in Workers : depth[w] = 0

\* "duplicate delivery prevented (status already sent)" (orchestrator.go:117):
\* a message whose row has said "sent" is not sent again.  A receipt turns
\* "sent" into "delivered", which the gate does not know.
SentNotRepeated ==
  [][\A t \in Traces : row[t].status \in {"sent", "delivered", "read"} => sends'[t] = sends[t]]_vars

\* "If all configured channels fail, the dispatch status is finalized as
\* `failed`" (docs/architecture/resilience.md:82).
FailedIsFinal ==
  [][\A t \in Traces : row[t].status = "failed" => row'[t].status = "failed"]_vars

\* A row says "sent" only if a provider took the message
\* (docs/adr/0001-deepen-worker-into-dispatch-orchestrator.md).
SentMeansSent == \A t \in Traces : row[t].status = "sent" => sends[t] > 0
=============================================================================
