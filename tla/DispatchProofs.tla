--------------------------- MODULE DispatchProofs ---------------------------
(***************************************************************************)
(* Proofs about Dispatch, for any number of processes, messages, channels, *)
(* deliveries and restarts.                                                *)
(***************************************************************************)
EXTENDS Dispatch, FiniteSetTheorems, TLAPS

\* A job that has called a channel stands on one of its message's channels.
OnChannel ==
  \A w \in Workers : job[w].at \in {"expired", "send", "sent", "transient"} => job[w].i \in Positions

TypeInv == TypeOK /\ OnChannel

-----------------------------------------------------------------------------
LEMMA InitType == Init => TypeInv
  BY DispatchAssumption
  DEF Init, TypeInv, TypeOK, OnChannel, Positions, Status, Labels, NoRow, Idle, NotTried, Event, Job,
      Ingests, Rows, Jobs, Events, Reads, NoReceipt

LEMMA IngestType ==
  ASSUME TypeInv, NEW w \in Workers, NEW t \in Traces,
         Admit(w, t) \/ Publish(w, t) \/ Increment(w, t)
  PROVE  TypeInv'
<1>1. CASE Admit(w, t)
  BY <1>1 DEF TypeInv, TypeOK, OnChannel, Admit, Ingests, broker, provider, receipts
<1>2. CASE Publish(w, t)
  <2>1. ingest' \in [Traces -> Ingests]
    <3>1. [at |-> "published", on |-> w] \in Ingests /\ [at |-> "failed", on |-> w] \in Ingests
      BY DEF Ingests
    <3> QED BY <1>2, <3>1 DEF TypeInv, TypeOK, Publish
  <2>2. queue' \in [Traces -> {"none", "ready", "pending", "acked"}]
    BY <1>2 DEF TypeInv, TypeOK, Publish
  <2> QED BY <1>2, <2>1, <2>2 DEF TypeInv, TypeOK, OnChannel, Publish, provider, receipts
<1>3. CASE Increment(w, t)
  BY <1>3 DEF TypeInv, TypeOK, OnChannel, Increment, Ingests, broker, provider, receipts
<1> QED BY <1>1, <1>2, <1>3

LEMMA BrokerType ==
  ASSUME TypeInv, NEW t \in Traces,
         AckWait(t) \/ WindowPasses(t) \/ \E w \in Workers : Deliver(w, t) \/ Take(w, t)
  PROVE  TypeInv'
<1>1. CASE AckWait(t)
  BY <1>1 DEF TypeInv, TypeOK, OnChannel, AckWait, provider, receipts
<1>2. CASE WindowPasses(t)
  BY <1>2 DEF TypeInv, TypeOK, OnChannel, WindowPasses, Events, Event, broker, provider, receipts
<1>3. ASSUME NEW w \in Workers, Deliver(w, t) PROVE TypeInv'
  BY <1>3, DispatchAssumption DEF TypeInv, TypeOK, OnChannel, Deliver, provider, receipts
<1>4. ASSUME NEW w \in Workers, Take(w, t) PROVE TypeInv'
  BY <1>4, DispatchAssumption DEF TypeInv, TypeOK, OnChannel, Take, Jobs, Job, Idle, NotTried, Labels, broker, provider, receipts
<1> QED BY <1>1, <1>2, <1>3, <1>4

\* What the helpers of the worker's steps return.
LEMMA PublishedType ==
  ASSUME TypeInv, NEW t \in Traces, NEW s \in Status
  PROVE  Published(t, s) \subseteq [Traces -> Events]
<1>1. event \in [Traces -> Events]
  BY DEF TypeInv, TypeOK
<1>2. /\ Event(event[t].stored, event[t].dropped \cup {s}, TRUE) \in Events
      /\ Event(event[t].stored \cup {s}, event[t].dropped, TRUE) \in Events
  BY <1>1 DEF Events, Event
<1>3. /\ [event EXCEPT ![t] = Event(@.stored, @.dropped \cup {s}, TRUE)] \in [Traces -> Events]
      /\ [event EXCEPT ![t] = Event(@.stored \cup {s}, @.dropped, TRUE)] \in [Traces -> Events]
  BY <1>1, <1>2
<1> QED BY <1>1, <1>3 DEF Published

LEMMA UpdatedType ==
  ASSUME TypeInv, NEW t \in Traces, NEW s \in Status \cup ReceiptStatus, NEW i \in Positions
  PROVE  Updated(t, s, i) \subseteq [Traces -> Rows]
  BY DEF TypeInv, TypeOK, Updated, Rows

LEMMA GoToType ==
  ASSUME TypeInv, NEW w \in Workers, NEW l \in Labels, job[w].trace \in Traces,
         l \in {"expired", "send", "sent", "transient"} => job[w].i \in Positions, GoTo(w, l)
  PROVE  /\ job' \in [Workers -> Jobs]
         /\ \A v \in Workers : job'[v].at # "idle" => job'[v].trace \in Traces
         /\ OnChannel'
  BY DEF TypeInv, TypeOK, OnChannel, GoTo, Jobs, Job

LEMMA VisitType ==
  ASSUME TypeInv, NEW w \in Workers, NEW i \in 0 .. NumChannels, job[w].trace \in Traces,
         Visit(w, i)
  PROVE  /\ job' \in [Workers -> Jobs]
         /\ \A v \in Workers : job'[v].at # "idle" => job'[v].trace \in Traces
         /\ OnChannel'
  BY DEF TypeInv, TypeOK, OnChannel, Visit, Jobs, Job, Labels

LEMMA LapseType ==
  ASSUME TypeInv, NEW w \in Workers, NEW i \in Positions, job[w].trace \in Traces,
         Lapse(w, i)
  PROVE  /\ job' \in [Workers -> Jobs]
         /\ \A v \in Workers : job'[v].at # "idle" => job'[v].trace \in Traces
         /\ OnChannel'
<1>1. i \in 0 .. NumChannels
  BY DispatchAssumption DEF Positions
<1> QED BY <1>1 DEF TypeInv, TypeOK, OnChannel, Lapse, Jobs, Job, Labels

LEMMA GateType ==
  ASSUME TypeInv, NEW w \in Workers, Gate(w)
  PROVE  TypeInv'
<1> DEFINE t == job[w].trace
<1>1. t \in Traces
  BY DEF TypeInv, TypeOK, Gate
<1>2. Row(t) \in Rows /\ Row(t).index \in 0 .. NumChannels /\ Row(t).index \in Positions
  BY <1>1, DispatchAssumption DEF TypeInv, TypeOK, Row, Rows, Status, Positions
<1>3. CASE Pass(w, t)
  <2>1. row' \in [Traces -> Rows]
    BY <1>1, <1>2, <1>3 DEF Pass, TypeInv, TypeOK
  <2>2. event' \in [Traces -> Events]
    <3>1. "queued" \in Status BY DEF Status
    <3> QED BY <1>1, <1>3, <3>1, PublishedType DEF Pass, TypeInv, TypeOK
  <2>3. dispatched' \in [Workers -> SUBSET Traces]
    <3>1. dispatched \in [Workers -> SUBSET Traces] BY DEF TypeInv, TypeOK
    <3>2. [dispatched EXCEPT ![w] = @ \cup {t}] \in [Workers -> SUBSET Traces]
      BY <1>1, <3>1
    <3> QED BY <1>3, <3>1, <3>2 DEF Pass
  <2>4. /\ job' \in [Workers -> Jobs]
        /\ \A v \in Workers : job'[v].at # "idle" => job'[v].trace \in Traces
        /\ OnChannel'
    <3>1. GoTo(w, "ack") \/ Lapse(w, Row(t).index) \/ Visit(w, Row(t).index)
      BY <1>3 DEF Pass
    <3>2. "ack" \in Labels
      BY DEF Labels
    <3> QED BY <1>1, <1>2, <3>1, <3>2, GoToType, VisitType, LapseType
  <2> QED BY <2>1, <2>2, <2>3, <2>4 DEF Gate, TypeInv, TypeOK, broker, provider, receipts
<1>4. CASE /\ GoTo(w, "fail") \/ GoTo(w, "ack")
           /\ row' \in {row, [row EXCEPT ![t] = Row(t)]}
           /\ UNCHANGED <<dispatched, event>>
  <2>1. "fail" \in Labels /\ "ack" \in Labels BY DEF Labels
  <2>2. /\ job' \in [Workers -> Jobs]
        /\ \A v \in Workers : job'[v].at # "idle" => job'[v].trace \in Traces
        /\ OnChannel'
    BY <1>1, <1>4, <2>1, GoToType
  <2>3. row' \in [Traces -> Rows]
    BY <1>1, <1>2, <1>4 DEF TypeInv, TypeOK
  <2> QED BY <1>4, <2>2, <2>3 DEF Gate, TypeInv, TypeOK, broker, provider, receipts
<1> QED BY <1>3, <1>4 DEF Gate

\* The four steps that record a status and go on.
LEMMA RecordType ==
  ASSUME TypeInv, NEW w \in Workers,
         Expire(w) \/ RecordSent(w) \/ RecordTransient(w) \/ Exhaust(w)
  PROVE  TypeInv'
<1> DEFINE t == job[w].trace
<1>1. t \in Traces
  BY DEF TypeInv, TypeOK, Expire, RecordSent, RecordTransient, Exhaust
<1>2. "ack" \in Labels /\ "fail" \in Labels
  BY DEF Labels
<1>3. "sent" \in Status /\ "failed" \in Status /\ "failed_transient" \in Status
  BY DEF Status
<1>4. GoTo(w, "ack") \/ GoTo(w, "fail")
  BY DEF Expire, RecordSent, RecordTransient, Exhaust
<1>5. /\ job' \in [Workers -> Jobs]
      /\ \A v \in Workers : job'[v].at # "idle" => job'[v].trace \in Traces
      /\ OnChannel'
  BY <1>1, <1>2, <1>4, GoToType
<1>6. event' \in [Traces -> Events]
  BY <1>1, <1>3, PublishedType DEF Expire, RecordSent, RecordTransient, Exhaust
<1>7. row' \in [Traces -> Rows]
  <2>1. CASE Expire(w)
    <3>1. job[w].i \in Positions BY <2>1 DEF Expire, TypeInv, OnChannel
    <3> QED BY <1>1, <1>3, <2>1, <3>1, UpdatedType DEF Expire
  <2>2. CASE RecordSent(w)
    <3>1. job[w].i \in Positions BY <2>2 DEF RecordSent, TypeInv, OnChannel
    <3> QED BY <1>1, <1>3, <2>2, <3>1, UpdatedType DEF RecordSent
  <2>3. CASE RecordTransient(w)
    <3>1. job[w].i \in Positions BY <2>3 DEF RecordTransient, TypeInv, OnChannel
    <3> QED BY <1>1, <1>3, <2>3, <3>1, UpdatedType DEF RecordTransient
  <2>4. CASE Exhaust(w)
    <3> DEFINE f == IF job[w].last = NotTried THEN NumChannels - 1 ELSE job[w].last
    <3>1. f \in Positions
      <4>1. job[w].last \in 0 .. NumChannels
        BY DEF TypeInv, TypeOK, Jobs
      <4>2. CASE job[w].last = NotTried
        BY <4>2, DispatchAssumption DEF Positions
      <4>3. CASE job[w].last # NotTried
        BY <4>1, <4>3, DispatchAssumption DEF NotTried, Positions
      <4> QED BY <4>2, <4>3
    <3>2. row' \in Updated(t, "failed", f)
      BY <2>4 DEF Exhaust
    <3> QED BY <1>1, <1>3, <3>1, <3>2, UpdatedType
  <2> QED BY <2>1, <2>2, <2>3, <2>4
<1>8. known' \subseteq Traces /\ receipt' = receipt
  BY <1>1 DEF Expire, RecordSent, RecordTransient, Exhaust, TypeInv, TypeOK, receipts
<1> QED BY <1>5, <1>6, <1>7, <1>8
        DEF Expire, RecordSent, RecordTransient, Exhaust, TypeInv, TypeOK, broker, provider

LEMMA LoopType ==
  ASSUME TypeInv, NEW w \in Workers, Skip(w) \/ Begin(w) \/ Send(w)
  PROVE  TypeInv'
<1> DEFINE t == job[w].trace
<1>1. t \in Traces /\ job[w].i \in 0 .. NumChannels
  BY DEF TypeInv, TypeOK, Skip, Begin, Send, Jobs
<1>2. "sent" \in Labels /\ "transient" \in Labels /\ "fail" \in Labels /\ "send" \in Labels
  BY DEF Labels
<1>3. ASSUME Advance(w), job[w].i < NumChannels
      PROVE  /\ job' \in [Workers -> Jobs]
             /\ \A v \in Workers : job'[v].at # "idle" => job'[v].trace \in Traces
             /\ OnChannel'
             /\ refused' \in [Traces -> SUBSET Positions]
  <2>1. job[w].i + 1 \in 0 .. NumChannels /\ job[w].i \in Positions
    BY <1>1, <1>3, DispatchAssumption DEF Positions
  <2>2. refused' \in [Traces -> SUBSET Positions]
    BY <1>1, <1>3, <2>1 DEF Advance, TypeInv, TypeOK
  <2> QED BY <1>1, <1>3, <2>1, <2>2, VisitType DEF Advance
<1>4. CASE Skip(w)
  BY <1>3, <1>4 DEF Skip, TypeInv, TypeOK, broker, receipts
<1>5. CASE Begin(w)
  <2>1. job[w].i \in Positions
    BY <1>1, <1>5, DispatchAssumption DEF Begin, Positions
  <2>2. CASE row' = [row EXCEPT ![t] = [status |-> "sending", index |-> job[w].i]]
             /\ event' \in Published(t, "sending")
             /\ job' = [job EXCEPT ![w] = Job("send", t, job[w].i, job[w].i)]
    <3>1. "sending" \in Status BY DEF Status
    <3>2. row' \in [Traces -> Rows]
      BY <1>1, <2>1, <2>2, <3>1 DEF TypeInv, TypeOK, Rows
    <3>3. event' \in [Traces -> Events]
      BY <1>1, <2>2, <3>1, PublishedType
    <3>4. /\ job' \in [Workers -> Jobs]
          /\ \A v \in Workers : job'[v].at # "idle" => job'[v].trace \in Traces
          /\ OnChannel'
      BY <1>1, <1>2, <2>1, <2>2 DEF TypeInv, TypeOK, OnChannel, Jobs, Job
    <3> QED BY <1>5, <3>2, <3>3, <3>4 DEF Begin, TypeInv, TypeOK, broker, provider, receipts
  <2>3. CASE GoTo(w, "fail") /\ row' \in Updated(t, "sending", job[w].i) /\ UNCHANGED event
    <3>1. /\ job' \in [Workers -> Jobs]
          /\ \A v \in Workers : job'[v].at # "idle" => job'[v].trace \in Traces
          /\ OnChannel'
      BY <1>1, <1>2, <2>3, GoToType
    <3>2. row' \in [Traces -> Rows]
      <4>1. "sending" \in Status BY DEF Status
      <4> QED BY <1>1, <2>1, <2>3, <4>1, UpdatedType
    <3> QED BY <1>5, <2>3, <3>1, <3>2 DEF Begin, TypeInv, TypeOK, broker, provider, receipts
  <2> QED BY <1>5, <2>2, <2>3 DEF Begin
<1>6. CASE Send(w)
  <2>1. job[w].i \in Positions /\ job[w].i < NumChannels
    BY <1>6, DispatchAssumption DEF Send, TypeInv, OnChannel, Positions
  <2>2. /\ job' \in [Workers -> Jobs]
        /\ \A v \in Workers : job'[v].at # "idle" => job'[v].trace \in Traces
        /\ OnChannel'
    <3>1. GoTo(w, "sent") \/ GoTo(w, "transient") \/ Advance(w)
      BY <1>6 DEF Send
    <3> QED BY <1>1, <1>2, <1>3, <2>1, <3>1, GoToType
  <2>3. /\ accepted' \in [Workers -> [Traces -> Nat]]
        /\ sends' \in [Traces -> Nat]
        /\ refused' \in [Traces -> SUBSET Positions]
    <3>1. CASE Advance(w) /\ UNCHANGED <<accepted, sends>>
      BY <1>3, <2>1, <3>1 DEF TypeInv, TypeOK
    <3>2. CASE Accept(w, t)
      BY <1>1, <3>2 DEF Accept, TypeInv, TypeOK
    <3>3. CASE UNCHANGED provider
      BY <3>3 DEF provider, receipts, TypeInv, TypeOK
    <3> QED BY <1>6, <3>1, <3>2, <3>3 DEF Send
  <2> QED BY <1>6, <2>2, <2>3 DEF Send, TypeInv, TypeOK, broker, receipts
<1> QED BY <1>4, <1>5, <1>6

LEMMA FinishType ==
  ASSUME TypeInv, NEW w \in Workers, Ack(w) \/ HandleFailure(w) \/ Crash(w)
  PROVE  TypeInv'
<1>1. Idle \in Jobs /\ Idle.at = "idle"
  BY DispatchAssumption DEF Idle, Job, Jobs, Labels, NotTried
<1>2. ASSUME job' = [job EXCEPT ![w] = Idle]
      PROVE  /\ job' \in [Workers -> Jobs]
             /\ \A v \in Workers : job'[v].at # "idle" => job'[v].trace \in Traces
             /\ OnChannel'
  BY <1>1, <1>2 DEF TypeInv, TypeOK, OnChannel
<1>3. CASE Ack(w)
  <2>1. job[w].trace \in Traces BY <1>3 DEF Ack, TypeInv, TypeOK
  <2>2. queue' \in [Traces -> {"none", "ready", "pending", "acked"}]
    BY <1>3, <2>1 DEF Ack, Acked, TypeInv, TypeOK
  <2>3. depth' \in [Workers -> Nat]
    BY <1>3 DEF Ack, Decrement, TypeInv, TypeOK
  <2> QED BY <1>2, <1>3, <2>2, <2>3 DEF Ack, TypeInv, TypeOK, provider, receipts
<1>4. CASE HandleFailure(w)
  <2>1. job[w].trace \in Traces BY <1>4 DEF HandleFailure, TypeInv, TypeOK
  <2>2. queue' \in [Traces -> {"none", "ready", "pending", "acked"}]
    BY <1>4, <2>1 DEF HandleFailure, Naked, TypeInv, TypeOK
  <2>3. "ack" \in Labels BY DEF Labels
  <2>4. /\ job' \in [Workers -> Jobs]
        /\ \A v \in Workers : job'[v].at # "idle" => job'[v].trace \in Traces
        /\ OnChannel'
    BY <1>2, <1>4, <2>1, <2>3, GoToType DEF HandleFailure
  <2> QED BY <1>4, <2>2, <2>4 DEF HandleFailure, TypeInv, TypeOK, provider, receipts
<1>5. CASE Crash(w)
  <2>1. ingest' \in [Traces -> Ingests]
    BY <1>5 DEF Crash, TypeInv, TypeOK, Ingests
  <2>2. /\ buffer' \in [Workers -> [Traces -> Nat]]
        /\ dispatched' \in [Workers -> SUBSET Traces]
        /\ depth' \in [Workers -> Nat]
        /\ accepted' \in [Workers -> [Traces -> Nat]]
        /\ crashes' \in 0 .. MaxCrash
    BY <1>5, DispatchAssumption DEF Crash, TypeInv, TypeOK
  <2> QED BY <1>2, <1>5, <2>1, <2>2 DEF Crash, TypeInv, TypeOK, broker, receipts
<1> QED BY <1>3, <1>4, <1>5

LEMMA ReceiptType ==
  ASSUME TypeInv, Receipt
  PROVE  TypeInv'
<1>1. ASSUME NEW h \in Receivers, NEW t \in Traces, ReadReceipt(h, t) PROVE TypeInv'
  <2>1. row[t].index \in Positions
    BY DEF TypeInv, TypeOK, Rows
  <2>2. receipt' \in [Receivers -> Reads]
    BY <1>1, <2>1 DEF ReadReceipt, TypeInv, TypeOK, Reads
  <2> QED BY <1>1, <2>2 DEF ReadReceipt, TypeInv, TypeOK, OnChannel, broker, provider
<1>2. ASSUME NEW h \in Receivers, WriteReceipt(h) PROVE TypeInv'
  <2>1. receipt[h].trace \in Traces /\ receipt[h].index \in Positions
    BY <1>2 DEF WriteReceipt, TypeInv, TypeOK, Reads
  <2>2. row' \in [Traces -> Rows]
    BY <1>2, <2>1, UpdatedType DEF WriteReceipt
  <2>3. receipt' \in [Receivers -> Reads]
    BY <1>2 DEF WriteReceipt, TypeInv, TypeOK, Reads
  <2> QED BY <1>2, <2>2, <2>3 DEF WriteReceipt, TypeInv, TypeOK, OnChannel, broker, provider
<1>3. ASSUME NEW t \in Traces, EmailReceipt(t) PROVE TypeInv'
  <2>1. row[t].index \in Positions
    BY DEF TypeInv, TypeOK, Rows
  <2>2. row' \in [Traces -> Rows]
    BY <1>3, <2>1, UpdatedType DEF EmailReceipt
  <2> QED BY <1>3, <2>2 DEF EmailReceipt, TypeInv, TypeOK, OnChannel, broker, provider, receipts
<1> QED BY <1>1, <1>2, <1>3 DEF Receipt

LEMMA NextType == TypeInv /\ [Next]_vars => TypeInv'
<1> SUFFICES ASSUME TypeInv, [Next]_vars PROVE TypeInv'
  OBVIOUS
<1>1. CASE UNCHANGED vars
  BY <1>1 DEF vars, TypeInv, TypeOK, OnChannel
<1>2. CASE Next
  BY <1>2, IngestType, BrokerType, GateType, RecordType, LoopType, FinishType, ReceiptType DEF Next, Process
<1> QED BY <1>1, <1>2

\* Every reachable state is well typed, whatever the constants.
THEOREM TypeCorrect == Spec => []TypeOK
<1>1. Spec => []TypeInv
  BY InitType, NextType, PTL DEF Spec
<1>2. TypeInv => TypeOK
  BY DEF TypeInv
<1> QED BY <1>1, <1>2, PTL
-----------------------------------------------------------------------------
(* One provider acceptance per process lifetime.  By itself                *)
(* OncePerLifetime is not inductive: a second acceptance would follow from *)
(* a state in which a message already accepted is about to be sent again.  *)
(* The strengthening says why there is none: an accepted message is in the *)
(* dedup map, and the walk of a message in the map before the gate never   *)
(* starts.                                                                 *)

Walking == {"loop", "send"}

Remembered ==
  \A w \in Workers :
    job[w].at \in Walking \cup {"sent", "transient"} => job[w].trace \in dispatched[w]

AcceptedOnce ==
  \A w \in Workers, t \in Traces :
    accepted[w][t] > 0 => /\ t \in dispatched[w]
                          /\ job[w].at \in Walking => job[w].trace # t

OnceInv == TypeInv /\ Remembered /\ AcceptedOnce /\ OncePerLifetime

LEMMA InitOnce == Init => Remembered /\ AcceptedOnce /\ OncePerLifetime
  BY DEF Init, Remembered, AcceptedOnce, OncePerLifetime, Walking, Idle, Job

\* Steps that leave the dedup maps and the providers alone, and start no walk.
LEMMA QuietOnce ==
  ASSUME OnceInv, UNCHANGED <<dispatched, accepted>>,
         \A v \in Workers :
           \/ job'[v] = job[v]
           \/ job'[v].at \notin Walking \cup {"sent", "transient"}
           \/ /\ job[v].at \in Walking
              /\ job'[v].trace = job[v].trace
  PROVE  Remembered' /\ AcceptedOnce' /\ OncePerLifetime'
<1>1. Remembered'
  BY DEF OnceInv, Remembered, Walking
<1>2. AcceptedOnce'
  BY DEF OnceInv, AcceptedOnce, Walking
<1>3. OncePerLifetime'
  BY DEF OnceInv, OncePerLifetime
<1> QED BY <1>1, <1>2, <1>3

LEMMA GateOnce ==
  ASSUME OnceInv, NEW w \in Workers, Gate(w)
  PROVE  Remembered' /\ AcceptedOnce' /\ OncePerLifetime'
<1> DEFINE t == job[w].trace
<1>1. /\ job \in [Workers -> Jobs] /\ dispatched \in [Workers -> SUBSET Traces]
      /\ t \in Traces /\ accepted' = accepted
  BY DEF OnceInv, TypeInv, TypeOK, Gate, provider
<1>2. CASE dispatched' = dispatched /\ (GoTo(w, "ack") \/ GoTo(w, "fail"))
  BY <1>1, <1>2, QuietOnce DEF GoTo, Job, Walking
<1>3. CASE dispatched' = [dispatched EXCEPT ![w] = @ \cup {t}]
           /\ (GoTo(w, "ack") \/ Lapse(w, Row(t).index))
  <2>1. Remembered'
    BY <1>1, <1>3 DEF OnceInv, Remembered, GoTo, Lapse, Job, Walking
  <2>2. AcceptedOnce'
    BY <1>1, <1>3 DEF OnceInv, AcceptedOnce, GoTo, Lapse, Job, Walking
  <2> QED BY <1>1, <2>1, <2>2 DEF OnceInv, OncePerLifetime
<1>4. CASE /\ t \notin dispatched[w]
           /\ dispatched' = [dispatched EXCEPT ![w] = @ \cup {t}]
           /\ Visit(w, Row(t).index)
  <2>1. Remembered'
    BY <1>1, <1>4 DEF OnceInv, Remembered, Visit, Job, Walking
  <2>2. AcceptedOnce'
    <3>1. ~ (accepted[w][t] > 0)
      BY <1>1, <1>4 DEF OnceInv, AcceptedOnce
    <3> QED BY <1>1, <1>4, <3>1 DEF OnceInv, AcceptedOnce, Visit, Job, Walking
  <2> QED BY <1>1, <2>1, <2>2 DEF OnceInv, OncePerLifetime
<1>5. \/ Pass(w, t)
      \/ (GoTo(w, "ack") \/ GoTo(w, "fail")) /\ UNCHANGED dispatched
  BY DEF Gate
<1> QED BY <1>2, <1>3, <1>4, <1>5 DEF Pass

LEMMA SendOnce ==
  ASSUME OnceInv, NEW w \in Workers, Send(w)
  PROVE  Remembered' /\ AcceptedOnce' /\ OncePerLifetime'
<1> DEFINE t == job[w].trace
<1>1. /\ job \in [Workers -> Jobs] /\ dispatched' = dispatched
      /\ t \in Traces /\ job[w].at = "send"
      /\ accepted \in [Workers -> [Traces -> Nat]]
  BY DEF OnceInv, TypeInv, TypeOK, Send
<1>2. CASE UNCHANGED accepted /\ (GoTo(w, "sent") \/ GoTo(w, "transient") \/ Visit(w, job[w].i + 1))
  BY <1>1, <1>2, QuietOnce DEF GoTo, Visit, Job, Walking
<1>3. CASE Accept(w, t) /\ (GoTo(w, "sent") \/ GoTo(w, "transient"))
  <2>1. accepted[w][t] = 0 /\ t \in dispatched[w]
    BY <1>1 DEF OnceInv, AcceptedOnce, Remembered, Walking
  <2>2. /\ accepted'[w][t] = 1
        /\ \A v \in Workers, u \in Traces : <<v, u>> # <<w, t>> => accepted'[v][u] = accepted[v][u]
    BY <1>1, <1>3, <2>1 DEF Accept
  <2>3. Remembered'
    BY <1>1, <1>3, <2>1 DEF OnceInv, Remembered, GoTo, Job, Walking
  <2>4. AcceptedOnce'
    BY <1>1, <1>3, <2>1, <2>2 DEF OnceInv, AcceptedOnce, GoTo, Job, Walking
  <2>5. OncePerLifetime'
    BY <1>1, <2>2 DEF OnceInv, OncePerLifetime
  <2> QED BY <2>3, <2>4, <2>5
<1> QED BY <1>2, <1>3 DEF Send, Advance, provider

LEMMA CrashOnce ==
  ASSUME OnceInv, NEW w \in Workers, Crash(w)
  PROVE  Remembered' /\ AcceptedOnce' /\ OncePerLifetime'
<1>1. /\ job \in [Workers -> Jobs] /\ dispatched \in [Workers -> SUBSET Traces]
      /\ accepted \in [Workers -> [Traces -> Nat]]
  BY DEF OnceInv, TypeInv, TypeOK
<1>2. /\ job' = [job EXCEPT ![w] = Idle] /\ dispatched' = [dispatched EXCEPT ![w] = {}]
      /\ accepted' = [accepted EXCEPT ![w] = [t \in Traces |-> 0]]
  BY DEF Crash
<1>3. Idle.at = "idle"
  BY DEF Idle, Job
<1>4. Remembered'
  BY <1>1, <1>2, <1>3 DEF OnceInv, Remembered, Walking
<1>5. \A t \in Traces : accepted'[w][t] = 0
  BY <1>1, <1>2
<1>6. \A v \in Workers : v # w => job'[v] = job[v] /\ dispatched'[v] = dispatched[v] /\ accepted'[v] = accepted[v]
  BY <1>1, <1>2
<1>7. AcceptedOnce'
  BY <1>5, <1>6 DEF OnceInv, AcceptedOnce
<1>8. OncePerLifetime'
  BY <1>5, <1>6 DEF OnceInv, OncePerLifetime
<1> QED BY <1>4, <1>7, <1>8

LEMMA NextOnce == OnceInv /\ [Next]_vars => OnceInv'
<1> SUFFICES ASSUME OnceInv, [Next]_vars PROVE OnceInv'
  OBVIOUS
<1>1. TypeInv'
  BY NextType DEF OnceInv
<1>2. job \in [Workers -> Jobs]
  BY DEF OnceInv, TypeInv, TypeOK
<1>3. ASSUME UNCHANGED <<dispatched, accepted, job>>
      PROVE  Remembered' /\ AcceptedOnce' /\ OncePerLifetime'
  BY <1>3, QuietOnce
<1>4. CASE UNCHANGED vars
  BY <1>1, <1>3, <1>4 DEF vars, OnceInv
<1>5. CASE \E w \in Workers, t \in Traces :
             Admit(w, t) \/ Publish(w, t) \/ Increment(w, t) \/ Deliver(w, t)
  BY <1>1, <1>3, <1>5 DEF OnceInv, Admit, Publish, Increment, Deliver, provider
<1>6. CASE \E t \in Traces : AckWait(t) \/ WindowPasses(t)
  BY <1>1, <1>3, <1>6 DEF OnceInv, AckWait, WindowPasses, provider
<1>7. ASSUME NEW w \in Workers, NEW t \in Traces, Take(w, t) PROVE OnceInv'
  BY <1>1, <1>2, <1>7, QuietOnce DEF OnceInv, Take, Job, Walking, provider
<1>8. ASSUME NEW w \in Workers, Process(w) \/ Crash(w) PROVE OnceInv'
  <2>1. CASE Gate(w) BY <1>1, <2>1, GateOnce DEF OnceInv
  <2>2. CASE Send(w) BY <1>1, <2>2, SendOnce DEF OnceInv
  <2>3. CASE Crash(w) BY <1>1, <2>3, CrashOnce DEF OnceInv
  <2>4. CASE Expire(w) \/ RecordSent(w) \/ RecordTransient(w) \/ Exhaust(w)
    <3>1. GoTo(w, "ack") \/ GoTo(w, "fail")
      BY <2>4 DEF Expire, RecordSent, RecordTransient, Exhaust
    <3>2. UNCHANGED <<dispatched, accepted>>
      BY <2>4 DEF Expire, RecordSent, RecordTransient, Exhaust, provider
    <3> QED BY <1>1, <1>2, <3>1, <3>2, QuietOnce DEF OnceInv, GoTo, Job, Walking
  <2>5. CASE Skip(w)
    BY <1>1, <1>2, <2>5, QuietOnce DEF OnceInv, Skip, Advance, Visit, Job, Walking
  <2>6. CASE Begin(w)
    BY <1>1, <1>2, <2>6, QuietOnce DEF OnceInv, Begin, GoTo, Job, Walking, provider
  <2>7. CASE Ack(w)
    BY <1>1, <1>2, <2>7, QuietOnce DEF OnceInv, Ack, Idle, Job, Walking, provider
  <2>8. CASE HandleFailure(w)
    BY <1>1, <1>2, <2>8, QuietOnce DEF OnceInv, HandleFailure, GoTo, Idle, Job, Walking, provider
  <2> QED BY <1>8, <2>1, <2>2, <2>3, <2>4, <2>5, <2>6, <2>7, <2>8 DEF Process
<1>9. CASE Receipt
  BY <1>1, <1>3, <1>9 DEF OnceInv, Receipt, ReadReceipt, WriteReceipt, EmailReceipt, provider
<1> QED BY <1>4, <1>5, <1>6, <1>7, <1>8, <1>9 DEF Next

\* A process makes a provider take a message at most once between two of its
\* restarts: orchestrator.go's in-memory map suffices for that, whatever the
\* number of redeliveries, lost acks and lost status updates.
THEOREM OnceCorrect == Spec => []OncePerLifetime
<1>1. Init => OnceInv
  BY InitType, InitOnce DEF OnceInv
<1>2. OnceInv => OncePerLifetime
  BY DEF OnceInv
<1> QED BY <1>1, <1>2, NextOnce, PTL DEF Spec
-----------------------------------------------------------------------------
(* How often a message is taken in all.  The processes whose present life  *)
(* made a provider take it are counted once each, by OncePerLifetime; what *)
(* a restart makes them forget is paid for by the restart.                 *)

Holders(t) == {w \in Workers : accepted[w][t] > 0}

Counted == \A t \in Traces : sends[t] <= crashes + Cardinality(Holders(t))

LEMMA HoldersFinite ==
  ASSUME NEW t
  PROVE  /\ IsFiniteSet(Holders(t)) /\ Cardinality(Holders(t)) \in Nat
         /\ Cardinality(Holders(t)) <= Cardinality(Workers) /\ Cardinality(Workers) \in Nat
<1>1. IsFiniteSet(Workers) /\ Holders(t) \subseteq Workers
  BY DispatchAssumption DEF Holders
<1>2. IsFiniteSet(Holders(t)) /\ Cardinality(Holders(t)) <= Cardinality(Workers)
  BY <1>1, FS_Subset
<1> QED BY <1>1, <1>2, FS_CardinalityType

LEMMA CountedKept ==
  ASSUME Counted, UNCHANGED <<accepted, sends, crashes>>
  PROVE  Counted'
BY DEF Counted, Holders

LEMMA SendCounted ==
  ASSUME OnceInv, Counted, NEW w \in Workers, Send(w)
  PROVE  Counted'
<1>0. PICK t \in Traces : t = job[w].trace
  BY DEF OnceInv, TypeInv, TypeOK, Send
<1>1. /\ job[w].at = "send" /\ crashes' = crashes /\ crashes \in Nat
      /\ accepted \in [Workers -> [Traces -> Nat]] /\ sends \in [Traces -> Nat]
  BY DispatchAssumption DEF OnceInv, TypeInv, TypeOK, Send
<1>2. CASE UNCHANGED <<accepted, sends>>
  BY <1>1, <1>2, CountedKept
<1>3. CASE Accept(w, t)
  <2>1. accepted[w][t] = 0
    BY <1>0, <1>1 DEF OnceInv, AcceptedOnce, Walking
  <2>2. /\ \A v \in Workers, u \in Traces :
               accepted'[v][u] = IF v = w /\ u = t THEN 1 ELSE accepted[v][u]
        /\ \A u \in Traces : sends'[u] = IF u = t THEN sends[t] + 1 ELSE sends[u]
    BY <1>1, <1>3, <2>1 DEF Accept
  <2>3. Holders(t)' = Holders(t) \cup {w} /\ w \notin Holders(t)
    BY <1>1, <2>1, <2>2 DEF Holders
  <2>4. Cardinality(Holders(t)') = Cardinality(Holders(t)) + 1
    BY <2>3, HoldersFinite, FS_AddElement
  <2>5. ASSUME NEW u \in Traces PROVE sends'[u] <= crashes' + Cardinality(Holders(u)')
    <3>1. CASE u = t
      BY <1>1, <2>2, <2>4, <3>1, HoldersFinite DEF Counted
    <3>2. CASE u # t
      <4>1. Holders(u)' = Holders(u)
        BY <2>2, <3>2 DEF Holders
      <4> QED BY <1>1, <2>2, <3>2, <4>1 DEF Counted
    <3> QED BY <3>1, <3>2
  <2> QED BY <2>5 DEF Counted
<1> QED BY <1>0, <1>2, <1>3 DEF Send, provider

LEMMA CrashCounted ==
  ASSUME OnceInv, Counted, NEW w \in Workers, Crash(w)
  PROVE  Counted'
<1>1. /\ crashes' = crashes + 1 /\ crashes \in Nat /\ sends' = sends /\ sends \in [Traces -> Nat]
      /\ accepted \in [Workers -> [Traces -> Nat]]
      /\ accepted' = [accepted EXCEPT ![w] = [t \in Traces |-> 0]]
  BY DispatchAssumption DEF OnceInv, TypeInv, TypeOK, Crash
<1>2. ASSUME NEW t \in Traces PROVE sends'[t] <= crashes' + Cardinality(Holders(t)')
  <2>1. Holders(t)' = Holders(t) \ {w}
    BY <1>1 DEF Holders
  <2>2. Cardinality(Holders(t)') >= Cardinality(Holders(t)) - 1 /\ Cardinality(Holders(t)') \in Nat
    <3>1. IsFiniteSet(Holders(t)) /\ Cardinality(Holders(t)) \in Nat
      BY HoldersFinite
    <3>2. Cardinality(Holders(t) \ {w}) \in {Cardinality(Holders(t)), Cardinality(Holders(t)) - 1}
      BY <3>1, FS_RemoveElement
    <3>3. IsFiniteSet(Holders(t) \ {w})
      BY <3>1, FS_RemoveElement
    <3> QED BY <2>1, <3>1, <3>2, <3>3, FS_CardinalityType
  <2> QED BY <1>1, <2>2, HoldersFinite DEF Counted
<1> QED BY <1>2 DEF Counted

LEMMA NextCounted == OnceInv /\ Counted /\ [Next]_vars => Counted'
<1> SUFFICES ASSUME OnceInv, Counted, [Next]_vars PROVE Counted'
  OBVIOUS
<1>1. CASE \E w \in Workers, t \in Traces :
             Admit(w, t) \/ Publish(w, t) \/ Increment(w, t) \/ Deliver(w, t) \/ Take(w, t)
  BY <1>1, CountedKept DEF Admit, Publish, Increment, Deliver, Take, provider
<1>2. CASE \E t \in Traces : AckWait(t) \/ WindowPasses(t)
  BY <1>2, CountedKept DEF AckWait, WindowPasses, provider
<1>3. ASSUME NEW w \in Workers,
             Gate(w) \/ Expire(w) \/ Skip(w) \/ Begin(w) \/ RecordSent(w) \/ RecordTransient(w)
               \/ Exhaust(w) \/ Ack(w) \/ HandleFailure(w)
      PROVE  Counted'
  <2>1. UNCHANGED <<accepted, sends, crashes>>
    BY <1>3 DEF Gate, Expire, Skip, Begin, RecordSent, RecordTransient, Exhaust, Ack, HandleFailure, provider
  <2> QED BY <2>1, CountedKept
<1>4. CASE UNCHANGED vars
  BY <1>4, CountedKept DEF vars
<1>5. CASE Receipt
  BY <1>5, CountedKept DEF Receipt, ReadReceipt, WriteReceipt, EmailReceipt, provider
<1> QED BY <1>1, <1>2, <1>3, <1>4, <1>5, SendCounted, CrashCounted DEF Next, Process

-----------------------------------------------------------------------------
(* The walk over the channels.  NoChannelBypassed speaks of rows; it is    *)
(* inductive only together with the same fact about a walk under way       *)
(* (Walked), because a walk writes its own position into the row.          *)
(* SentWasAccepted needs that a job about to record "sent" holds a         *)
(* provider's answer (Answered), and that a row a receipt can find belongs *)
(* to a message that was taken (Found).  The index a receipt is about to   *)
(* write back may be stale, but the walk had reached it (Stale).           *)

Walked ==
  \A w \in Workers :
    job[w].at \in Walking \cup {"expired", "sent", "transient"} =>
      \A p \in Positions : p < job[w].i => p \in refused[job[w].trace]

Answered ==
  \A w \in Workers :
    job[w].at = "sent" => sends[job[w].trace] > 0 \/ job[w].i \notin Registered

Found == \A t \in known : sends[t] > 0

Stale ==
  \A h \in Receivers :
    receipt[h] # NoReceipt =>
      /\ receipt[h].trace \in known
      /\ \A p \in Positions : p < receipt[h].index => p \in refused[receipt[h].trace]

WalkInv ==
  TypeInv /\ Walked /\ Answered /\ Found /\ Stale /\ NoChannelBypassed /\ SentWasAccepted

LEMMA InitWalk == Init => Walked /\ Answered /\ Found /\ Stale /\ NoChannelBypassed /\ SentWasAccepted
  BY DEF Init, Walked, Answered, Found, Stale, NoChannelBypassed, SentWasAccepted, Walking, Idle, Job,
         NoRow, Positions

\* Acceptances and refusals are never taken back.
LEMMA OnlyGrow ==
  ASSUME TypeInv, [Next]_vars, NEW t \in Traces
  PROVE  (sends[t] > 0 => sends'[t] > 0) /\ refused[t] \subseteq refused'[t]
<1>1. sends \in [Traces -> Nat] /\ refused \in [Traces -> SUBSET Positions]
  BY DEF TypeInv, TypeOK
<1>2. \A w \in Workers : job[w].at # "idle" => job[w].trace \in Traces
  BY DEF TypeInv, TypeOK
<1>3. CASE UNCHANGED <<sends, refused>>
  BY <1>3
<1>4. ASSUME NEW w \in Workers, Skip(w) \/ Send(w)
      PROVE  (sends[t] > 0 => sends'[t] > 0) /\ refused[t] \subseteq refused'[t]
  <2>1. job[w].trace \in Traces
    BY <1>2, <1>4 DEF Skip, Send
  <2>2. \/ UNCHANGED refused
        \/ refused' = [refused EXCEPT ![job[w].trace] = refused[job[w].trace] \cup {job[w].i}]
    BY <1>4 DEF Skip, Send, Advance, Accept, provider
  <2>3. UNCHANGED sends \/ sends' = [sends EXCEPT ![job[w].trace] = sends[job[w].trace] + 1]
    BY <1>4 DEF Skip, Send, Accept, provider
  <2>4. refused[t] \subseteq refused'[t]
    BY <1>1, <2>1, <2>2
  <2>5. sends[t] > 0 => sends'[t] > 0
    BY <1>1, <2>1, <2>3
  <2> QED BY <2>4, <2>5
<1>5. ASSUME NEW w \in Workers, Process(w) \/ Crash(w), ~(Skip(w) \/ Send(w))
      PROVE  UNCHANGED <<sends, refused>>
  BY <1>5 DEF Process, Gate, Expire, Begin, RecordSent, RecordTransient, Exhaust, Ack,
     HandleFailure, Crash, provider
<1>6. CASE \E w \in Workers, u \in Traces :
             Admit(w, u) \/ Publish(w, u) \/ Increment(w, u) \/ Deliver(w, u) \/ Take(w, u)
  BY <1>3, <1>6 DEF Admit, Publish, Increment, Deliver, Take, provider
<1>7. CASE \E u \in Traces : AckWait(u) \/ WindowPasses(u)
  BY <1>3, <1>7 DEF AckWait, WindowPasses, provider
<1>8. CASE Receipt
  BY <1>3, <1>8 DEF Receipt, ReadReceipt, WriteReceipt, EmailReceipt, provider
<1>9. CASE UNCHANGED vars
  BY <1>3, <1>9 DEF vars
<1> QED BY <1>3, <1>4, <1>5, <1>6, <1>7, <1>8, <1>9 DEF Next

\* What the receipts know stays true.
LEMMA NextReceipts ==
  ASSUME WalkInv, [Next]_vars
  PROVE  Found' /\ Stale'
<1>1. \A t \in Traces : (sends[t] > 0 => sends'[t] > 0) /\ refused[t] \subseteq refused'[t]
  BY OnlyGrow DEF WalkInv
<1>2. known \subseteq Traces /\ receipt \in [Receivers -> Reads]
  BY DEF WalkInv, TypeInv, TypeOK
<1>3. ASSUME known' = known PROVE Found'
  BY <1>1, <1>2, <1>3 DEF WalkInv, Found
<1>4. ASSUME receipt' = receipt, known \subseteq known' PROVE Stale'
  BY <1>1, <1>2, <1>4 DEF WalkInv, Stale
<1>5. CASE UNCHANGED receipts
  BY <1>3, <1>4, <1>5 DEF receipts
<1>6. ASSUME NEW w \in Workers, RecordSent(w) PROVE Found' /\ Stale'
  <2>1. known \subseteq known' /\ receipt' = receipt
    BY <1>6 DEF RecordSent
  <2>2. known' = known \/ (known' = known \cup {job[w].trace} /\ job[w].i \in Receipted)
    BY <1>6 DEF RecordSent
  <2>3. job[w].i \in Receipted => sends[job[w].trace] > 0
    BY <1>6, DispatchAssumption DEF RecordSent, WalkInv, Answered
  <2>4. job[w].trace \in Traces
    BY <1>6 DEF RecordSent, WalkInv, TypeInv, TypeOK
  <2>5. Found'
    BY <1>1, <1>2, <2>2, <2>3, <2>4 DEF WalkInv, Found
  <2> QED BY <1>4, <2>1, <2>5
<1>7. ASSUME NEW h \in Receivers, NEW t \in Traces, ReadReceipt(h, t) PROVE Found' /\ Stale'
  <2>1. /\ known' = known /\ t \in known /\ UNCHANGED refused
        /\ receipt'[h] = [trace |-> t, index |-> row[t].index]
        /\ \A g \in Receivers : g # h => receipt'[g] = receipt[g]
    BY <1>2, <1>7 DEF ReadReceipt, provider
  <2>2. \A p \in Positions : p < row[t].index => p \in refused[t]
    BY DEF WalkInv, NoChannelBypassed
  <2>3. Stale'
    BY <2>1, <2>2 DEF WalkInv, Stale
  <2> QED BY <1>3, <2>1, <2>3
<1>8. ASSUME NEW h \in Receivers, WriteReceipt(h) PROVE Found' /\ Stale'
  <2>1. /\ known' = known /\ UNCHANGED refused /\ receipt'[h] = NoReceipt
        /\ \A g \in Receivers : g # h => receipt'[g] = receipt[g]
    BY <1>2, <1>8 DEF WriteReceipt, provider
  <2>2. Stale'
    BY <2>1 DEF WalkInv, Stale
  <2> QED BY <1>3, <2>1, <2>2
<1>9. ASSUME NEW t \in Traces, EmailReceipt(t) PROVE Found' /\ Stale'
  BY <1>5, <1>9 DEF EmailReceipt
<1>10. ASSUME NEW w \in Workers, Process(w) \/ Crash(w), ~RecordSent(w) PROVE UNCHANGED receipts
  BY <1>10 DEF Process, Gate, Expire, Skip, Begin, Send, RecordTransient, Exhaust, Ack,
     HandleFailure, Crash
<1>11. CASE \E w \in Workers, t \in Traces :
             Admit(w, t) \/ Publish(w, t) \/ Increment(w, t) \/ Deliver(w, t) \/ Take(w, t)
  BY <1>5, <1>11 DEF Admit, Publish, Increment, Deliver, Take
<1>12. CASE \E t \in Traces : AckWait(t) \/ WindowPasses(t)
  BY <1>5, <1>12 DEF AckWait, WindowPasses
<1>13. CASE UNCHANGED vars
  BY <1>5, <1>13 DEF vars, receipts
<1> QED BY <1>5, <1>6, <1>7, <1>8, <1>9, <1>10, <1>11, <1>12, <1>13 DEF Next, Receipt

\* Steps that write no row and call no provider, and start no walk.
LEMMA QuietWalk ==
  ASSUME WalkInv, UNCHANGED <<row, sends, refused>>,
         \A v \in Workers :
           \/ job'[v] = job[v]
           \/ job'[v].at \notin Walking \cup {"expired", "sent", "transient"}
  PROVE  Walked' /\ Answered' /\ NoChannelBypassed' /\ SentWasAccepted'
<1>1. Walked' /\ Answered'
  BY DEF WalkInv, Walked, Answered, Walking
<1>2. NoChannelBypassed' /\ SentWasAccepted'
  BY DEF WalkInv, NoChannelBypassed, SentWasAccepted
<1> QED BY <1>1, <1>2

\* Writing into t's row a position the walk has reached.
LEMMA RowWritten ==
  ASSUME WalkInv, UNCHANGED <<sends, refused>>, NEW t \in Traces, NEW s \in Status \cup ReceiptStatus,
         NEW i \in Positions, \A p \in Positions : p < i => p \in refused[t],
         s \in {"sent", "delivered", "read"} => sends[t] > 0 \/ i \notin Registered,
         row' \in Updated(t, s, i)
  PROVE  NoChannelBypassed' /\ SentWasAccepted'
<1>1. row \in [Traces -> Rows]
  BY DEF WalkInv, TypeInv, TypeOK
<1>2. CASE row' = row
  BY <1>2 DEF WalkInv, NoChannelBypassed, SentWasAccepted
<1>3. CASE row' = [row EXCEPT ![t] = [status |-> s, index |-> i]]
  <2>1. /\ row'[t] = [status |-> s, index |-> i]
        /\ \A u \in Traces : u # t => row'[u] = row[u]
    BY <1>1, <1>3
  <2>2. NoChannelBypassed'
    BY <2>1 DEF WalkInv, NoChannelBypassed
  <2>3. SentWasAccepted'
    BY <2>1 DEF WalkInv, SentWasAccepted
  <2> QED BY <2>2, <2>3
<1> QED BY <1>2, <1>3 DEF Updated

LEMMA GateWalk ==
  ASSUME WalkInv, NEW w \in Workers, Gate(w)
  PROVE  Walked' /\ Answered' /\ NoChannelBypassed' /\ SentWasAccepted'
<1> DEFINE t == job[w].trace
<1>1. /\ job \in [Workers -> Jobs] /\ row \in [Traces -> Rows]
      /\ t \in Traces /\ UNCHANGED <<sends, refused>>
  BY DEF WalkInv, TypeInv, TypeOK, Gate, provider
<1>2. CASE (GoTo(w, "fail") \/ GoTo(w, "ack")) /\ UNCHANGED row
  <2>1. Walked' /\ Answered'
    BY <1>1, <1>2 DEF WalkInv, Walked, Answered, GoTo, Job, Walking
  <2> QED BY <1>1, <1>2, <2>1 DEF WalkInv, NoChannelBypassed, SentWasAccepted
<1>3. CASE /\ row' = [row EXCEPT ![t] = Row(t)]
           /\ GoTo(w, "fail") \/ GoTo(w, "ack") \/ Lapse(w, Row(t).index) \/ Visit(w, Row(t).index)
  <2>1. row' = [row EXCEPT ![t] = Row(t)]
    BY <1>3
  <2>2. Row(t) = row[t] \/ Row(t) = [status |-> "queued", index |-> 0]
    BY DEF Row
  <2>3. /\ row'[t] = Row(t)
        /\ \A u \in Traces : u # t => row'[u] = row[u]
    BY <1>1, <2>1
  <2>4. \A p \in Positions : p < Row(t).index => p \in refused[t]
    BY <1>1, <2>2 DEF WalkInv, NoChannelBypassed, Positions
  <2>5. NoChannelBypassed'
    BY <1>1, <2>3, <2>4 DEF WalkInv, NoChannelBypassed
  <2>6. SentWasAccepted'
    BY <1>1, <2>2, <2>3 DEF WalkInv, SentWasAccepted
  <2>7. GoTo(w, "fail") \/ GoTo(w, "ack") \/ Lapse(w, Row(t).index) \/ Visit(w, Row(t).index)
    BY <1>3
  <2>8. Walked'
    BY <1>1, <2>4, <2>7 DEF WalkInv, Walked, GoTo, Visit, Lapse, Job, Walking
  <2>9. Answered'
    BY <1>1, <2>7 DEF WalkInv, Answered, GoTo, Visit, Lapse, Job
  <2> QED BY <2>5, <2>6, <2>8, <2>9
<1> QED BY <1>2, <1>3 DEF Gate, Pass

LEMMA RecordWalk ==
  ASSUME WalkInv, NEW w \in Workers,
         Expire(w) \/ RecordSent(w) \/ RecordTransient(w) \/ Exhaust(w)
  PROVE  Walked' /\ Answered' /\ NoChannelBypassed' /\ SentWasAccepted'
<1> DEFINE t == job[w].trace
<1>1. /\ job \in [Workers -> Jobs] /\ row \in [Traces -> Rows]
      /\ UNCHANGED <<sends, refused>>
  BY DEF WalkInv, TypeInv, TypeOK, Expire, RecordSent, RecordTransient, Exhaust, provider
<1>2. t \in Traces
  BY DEF WalkInv, TypeInv, TypeOK, Expire, RecordSent, RecordTransient, Exhaust
<1>3. GoTo(w, "ack") \/ GoTo(w, "fail")
  BY DEF Expire, RecordSent, RecordTransient, Exhaust
<1>4. Walked' /\ Answered'
  BY <1>1, <1>3 DEF WalkInv, Walked, Answered, GoTo, Job, Walking
<1>5. "sent" \in Status /\ "failed" \in Status /\ "failed_transient" \in Status
  BY DEF Status
<1>6. CASE Expire(w)
  <2>1. job[w].i \in Positions /\ \A p \in Positions : p < job[w].i => p \in refused[t]
    BY <1>6 DEF WalkInv, TypeInv, OnChannel, Walked, Walking, Expire
  <2> QED BY <1>1, <1>2, <1>4, <1>5, <1>6, <2>1, RowWritten DEF Expire
<1>7. CASE RecordSent(w)
  <2>1. job[w].i \in Positions /\ \A p \in Positions : p < job[w].i => p \in refused[t]
    BY <1>7 DEF WalkInv, TypeInv, OnChannel, Walked, Walking, RecordSent
  <2>2. sends[t] > 0 \/ job[w].i \notin Registered
    BY <1>7 DEF WalkInv, Answered, RecordSent
  <2> QED BY <1>1, <1>2, <1>4, <1>5, <1>7, <2>1, <2>2, RowWritten DEF RecordSent
<1>8. CASE RecordTransient(w)
  <2>1. job[w].i \in Positions /\ \A p \in Positions : p < job[w].i => p \in refused[t]
    BY <1>8 DEF WalkInv, TypeInv, OnChannel, Walked, Walking, RecordTransient
  <2> QED BY <1>1, <1>2, <1>4, <1>5, <1>8, <2>1, RowWritten DEF RecordTransient
<1>9. CASE Exhaust(w)
  <2> DEFINE f == IF job[w].last = NotTried THEN NumChannels - 1 ELSE job[w].last
  <2>1. \A p \in Positions : p \in refused[t]
    BY <1>9, DispatchAssumption DEF WalkInv, Walked, Walking, Exhaust, Positions
  <2>2. f \in Positions
    <3>1. job[w].last \in 0 .. NumChannels BY <1>1 DEF Jobs
    <3>2. CASE job[w].last = NotTried
      BY <3>2, DispatchAssumption DEF Positions
    <3>3. CASE job[w].last # NotTried
      BY <3>1, <3>3, DispatchAssumption DEF NotTried, Positions
    <3> QED BY <3>2, <3>3
  <2>3. row' \in Updated(t, "failed", f)
    BY <1>9 DEF Exhaust
  <2> QED BY <1>1, <1>2, <1>4, <1>5, <2>1, <2>2, <2>3, RowWritten
<1> QED BY <1>6, <1>7, <1>8, <1>9

LEMMA LoopWalk ==
  ASSUME WalkInv, NEW w \in Workers, Skip(w) \/ Begin(w) \/ Send(w)
  PROVE  Walked' /\ Answered' /\ NoChannelBypassed' /\ SentWasAccepted'
<1> DEFINE t == job[w].trace
<1>1. /\ job \in [Workers -> Jobs] /\ row \in [Traces -> Rows]
      /\ sends \in [Traces -> Nat] /\ refused \in [Traces -> SUBSET Positions]
  BY DEF WalkInv, TypeInv, TypeOK
<1>2. /\ t \in Traces /\ job[w].i \in 0 .. NumChannels
      /\ \A p \in Positions : p < job[w].i => p \in refused[t]
  BY DEF WalkInv, TypeInv, TypeOK, Jobs, Walked, Walking, Skip, Begin, Send
<1>3. ASSUME Advance(w), UNCHANGED <<row, sends>>
      PROVE  Walked' /\ Answered' /\ NoChannelBypassed' /\ SentWasAccepted'
  <2>1. /\ refused'[t] = refused[t] \cup {job[w].i}
        /\ \A u \in Traces : refused[u] \subseteq refused'[u]
    BY <1>1, <1>2, <1>3 DEF Advance
  <2>2. /\ job'[w].i = job[w].i + 1 /\ job'[w].trace = t /\ job'[w].at = "loop"
        /\ \A v \in Workers : v # w => job'[v] = job[v]
    BY <1>1, <1>3 DEF Advance, Visit, Job
  <2>3. \A p \in Positions : p < job[w].i + 1 => p \in refused'[t]
    BY <1>2, <2>1, DispatchAssumption DEF Positions
  <2>4. Walked'
    <3>1. \A v \in Workers : job[v].at \in Walking \cup {"expired", "sent", "transient"} => job[v].trace \in Traces
      BY DEF WalkInv, TypeInv, TypeOK, Walking
    <3> QED BY <2>1, <2>2, <2>3, <3>1 DEF WalkInv, Walked
  <2>5. Answered'
    BY <1>3, <2>2 DEF WalkInv, Answered
  <2>6. NoChannelBypassed' /\ SentWasAccepted'
    BY <1>3, <2>1 DEF WalkInv, NoChannelBypassed, SentWasAccepted
  <2> QED BY <2>4, <2>5, <2>6
<1>4. CASE Skip(w)
  BY <1>3, <1>4 DEF Skip
<1>5. CASE Begin(w)
  <2>1. UNCHANGED <<sends, refused>> BY <1>5 DEF Begin, provider
  <2>2. CASE /\ row' = [row EXCEPT ![t] = [status |-> "sending", index |-> job[w].i]]
             /\ job' = [job EXCEPT ![w] = Job("send", t, job[w].i, job[w].i)]
    <3>1. row' \in Updated(t, "sending", job[w].i) /\ "sending" \in Status
      BY <2>2 DEF Updated, Status
    <3>2. job[w].i \in Positions
      BY <1>2, <1>5, DispatchAssumption DEF Begin, Positions
    <3>3. NoChannelBypassed' /\ SentWasAccepted'
      BY <1>2, <2>1, <3>1, <3>2, RowWritten
    <3>4. Walked' /\ Answered'
      BY <1>1, <1>2, <2>1, <2>2 DEF WalkInv, Walked, Answered, Job, Walking
    <3> QED BY <3>3, <3>4
  <2>3. CASE GoTo(w, "fail") /\ row' \in Updated(t, "sending", job[w].i)
    <3>1. Walked' /\ Answered'
      BY <1>1, <2>1, <2>3 DEF WalkInv, Walked, Answered, GoTo, Job, Walking
    <3>2. "sending" \in Status
      BY DEF Status
    <3>3. job[w].i \in Positions
      BY <1>2, <1>5, DispatchAssumption DEF Begin, Positions
    <3>4. NoChannelBypassed' /\ SentWasAccepted'
      BY <1>2, <2>1, <2>3, <3>2, <3>3, RowWritten
    <3> QED BY <3>1, <3>4
  <2> QED BY <1>5, <2>2, <2>3 DEF Begin
<1>6. CASE Send(w)
  <2>1. row' = row BY <1>6 DEF Send
  <2>2. CASE Advance(w) /\ UNCHANGED <<accepted, sends>>
    BY <1>3, <2>1, <2>2
  <2>3. CASE /\ UNCHANGED refused
             /\ \/ GoTo(w, "sent") /\ UNCHANGED sends /\ job[w].i \notin Registered
                \/ GoTo(w, "sent") /\ sends' = [sends EXCEPT ![t] = @ + 1]
                \/ GoTo(w, "transient") /\ sends' = [sends EXCEPT ![t] = @ + 1]
                \/ GoTo(w, "transient") /\ UNCHANGED sends
    <3>1. \A u \in Traces : sends[u] > 0 => sends'[u] > 0
      BY <1>1, <1>2, <2>3
    <3>2. /\ job'[w].i = job[w].i /\ job'[w].trace = t
          /\ \A v \in Workers : v # w => job'[v] = job[v]
      BY <1>1, <2>3 DEF GoTo, Job
    <3>3. Walked'
      BY <1>2, <2>3, <3>2 DEF WalkInv, Walked
    <3>4. job'[w].at = "sent" => sends'[t] > 0 \/ job[w].i \notin Registered
      BY <1>1, <1>2, <2>3 DEF GoTo, Job
    <3>5. Answered'
      <4>1. \A v \in Workers : job[v].at = "sent" => job[v].trace \in Traces
        BY DEF WalkInv, TypeInv, TypeOK
      <4> QED BY <3>1, <3>2, <3>4, <4>1 DEF WalkInv, Answered
    <3>6. NoChannelBypassed' /\ SentWasAccepted'
      BY <2>1, <2>3, <3>1 DEF WalkInv, NoChannelBypassed, SentWasAccepted
    <3> QED BY <3>3, <3>5, <3>6
  <2> QED BY <1>6, <2>2, <2>3 DEF Send, Accept, provider
<1> QED BY <1>4, <1>5, <1>6

\* A receipt writes back a position the walk had reached.
LEMMA ReceiptWalk ==
  ASSUME WalkInv, Receipt
  PROVE  Walked' /\ Answered' /\ NoChannelBypassed' /\ SentWasAccepted'
<1>1. UNCHANGED <<job, sends, refused>>
  BY DEF Receipt, ReadReceipt, WriteReceipt, EmailReceipt, provider
<1>2. Walked' /\ Answered'
  BY <1>1 DEF WalkInv, Walked, Answered
<1>3. ASSUME NEW h \in Receivers, NEW t \in Traces, ReadReceipt(h, t)
      PROVE  NoChannelBypassed' /\ SentWasAccepted'
  BY <1>1, <1>3 DEF ReadReceipt, WalkInv, NoChannelBypassed, SentWasAccepted
<1>4. ASSUME NEW h \in Receivers, WriteReceipt(h) PROVE NoChannelBypassed' /\ SentWasAccepted'
  <2>1. receipt[h].trace \in Traces /\ receipt[h].index \in Positions
    BY <1>4 DEF WriteReceipt, WalkInv, TypeInv, TypeOK, Reads
  <2>2. /\ sends[receipt[h].trace] > 0
        /\ \A p \in Positions : p < receipt[h].index => p \in refused[receipt[h].trace]
    BY <1>4 DEF WriteReceipt, WalkInv, Stale, Found
  <2>3. PICK s \in ReceiptStatus : row' \in Updated(receipt[h].trace, s, receipt[h].index)
    BY <1>4 DEF WriteReceipt
  <2> QED BY <1>1, <2>1, <2>2, <2>3, RowWritten
<1>5. ASSUME NEW t \in Traces, EmailReceipt(t) PROVE NoChannelBypassed' /\ SentWasAccepted'
  <2>1. row[t].index \in Positions
    BY DEF WalkInv, TypeInv, TypeOK, Rows
  <2>2. sends[t] > 0 /\ \A p \in Positions : p < row[t].index => p \in refused[t]
    BY <1>5 DEF EmailReceipt, WalkInv, Found, NoChannelBypassed
  <2>3. PICK s \in ReceiptStatus : row' \in Updated(t, s, row[t].index)
    BY <1>5 DEF EmailReceipt
  <2> QED BY <1>1, <2>1, <2>2, <2>3, RowWritten
<1> QED BY <1>2, <1>3, <1>4, <1>5 DEF Receipt

LEMMA NextWalk == WalkInv /\ [Next]_vars => WalkInv'
<1> SUFFICES ASSUME WalkInv, [Next]_vars PROVE WalkInv'
  OBVIOUS
<1> DEFINE Kept == Walked' /\ Answered' /\ NoChannelBypassed' /\ SentWasAccepted'
<1>1. TypeInv' /\ Found' /\ Stale'
  BY NextType, NextReceipts DEF WalkInv
<1>2. job \in [Workers -> Jobs]
  BY DEF WalkInv, TypeInv, TypeOK
<1>3. CASE UNCHANGED vars
  <2>1. Kept BY <1>3, QuietWalk DEF vars
  <2> QED BY <1>1, <2>1 DEF WalkInv
<1>4. CASE \E w \in Workers, t \in Traces :
             Admit(w, t) \/ Publish(w, t) \/ Increment(w, t) \/ Deliver(w, t)
  <2>1. Kept BY <1>4, QuietWalk DEF Admit, Publish, Increment, Deliver, provider
  <2> QED BY <1>1, <2>1 DEF WalkInv
<1>5. CASE \E t \in Traces : AckWait(t) \/ WindowPasses(t)
  <2>1. Kept BY <1>5, QuietWalk DEF AckWait, WindowPasses, provider
  <2> QED BY <1>1, <2>1 DEF WalkInv
<1>6. ASSUME NEW w \in Workers, NEW t \in Traces, Take(w, t) PROVE Kept
  BY <1>2, <1>6, QuietWalk DEF Take, Job, Walking, provider
<1>7. ASSUME NEW w \in Workers, Process(w) \/ Crash(w) PROVE Kept
  <2>1. CASE Gate(w) BY <2>1, GateWalk
  <2>2. CASE Expire(w) \/ RecordSent(w) \/ RecordTransient(w) \/ Exhaust(w)
    BY <2>2, RecordWalk
  <2>3. CASE Skip(w) \/ Begin(w) \/ Send(w)
    BY <2>3, LoopWalk
  <2>4. CASE Ack(w)
    BY <1>2, <2>4, QuietWalk DEF Ack, Idle, Job, Walking, provider
  <2>5. CASE HandleFailure(w)
    BY <1>2, <2>5, QuietWalk DEF HandleFailure, GoTo, Idle, Job, Walking, provider
  <2>6. CASE Crash(w)
    BY <1>2, <2>6, QuietWalk DEF Crash, Idle, Job, Walking
  <2> QED BY <1>7, <2>1, <2>2, <2>3, <2>4, <2>5, <2>6 DEF Process
<1>8. Next => WalkInv' \/ Kept
  BY <1>4, <1>5, <1>6, <1>7, ReceiptWalk DEF Next
<1>9. Kept => WalkInv'
  BY <1>1 DEF WalkInv
<1> QED BY <1>3, <1>8, <1>9

\* Whatever crashes, redeliveries and processes there are, a row stands on a
\* channel only after every earlier channel refused the message terminally or
\* had no recipient for it, receipts and their stale indices included
\* (orchestrator.go, the fallback loop; processor.go, status_update).
THEOREM WalkCorrect == Spec => []NoChannelBypassed
<1>1. Init => WalkInv
  BY InitType, InitWalk DEF WalkInv
<1>2. WalkInv => NoChannelBypassed
  BY DEF WalkInv
<1> QED BY <1>1, <1>2, NextWalk, PTL DEF Spec

\* A row that says "sent", "delivered" or "read" stands for a provider's
\* acceptance or for a channel that has no dispatcher (orchestrator.go,
\* dispatchToChannel and UpdateProviderMessageID).
THEOREM SentCorrect == Spec => []SentWasAccepted
<1>1. Init => WalkInv
  BY InitType, InitWalk DEF WalkInv
<1>2. WalkInv => SentWasAccepted
  BY DEF WalkInv
<1> QED BY <1>1, <1>2, NextWalk, PTL DEF Spec
-----------------------------------------------------------------------------
(* The status events.  What they say is true when it is published and stays *)
(* true, because acceptances and refusals are never taken back; a call that *)
(* is about to report an expiry works on a message that can expire.         *)

Told(t) == event[t].stored \cup event[t].dropped

Lapsed == \A w \in Workers : job[w].at = "expired" => job[w].trace \in Expiring

\* What may be told of t.
MaySay(t, s) ==
  /\ s = "sent" => \/ sends[t] > 0
                   \/ \E p \in Positions \ Registered : 0 .. (p - 1) \subseteq refused[t]
  /\ s = "failed" => t \in Expiring \/ refused[t] = Positions

EventInv == WalkInv /\ Lapsed /\ StatusEventsTrue

LEMMA TrueIs == StatusEventsTrue <=> \A t \in Traces : \A s \in Told(t) : MaySay(t, s)
  BY DEF StatusEventsTrue, Told, MaySay

LEMMA TrueIsNext ==
  StatusEventsTrue' <=> \A t \in Traces : \A s \in Told(t)' : MaySay(t, s)'
  BY DEF StatusEventsTrue, Told, MaySay

\* publishWebhookEvent tells one status of one message at most.
LEMMA PublishedTells ==
  ASSUME TypeInv, NEW t \in Traces, NEW s, event' \in Published(t, s)
  PROVE  \A u \in Traces : Told(u)' \subseteq Told(u) \cup (IF u = t THEN {s} ELSE {})
<1>1. event \in [Traces -> Events]
  BY DEF TypeInv, TypeOK
<1>2. CASE event' = event
  BY <1>2 DEF Told
<1>3. CASE event' = [event EXCEPT ![t] = Event(event[t].stored, event[t].dropped \cup {s}, TRUE)]
  <2>1. \A u \in Traces :
          event'[u] = IF u = t THEN Event(event[t].stored, event[t].dropped \cup {s}, TRUE)
                               ELSE event[u]
    BY <1>1, <1>3
  <2> QED BY <2>1 DEF Told, Event
<1>4. CASE event' = [event EXCEPT ![t] = Event(event[t].stored \cup {s}, event[t].dropped, TRUE)]
  <2>1. \A u \in Traces :
          event'[u] = IF u = t THEN Event(event[t].stored \cup {s}, event[t].dropped, TRUE)
                               ELSE event[u]
    BY <1>1, <1>4
  <2> QED BY <2>1 DEF Told, Event
<1> QED BY <1>2, <1>3, <1>4 DEF Published

\* What may be said stays true.
LEMMA SaidStays ==
  ASSUME TypeInv, TypeInv', [Next]_vars, NEW t \in Traces, NEW s, MaySay(t, s)
  PROVE  MaySay(t, s)'
<1>1. sends \in [Traces -> Nat] /\ refused \in [Traces -> SUBSET Positions]
      /\ refused' \in [Traces -> SUBSET Positions]
  BY DEF TypeInv, TypeOK
<1>3. (sends[t] > 0 => sends'[t] > 0) /\ refused[t] \subseteq refused'[t]
  BY OnlyGrow
<1>4. refused'[t] \subseteq Positions
  BY <1>1
<1>5. s = "sent" => \/ sends'[t] > 0
                    \/ \E p \in Positions \ Registered : 0 .. (p - 1) \subseteq refused'[t]
  BY <1>3 DEF MaySay
<1>6. s = "failed" => t \in Expiring \/ refused'[t] = Positions
  BY <1>3, <1>4 DEF MaySay
<1> QED BY <1>5, <1>6 DEF MaySay

\* One status is told that may be said.
LEMMA TellsTrue ==
  ASSUME EventInv, TypeInv', [Next]_vars, NEW t \in Traces, NEW s, MaySay(t, s),
         \A u \in Traces : Told(u)' \subseteq Told(u) \cup (IF u = t THEN {s} ELSE {})
  PROVE  StatusEventsTrue'
<1>1. \A u \in Traces : \A r \in Told(u) : MaySay(u, r)
  BY TrueIs DEF EventInv
<1>2. \A u \in Traces : \A r \in Told(u)' : MaySay(u, r)
  BY <1>1
<1>3. \A u \in Traces : \A r \in Told(u)' : MaySay(u, r)'
  BY <1>2, SaidStays DEF EventInv, WalkInv
<1> QED BY <1>3, TrueIsNext

\* Nothing is told.
LEMMA TellsNothing ==
  ASSUME EventInv, TypeInv', [Next]_vars, \A u \in Traces : Told(u)' \subseteq Told(u)
  PROVE  StatusEventsTrue'
<1>1. \A u \in Traces : \A r \in Told(u)' : MaySay(u, r)
  BY TrueIs DEF EventInv
<1>2. \A u \in Traces : \A r \in Told(u)' : MaySay(u, r)'
  BY <1>1, SaidStays DEF EventInv, WalkInv
<1> QED BY <1>2, TrueIsNext

LEMMA ProcessTells ==
  ASSUME EventInv, TypeInv', [Next]_vars, NEW w \in Workers, Process(w)
  PROVE  StatusEventsTrue'
<1> DEFINE t == job[w].trace
<1>1. job[w].at # "idle" /\ t \in Traces /\ TypeInv
  BY DEF EventInv, WalkInv, TypeInv, TypeOK, Process, Gate, Expire, Skip, Begin, Send, RecordSent,
     RecordTransient, Exhaust, Ack, HandleFailure
<1>2. CASE UNCHANGED event
  BY <1>2, TellsNothing DEF Told
<1>3. \A s \in {"queued", "sending", "failed_transient"} : MaySay(t, s)
  BY DEF MaySay
<1>4. CASE Gate(w)
  <2>1. UNCHANGED event \/ event' \in Published(t, "queued")
    BY <1>4 DEF Gate, Pass
  <2> QED BY <1>1, <1>2, <1>3, <2>1, PublishedTells, TellsTrue
<1>5. CASE Begin(w)
  <2>1. UNCHANGED event \/ event' \in Published(t, "sending")
    BY <1>5 DEF Begin
  <2> QED BY <1>1, <1>2, <1>3, <2>1, PublishedTells, TellsTrue
<1>6. CASE RecordTransient(w)
  <2>1. event' \in Published(t, "failed_transient")
    BY <1>6 DEF RecordTransient
  <2> QED BY <1>1, <1>3, <2>1, PublishedTells, TellsTrue
<1>7. CASE Expire(w)
  <2>1. event' \in Published(t, "failed")
    BY <1>7 DEF Expire
  <2>2. MaySay(t, "failed")
    BY <1>7 DEF Expire, EventInv, Lapsed, MaySay
  <2> QED BY <1>1, <2>1, <2>2, PublishedTells, TellsTrue
<1>8. CASE RecordSent(w)
  <2>1. event' \in Published(t, "sent")
    BY <1>8 DEF RecordSent
  <2>2. job[w].i \in Positions /\ \A p \in Positions : p < job[w].i => p \in refused[t]
    BY <1>8 DEF EventInv, WalkInv, TypeInv, OnChannel, Walked, Walking, RecordSent
  <2>3. sends[t] > 0 \/ job[w].i \notin Registered
    BY <1>8 DEF EventInv, WalkInv, Answered, RecordSent
  <2>4. 0 .. (job[w].i - 1) \subseteq refused[t]
    BY <2>2, DispatchAssumption DEF Positions
  <2>5. MaySay(t, "sent")
    BY <2>2, <2>3, <2>4 DEF MaySay
  <2> QED BY <1>1, <2>1, <2>5, PublishedTells, TellsTrue
<1>9. CASE Exhaust(w)
  <2>1. event' \in Published(t, "failed")
    BY <1>9 DEF Exhaust
  <2>2. \A p \in Positions : p \in refused[t]
    BY <1>9, DispatchAssumption DEF EventInv, WalkInv, Walked, Walking, Exhaust, Positions
  <2>3. refused[t] = Positions
    BY <1>1, <2>2 DEF TypeInv, TypeOK
  <2>4. MaySay(t, "failed")
    BY <2>3 DEF MaySay
  <2> QED BY <1>1, <2>1, <2>4, PublishedTells, TellsTrue
<1>10. CASE Skip(w) \/ Send(w) \/ Ack(w) \/ HandleFailure(w)
  BY <1>2, <1>10 DEF Skip, Send, Ack, HandleFailure
<1> QED BY <1>4, <1>5, <1>6, <1>7, <1>8, <1>9, <1>10 DEF Process

LEMMA NextLapsed == ASSUME EventInv, [Next]_vars PROVE Lapsed'
<1>1. job \in [Workers -> Jobs]
  BY DEF EventInv, WalkInv, TypeInv, TypeOK
<1>2. ASSUME NEW w \in Workers, \A v \in Workers : v # w => job'[v] = job[v],
             job'[w].at = "expired" => job'[w].trace \in Expiring
      PROVE  Lapsed'
  BY <1>2 DEF EventInv, Lapsed
<1>3. CASE UNCHANGED job
  BY <1>3 DEF EventInv, Lapsed
<1>4. ASSUME NEW w \in Workers, Gate(w) PROVE Lapsed'
  <2>1. \/ \E l \in {"ack", "fail"} : GoTo(w, l)
        \/ \E i : Visit(w, i)
        \/ job[w].trace \in Expiring /\ \E i : Lapse(w, i)
    BY <1>4 DEF Gate, Pass
  <2> QED BY <1>1, <1>2, <2>1 DEF GoTo, Visit, Lapse, Job
<1>5. ASSUME NEW w \in Workers, Expire(w) \/ RecordSent(w) \/ RecordTransient(w) \/ Exhaust(w)
      PROVE  Lapsed'
  BY <1>1, <1>2, <1>5 DEF Expire, RecordSent, RecordTransient, Exhaust, GoTo, Job
<1>6. ASSUME NEW w \in Workers, Skip(w) \/ Begin(w) \/ Send(w) PROVE Lapsed'
  BY <1>1, <1>2, <1>6 DEF Skip, Begin, Send, Advance, Visit, GoTo, Job
<1>7. ASSUME NEW w \in Workers, Ack(w) \/ HandleFailure(w) \/ Crash(w) PROVE Lapsed'
  BY <1>1, <1>2, <1>7 DEF Ack, HandleFailure, Crash, GoTo, Idle, Job
<1>8. ASSUME NEW w \in Workers, NEW t \in Traces, Take(w, t) PROVE Lapsed'
  BY <1>1, <1>2, <1>8 DEF Take, Job
<1>9. CASE \E w \in Workers, t \in Traces :
             Admit(w, t) \/ Publish(w, t) \/ Increment(w, t) \/ Deliver(w, t)
  BY <1>3, <1>9 DEF Admit, Publish, Increment, Deliver
<1>10. CASE \E t \in Traces : AckWait(t) \/ WindowPasses(t)
  BY <1>3, <1>10 DEF AckWait, WindowPasses
<1>11. CASE UNCHANGED vars
  BY <1>3, <1>11 DEF vars
<1>12. CASE Receipt
  BY <1>3, <1>12 DEF Receipt, ReadReceipt, WriteReceipt, EmailReceipt
<1> QED BY <1>4, <1>5, <1>6, <1>7, <1>8, <1>9, <1>10, <1>11, <1>12 DEF Next, Process

LEMMA NextEvent == EventInv /\ [Next]_vars => EventInv'
<1> SUFFICES ASSUME EventInv, [Next]_vars PROVE EventInv'
  OBVIOUS
<1>1. WalkInv' /\ Lapsed'
  BY NextWalk, NextLapsed DEF EventInv
<1>2. TypeInv'
  BY <1>1 DEF WalkInv
<1>3. ASSUME UNCHANGED event PROVE StatusEventsTrue'
  <2>1. \A t \in Traces : Told(t)' = Told(t)
    BY <1>3 DEF Told
  <2> QED BY <1>2, <2>1, TellsNothing
<1>4. ASSUME NEW w \in Workers, Process(w) PROVE StatusEventsTrue'
  BY <1>2, <1>4, ProcessTells
<1>5. ASSUME NEW t \in Traces, WindowPasses(t) PROVE StatusEventsTrue'
  <2>1. \A u \in Traces : event'[u] = IF u = t THEN Event(event[t].stored, event[t].dropped, FALSE)
                                               ELSE event[u]
    BY <1>5 DEF WindowPasses, EventInv, WalkInv, TypeInv, TypeOK
  <2>2. \A u \in Traces : Told(u)' = Told(u)
    BY <2>1 DEF Told, Event
  <2> QED BY <1>2, <2>2, TellsNothing
<1>6. ASSUME \E w \in Workers, t \in Traces :
               Admit(w, t) \/ Publish(w, t) \/ Increment(w, t) \/ Deliver(w, t) \/ Take(w, t)
      PROVE  StatusEventsTrue'
  BY <1>3, <1>6 DEF Admit, Publish, Increment, Deliver, Take
<1>7. ASSUME (\E t \in Traces : AckWait(t)) \/ (\E w \in Workers : Crash(w)) \/ UNCHANGED vars
      PROVE  StatusEventsTrue'
  BY <1>3, <1>7 DEF AckWait, Crash, vars
<1>8. ASSUME Receipt PROVE StatusEventsTrue'
  BY <1>3, <1>8 DEF Receipt, ReadReceipt, WriteReceipt, EmailReceipt
<1>9. StatusEventsTrue'
  BY <1>4, <1>5, <1>6, <1>7, <1>8 DEF Next
<1> QED BY <1>1, <1>9 DEF EventInv

\* A client is told "sent" or "failed" only of what happened, in whichever
\* process and after however many crashes and redeliveries it is told
\* (orchestrator.go, publishWebhookEvent after each status update).
THEOREM EventsCorrect == Spec => []StatusEventsTrue
<1>1. Init => EventInv
  <2>1. Init => Lapsed /\ StatusEventsTrue
    BY DEF Init, Lapsed, StatusEventsTrue, Event, Idle, Job
  <2> QED BY <2>1, InitType, InitWalk DEF EventInv, WalkInv
<1>2. EventInv => StatusEventsTrue
  BY DEF EventInv
<1> QED BY <1>1, <1>2, NextEvent, PTL DEF Spec

-----------------------------------------------------------------------------
(* One process, and a row no receipt can find.  The walk runs ahead of the *)
(* row it writes: while a call of Process is between the gate and its last *)
(* update, the row is not "sent" and stands on no later channel than the   *)
(* call.  Two processes break both halves, because each passes the gate on *)
(* a row the other then moves, and so does a receipt, which writes over    *)
(* "sent" and puts back an index it read earlier.                          *)

Sole == \A v, w \in Workers : v = w

UnderWay == {"expired", "loop", "send", "sent", "transient"}

RowBehind ==
  \A w \in Workers :
    /\ job[w].at = "gate" => job[w].last = NotTried
    /\ job[w].at \in UnderWay /\ job[w].trace \notin known =>
         /\ row[job[w].trace].status # "sent"
         /\ row[job[w].trace].index <= job[w].i
         /\ job[w].last # NotTried => row[job[w].trace].index <= job[w].last

\* What a step may do to the rows.
RowsMoveOn ==
  \A t \in Traces \ known : /\ row[t].status = "sent" => row'[t] = row[t]
                            /\ row[t].index <= row'[t].index

\* Steps that write no row, and start no walk.
LEMMA QuietRows ==
  ASSUME TypeInv, RowBehind, UNCHANGED row, known \subseteq known',
         \A v \in Workers :
           \/ job'[v] = job[v]
           \/ job'[v].at \notin UnderWay /\ (job'[v].at = "gate" => job'[v].last = NotTried)
           \/ /\ job[v].at \in UnderWay
              /\ job'[v].at # "gate"
              /\ job'[v].trace = job[v].trace /\ job'[v].last = job[v].last
              /\ job[v].i <= job'[v].i /\ job'[v].i \in Nat
  PROVE  RowBehind' /\ RowsMoveOn
<1>1. \A t \in Traces : row[t].index \in Nat
  BY DispatchAssumption DEF TypeInv, TypeOK, Rows, Positions
<1>2. \A v \in Workers : job[v].at \in UnderWay => job[v].trace \in Traces /\ job[v].i \in Nat
  BY DispatchAssumption DEF TypeInv, TypeOK, Jobs, UnderWay
<1>3. RowBehind'
  BY <1>1, <1>2 DEF RowBehind
<1>4. RowsMoveOn
  BY <1>1 DEF RowsMoveOn
<1> QED BY <1>3, <1>4

\* The call of w writes s at position i into its row, and leaves the walk.
LEMMA LastUpdate ==
  ASSUME TypeInv, RowBehind, Sole, NEW w \in Workers, job[w].at \in UnderWay,
         NEW s \in Status, NEW i \in Positions,
         job[w].trace \notin known => row[job[w].trace].index <= i,
         row' \in Updated(job[w].trace, s, i), GoTo(w, "ack") \/ GoTo(w, "fail")
  PROVE  RowBehind' /\ RowsMoveOn
<1>1. /\ job \in [Workers -> Jobs] /\ row \in [Traces -> Rows] /\ job[w].trace \in Traces
      /\ \A t \in Traces : row[t].index \in Nat
  BY DispatchAssumption DEF TypeInv, TypeOK, UnderWay, Rows, Positions
<1>2. \A v \in Workers : job'[v].at \notin UnderWay \cup {"gate"}
  BY <1>1 DEF Sole, GoTo, Job, UnderWay
<1>3. RowBehind'
  BY <1>2 DEF RowBehind
<1>4. job[w].trace \notin known => row[job[w].trace].status # "sent"
  BY DEF RowBehind
<1>5. \A t \in Traces : row'[t] = row[t] \/ (t = job[w].trace /\ row'[t] = [status |-> s, index |-> i])
  BY <1>1 DEF Updated
<1>6. RowsMoveOn
  BY <1>1, <1>4, <1>5 DEF RowsMoveOn
<1> QED BY <1>3, <1>6

LEMMA GateRows ==
  ASSUME TypeInv, RowBehind, Sole, NEW w \in Workers, Gate(w)
  PROVE  RowBehind' /\ RowsMoveOn
<1> DEFINE t == job[w].trace
<1>0. known' = known
  BY DEF Gate, receipts
<1>1. /\ job \in [Workers -> Jobs] /\ row \in [Traces -> Rows] /\ t \in Traces
      /\ \A u \in Traces : row[u].index \in Nat
  BY DispatchAssumption DEF TypeInv, TypeOK, Gate, Rows, Positions
<1>2. CASE (GoTo(w, "ack") \/ GoTo(w, "fail")) /\ UNCHANGED row
  BY <1>0, <1>1, <1>2, QuietRows DEF GoTo, Job, UnderWay
<1>3. CASE /\ row' = [row EXCEPT ![t] = Row(t)]
           /\ \/ GoTo(w, "ack") \/ GoTo(w, "fail")
              \/ Row(t).status # "sent" /\ (Lapse(w, Row(t).index) \/ Visit(w, Row(t).index))
  <2>1. row'[t] = Row(t) /\ \A u \in Traces : u # t => row'[u] = row[u]
    BY <1>1, <1>3
  <2>2. Row(t) = row[t] \/ (row[t] = NoRow /\ Row(t) = [status |-> "queued", index |-> 0])
    BY DEF Row
  <2>3. RowsMoveOn
    BY <1>1, <2>1, <2>2 DEF RowsMoveOn, NoRow
  <2>4. RowBehind'
    <3>1. CASE GoTo(w, "ack") \/ GoTo(w, "fail")
      BY <1>1, <3>1 DEF RowBehind, Sole, GoTo, Job, UnderWay
    <3>2. CASE Row(t).status # "sent" /\ (Lapse(w, Row(t).index) \/ Visit(w, Row(t).index))
      <4>0. job[w].last = NotTried
        BY DEF Gate, RowBehind
      <4>1. /\ job'[w].at \in {"expired", "loop"} /\ job'[w].trace = t
            /\ job'[w].i = Row(t).index /\ job'[w].last = NotTried
        BY <1>1, <3>2, <4>0 DEF Lapse, Visit, Job
      <4>2. row'[t].status # "sent" /\ row'[t].index <= Row(t).index
        BY <1>1, <2>1, <2>2, <3>2
      <4>3. \A v \in Workers : v = w
        BY DEF Sole
      <4> QED BY <4>1, <4>2, <4>3 DEF RowBehind
    <3> QED BY <1>3, <3>1, <3>2
  <2> QED BY <2>3, <2>4
<1> QED BY <1>2, <1>3 DEF Gate, Pass

LEMMA LoopRows ==
  ASSUME TypeInv, RowBehind, Sole, NEW w \in Workers,
         Skip(w) \/ Begin(w) \/ Send(w) \/ Exhaust(w)
  PROVE  RowBehind' /\ RowsMoveOn
<1> DEFINE t == job[w].trace
<1>1. /\ job \in [Workers -> Jobs] /\ row \in [Traces -> Rows]
      /\ \A u \in Traces : row[u].index \in Nat /\ row[u].index <= NumChannels - 1
      /\ job[w].at \in {"loop", "send"} /\ t \in Traces
      /\ job[w].i \in Nat /\ job[w].last \in 0 .. NumChannels
  BY DispatchAssumption DEF TypeInv, TypeOK, Rows, Jobs, Positions, Skip, Begin, Send, Exhaust
<1>0. known' = known
  BY DEF Skip, Begin, Send, Exhaust, receipts
<1>2. t \notin known => /\ row[t].status # "sent" /\ row[t].index <= job[w].i
                        /\ job[w].last # NotTried => row[t].index <= job[w].last
  BY <1>1 DEF RowBehind, UnderWay
<1>3. CASE UNCHANGED row /\ ((\E l \in {"sent", "transient", "fail"} : GoTo(w, l)) \/ Visit(w, job[w].i + 1))
  BY <1>0, <1>1, <1>3, QuietRows DEF GoTo, Visit, Job, UnderWay
<1>4. CASE /\ row' = [row EXCEPT ![t] = [status |-> "sending", index |-> job[w].i]]
           /\ job' = [job EXCEPT ![w] = Job("send", t, job[w].i, job[w].i)]
  <2>1. /\ row'[t] = [status |-> "sending", index |-> job[w].i]
        /\ \A u \in Traces : u # t => row'[u] = row[u]
    BY <1>1, <1>4
  <2>2. RowsMoveOn
    BY <1>1, <1>2, <2>1 DEF RowsMoveOn
  <2>3. job'[w] = Job("send", t, job[w].i, job[w].i) /\ \A v \in Workers : v = w
    BY <1>1, <1>4 DEF Sole
  <2>4. RowBehind'
    BY <1>1, <2>1, <2>3 DEF RowBehind, Job
  <2> QED BY <2>2, <2>4
<1>5. CASE Exhaust(w)
  <2> DEFINE f == IF job[w].last = NotTried THEN NumChannels - 1 ELSE job[w].last
  <2>1. f \in Positions /\ (t \notin known => row[t].index <= f)
    BY <1>1, <1>2, DispatchAssumption DEF NotTried, Positions
  <2>2. row' \in Updated(t, "failed", f) /\ GoTo(w, "ack") /\ "failed" \in Status
    BY <1>5 DEF Exhaust, Status
  <2> HIDE DEF f
  <2> QED BY <1>1, <2>1, <2>2, LastUpdate DEF UnderWay
<1>6. CASE Begin(w) /\ GoTo(w, "fail") /\ row' \in Updated(t, "sending", job[w].i)
  <2>1. job[w].i \in Positions
    BY <1>1, <1>6, DispatchAssumption DEF Begin, Positions
  <2> QED BY <1>1, <1>2, <1>6, <2>1, LastUpdate DEF UnderWay, Status
<1> QED BY <1>3, <1>4, <1>5, <1>6 DEF Skip, Begin, Send, Advance

LEMMA UpdateRows ==
  ASSUME TypeInv, RowBehind, Sole, NEW w \in Workers,
         Expire(w) \/ RecordSent(w) \/ RecordTransient(w)
  PROVE  RowBehind' /\ RowsMoveOn
<1>1. /\ job[w].at \in UnderWay /\ job[w].i \in Positions
      /\ job[w].trace \notin known => row[job[w].trace].index <= job[w].i
  BY DEF TypeInv, OnChannel, RowBehind, UnderWay, Expire, RecordSent, RecordTransient
<1>2. PICK s \in Status : row' \in Updated(job[w].trace, s, job[w].i)
  BY DEF Expire, RecordSent, RecordTransient, Status
<1>3. GoTo(w, "ack") \/ GoTo(w, "fail")
  BY DEF Expire, RecordSent, RecordTransient
<1> QED BY <1>1, <1>2, <1>3, LastUpdate

\* A receipt writes only into rows it can find.
LEMMA ReceiptRows ==
  ASSUME WalkInv, RowBehind, Receipt
  PROVE  RowBehind' /\ RowsMoveOn
<1>1. row \in [Traces -> Rows] /\ \A t \in Traces : row[t].index \in Nat
  BY DispatchAssumption DEF WalkInv, TypeInv, TypeOK, Rows, Positions
<1>2. UNCHANGED <<job, known>>
  BY DEF Receipt, ReadReceipt, WriteReceipt, EmailReceipt, receipts
<1>3. \A t \in Traces \ known : row'[t] = row[t]
  <2>1. ASSUME NEW h \in Receivers, WriteReceipt(h) PROVE \A t \in Traces \ known : row'[t] = row[t]
    <3>1. receipt[h].trace \in known
      BY <2>1 DEF WriteReceipt, WalkInv, Stale
    <3> QED BY <1>1, <2>1, <3>1 DEF WriteReceipt, Updated
  <2>2. ASSUME NEW u \in Traces, EmailReceipt(u) PROVE \A t \in Traces \ known : row'[t] = row[t]
    BY <1>1, <2>2 DEF EmailReceipt, Updated
  <2>3. ASSUME NEW h \in Receivers, NEW t \in Traces, ReadReceipt(h, t) PROVE row' = row
    BY <2>3 DEF ReadReceipt
  <2> QED BY <2>1, <2>2, <2>3 DEF Receipt
<1>4. RowsMoveOn
  BY <1>1, <1>3 DEF RowsMoveOn
<1>5. \A w \in Workers : job[w].at \in UnderWay => job[w].trace \in Traces
  BY DEF WalkInv, TypeInv, TypeOK, UnderWay
<1>6. RowBehind'
  BY <1>2, <1>3, <1>5 DEF RowBehind
<1> QED BY <1>4, <1>6

LEMMA NextRows ==
  ASSUME Sole, WalkInv, RowBehind, [Next]_vars
  PROVE  RowBehind' /\ RowsMoveOn
<1>0. TypeInv
  BY DEF WalkInv
<1>1. job \in [Workers -> Jobs]
  BY <1>0 DEF TypeInv, TypeOK
<1>2. CASE UNCHANGED <<row, job, known>>
  BY <1>0, <1>2, QuietRows
<1>3. ASSUME NEW w \in Workers, UNCHANGED <<row, known>>,
             GoTo(w, "ack") \/ job' = [job EXCEPT ![w] = Idle]
               \/ \E t \in Traces : job' = [job EXCEPT ![w] = Job("gate", t, 0, NotTried)]
      PROVE  RowBehind' /\ RowsMoveOn
  BY <1>0, <1>1, <1>3, QuietRows DEF GoTo, Idle, Job, UnderWay
<1>4. ASSUME NEW w \in Workers, Process(w) \/ Crash(w) PROVE RowBehind' /\ RowsMoveOn
  <2>1. CASE Ack(w) \/ HandleFailure(w) \/ Crash(w)
    BY <1>3, <2>1 DEF Ack, HandleFailure, Crash, receipts
  <2> QED BY <1>0, <1>4, <2>1, GateRows, LoopRows, UpdateRows DEF Process
<1>5. ASSUME NEW w \in Workers, NEW t \in Traces, Take(w, t) PROVE RowBehind' /\ RowsMoveOn
  BY <1>3, <1>5 DEF Take, receipts
<1>6. CASE \E w \in Workers, t \in Traces :
             Admit(w, t) \/ Publish(w, t) \/ Increment(w, t) \/ Deliver(w, t)
  BY <1>2, <1>6 DEF Admit, Publish, Increment, Deliver, receipts
<1>7. CASE \E t \in Traces : AckWait(t) \/ WindowPasses(t)
  BY <1>2, <1>7 DEF AckWait, WindowPasses, receipts
<1>8. CASE UNCHANGED vars
  BY <1>2, <1>8 DEF vars
<1>9. CASE Receipt
  BY <1>9, ReceiptRows
<1> QED BY <1>4, <1>5, <1>6, <1>7, <1>8, <1>9 DEF Next

LEMMA InitRows == Init => RowBehind
  BY DEF Init, RowBehind, UnderWay, Idle, Job

\* With one server process a row that says "sent" and that no receipt can
\* find never changes again, for any number of messages, channels,
\* redeliveries and restarts (orchestrator.go, "status already sent").
THEOREM FinalCorrect ==
  ASSUME Sole
  PROVE  Spec => SentIsFinal
<1> DEFINE Final == \A t \in Traces \ known : row[t].status = "sent" => row'[t] = row[t]
<1>1. Init => WalkInv /\ RowBehind
  BY InitType, InitWalk, InitRows DEF WalkInv
<1>2. WalkInv /\ RowBehind /\ [Next]_vars => WalkInv' /\ RowBehind' /\ [Final]_vars
  BY NextWalk, NextRows DEF RowsMoveOn
<1> QED BY <1>1, <1>2, PTL DEF Spec, SentIsFinal

\* With one server process the row of a message that no receipt can find
\* never returns to a channel the walk has left (orchestrator.go,
\* dispatch.FallbackIndex).
THEOREM ForwardCorrect ==
  ASSUME Sole
  PROVE  Spec => NeverGoesBack
<1> DEFINE Forward == \A t \in Traces \ known : row[t].index <= row'[t].index
<1>1. Init => WalkInv /\ RowBehind
  BY InitType, InitWalk, InitRows DEF WalkInv
<1>2. WalkInv /\ RowBehind /\ [Next]_vars => WalkInv' /\ RowBehind' /\ [Forward]_vars
  BY NextWalk, NextRows DEF RowsMoveOn
<1> QED BY <1>1, <1>2, PTL DEF Spec, NeverGoesBack

-----------------------------------------------------------------------------
(* Refinement.  A step of the dispatch path changes at most one of what    *)
(* Outcome keeps: the refused positions, the takings, what was told, the   *)
(* restarts.  Walked says that the position a call stands on is reached,   *)
(* Counted with AcceptedOnce that a process about to make a provider take  *)
(* a message still has a taking left, and EventInv that a call tells only  *)
(* what may be said.                                                       *)

toldEnds == [t \in Traces |-> ToldEnd(t)]

\* Steps that change nothing Outcome keeps.
LEMMA NothingToldOf ==
  ASSUME UNCHANGED <<refused, sends, crashes>>, \A u \in Traces : ToldEnd(u)' = ToldEnd(u)
  PROVE  UNCHANGED <<refused, sends, toldEnds, crashes>>
  BY DEF toldEnds

LEMMA EventKept ==
  ASSUME UNCHANGED event
  PROVE  \A u \in Traces : ToldEnd(u)' = ToldEnd(u)
  BY DEF ToldEnd

\* An event adds its status to what was told of its message, or is lost.
LEMMA PublishedEnds ==
  ASSUME TypeInv, NEW t \in Traces, NEW s \in Status, event' \in Published(t, s)
  PROVE  \/ \A u \in Traces : ToldEnd(u)' = ToldEnd(u)
         \/ \A u \in Traces : ToldEnd(u)' = IF u = t THEN ToldEnd(u) \cup ({s} \cap {"sent", "failed"})
                                                    ELSE ToldEnd(u)
<1>1. event \in [Traces -> Events]
  BY DEF TypeInv, TypeOK
<1>2. CASE event' = event
  BY <1>2, EventKept
<1>3. CASE event' = [event EXCEPT ![t] = Event(event[t].stored, event[t].dropped \cup {s}, TRUE)]
  <2>1. \A u \in Traces : event'[u] =
             IF u = t THEN Event(event[t].stored, event[t].dropped \cup {s}, TRUE) ELSE event[u]
    BY <1>1, <1>3
  <2>2. ASSUME NEW u \in Traces, u # t PROVE ToldEnd(u)' = ToldEnd(u)
    BY <2>1, <2>2 DEF ToldEnd
  <2>3. ToldEnd(t)' = (event[t].stored \cup (event[t].dropped \cup {s})) \cap {"sent", "failed"}
    BY <2>1 DEF ToldEnd, Event
  <2>4. ToldEnd(t)' = ToldEnd(t) \cup ({s} \cap {"sent", "failed"})
    BY <2>3 DEF ToldEnd
  <2> QED BY <2>2, <2>4
<1>4. CASE event' = [event EXCEPT ![t] = Event(event[t].stored \cup {s}, event[t].dropped, TRUE)]
  <2>1. \A u \in Traces : event'[u] =
             IF u = t THEN Event(event[t].stored \cup {s}, event[t].dropped, TRUE) ELSE event[u]
    BY <1>1, <1>4
  <2>2. ASSUME NEW u \in Traces, u # t PROVE ToldEnd(u)' = ToldEnd(u)
    BY <2>1, <2>2 DEF ToldEnd
  <2>3. ToldEnd(t)' = ((event[t].stored \cup {s}) \cup event[t].dropped) \cap {"sent", "failed"}
    BY <2>1 DEF ToldEnd, Event
  <2>4. ToldEnd(t)' = ToldEnd(t) \cup ({s} \cap {"sent", "failed"})
    BY <2>3 DEF ToldEnd
  <2> QED BY <2>2, <2>4
<1> QED BY <1>2, <1>3, <1>4 DEF Published

\* A status that ends a message is told only when Outcome lets it be.
LEMMA TellsEnd ==
  ASSUME TypeInv, NEW t \in Traces, NEW s \in {"sent", "failed"}, event' \in Published(t, s),
         O!MaySay(t, s), UNCHANGED <<refused, sends, crashes>>
  PROVE  [O!Next]_<<refused, sends, toldEnds, crashes>>
<1>1. CASE \A u \in Traces : ToldEnd(u)' = ToldEnd(u)
  BY <1>1, NothingToldOf
<1>2. CASE \A u \in Traces : ToldEnd(u)' = IF u = t THEN ToldEnd(u) \cup {s} ELSE ToldEnd(u)
  <2>1. toldEnds' = [toldEnds EXCEPT ![t] = @ \cup {s}]
    BY <1>2 DEF toldEnds
  <2>2. O!Tell(t, s)
    BY <2>1 DEF O!Tell, toldEnds
  <2> QED BY <2>2 DEF O!Next, O!Ends
<1>3. {s} \cap {"sent", "failed"} = {s} /\ s \in Status
  BY DEF Status
<1> QED BY <1>1, <1>2, <1>3, PublishedEnds

\* A status on the way is nothing Outcome speaks of.
LEMMA TellsNoEnd ==
  ASSUME TypeInv, NEW t \in Traces, NEW s \in {"queued", "sending", "failed_transient"},
         event' \in Published(t, s), UNCHANGED <<refused, sends, crashes>>
  PROVE  [O!Next]_<<refused, sends, toldEnds, crashes>>
<1>1. {s} \cap {"sent", "failed"} = {} /\ s \in Status
  BY DEF Status
<1>2. \A u \in Traces : ToldEnd(u)' = ToldEnd(u)
  BY <1>1, PublishedEnds
<1> QED BY <1>2, NothingToldOf

LEMMA AdvanceRefuses ==
  ASSUME WalkInv, NEW w \in Workers, job[w].at \in Walking, job[w].i < NumChannels, Advance(w),
         UNCHANGED <<event, sends, crashes>>
  PROVE  O!Next
<1>0. PICK t \in Traces : t = job[w].trace
  BY DEF WalkInv, TypeInv, TypeOK, Walking
<1>1. job[w].i \in O!Channels
  BY DispatchAssumption DEF WalkInv, TypeInv, TypeOK, Jobs, O!Channels
<1>2. O!Reached(t, job[w].i)
  BY <1>0 DEF WalkInv, Walked, O!Reached, O!Channels, Positions
<1>3. UNCHANGED toldEnds
  BY EventKept DEF toldEnds
<1>4. O!Refuse(t, job[w].i)
  BY <1>0, <1>2, <1>3 DEF O!Refuse, Advance, toldEnds
<1> QED BY <1>1, <1>4 DEF O!Next

LEMMA AcceptTakes ==
  ASSUME WalkInv, OnceInv, Counted, NEW w \in Workers, job[w].at = "send",
         job[w].i \in Registered, NEW t \in Traces, t = job[w].trace, Accept(w, t),
         UNCHANGED <<event, crashes>>
  PROVE  O!Next
<1>1. job[w].i \in O!Channels
  BY DispatchAssumption DEF O!Channels, Positions
<1>2. O!Reached(t, job[w].i)
  BY DEF WalkInv, Walked, Walking, O!Reached, O!Channels, Positions
<1>3. /\ accepted \in [Workers -> [Traces -> Nat]] /\ sends \in [Traces -> Nat] /\ crashes \in Nat
  BY DispatchAssumption DEF OnceInv, TypeInv, TypeOK
<1>4. sends[t] < Cardinality(Workers) + crashes
  <2>1. w \notin Holders(t)
    BY <1>3 DEF OnceInv, AcceptedOnce, Walking, Holders
  <2>2. Cardinality(Holders(t) \cup {w}) = Cardinality(Holders(t)) + 1
    BY <2>1, HoldersFinite, FS_AddElement
  <2>3. Cardinality(Holders(t) \cup {w}) <= Cardinality(Workers)
    BY DispatchAssumption, FS_Subset DEF Holders
  <2>4. sends[t] <= crashes + Cardinality(Holders(t))
    BY DEF Counted
  <2> QED BY <1>3, <2>2, <2>3, <2>4, HoldersFinite
<1>5. UNCHANGED toldEnds
  BY EventKept DEF toldEnds
<1>6. O!Take(t, job[w].i)
  BY <1>2, <1>4, <1>5 DEF O!Take, Accept, toldEnds
<1> QED BY <1>1, <1>6 DEF O!Next

LEMMA ProcessOutcome ==
  ASSUME EventInv, OnceInv, Counted, NEW w \in Workers, Process(w)
  PROVE  [O!Next]_<<refused, sends, toldEnds, crashes>>
<1>0. PICK t \in Traces : t = job[w].trace
  BY DEF OnceInv, TypeInv, TypeOK, Process, Gate, Expire, Skip, Begin, Send, RecordSent,
         RecordTransient, Exhaust, Ack, HandleFailure
<1>1. WalkInv /\ TypeInv
  BY DEF EventInv, WalkInv
<1>2. CASE UNCHANGED <<event, refused, sends, crashes>>
  BY <1>2, EventKept, NothingToldOf
<1>3. CASE Gate(w)
  <2>1. UNCHANGED event \/ event' \in Published(t, "queued")
    BY <1>0, <1>3 DEF Gate, Pass
  <2>2. UNCHANGED <<refused, sends, crashes>>
    BY <1>3 DEF Gate, provider
  <2> QED BY <1>1, <1>2, <2>1, <2>2, TellsNoEnd
<1>4. CASE Expire(w)
  <2>1. event' \in Published(t, "failed") /\ UNCHANGED <<refused, sends, crashes>>
    BY <1>0, <1>4 DEF Expire, provider
  <2>2. O!MaySay(t, "failed")
    BY <1>0, <1>4 DEF Expire, EventInv, Lapsed, O!MaySay
  <2> QED BY <1>1, <2>1, <2>2, TellsEnd
<1>5. CASE Skip(w)
  BY <1>1, <1>5, AdvanceRefuses DEF Skip, Walking
<1>6. CASE Begin(w)
  <2>1. UNCHANGED event \/ event' \in Published(t, "sending")
    BY <1>0, <1>6 DEF Begin
  <2>2. UNCHANGED <<refused, sends, crashes>>
    BY <1>6 DEF Begin, provider
  <2> QED BY <1>1, <1>2, <2>1, <2>2, TellsNoEnd
<1>7. CASE Send(w)
  <2>1. job[w].at = "send" /\ UNCHANGED <<event, crashes>>
    BY <1>7 DEF Send
  <2>2. job[w].i < NumChannels
    BY <1>1, <2>1, DispatchAssumption DEF TypeInv, OnChannel, Positions
  <2>3. CASE UNCHANGED provider
    BY <1>2, <2>1, <2>3 DEF provider
  <2>4. CASE job[w].i \in Registered /\ Accept(w, t)
    BY <1>0, <1>1, <2>1, <2>4, AcceptTakes
  <2>5. CASE Advance(w) /\ UNCHANGED <<accepted, sends>>
    BY <1>1, <2>1, <2>2, <2>5, AdvanceRefuses DEF Walking
  <2> QED BY <1>0, <1>7, <2>3, <2>4, <2>5 DEF Send
<1>8. CASE RecordSent(w)
  <2>1. event' \in Published(t, "sent") /\ UNCHANGED <<refused, sends, crashes>>
    BY <1>0, <1>8 DEF RecordSent, provider
  <2>2. job[w].i \in Positions /\ O!Reached(t, job[w].i)
    BY <1>0, <1>1, <1>8
    DEF RecordSent, TypeInv, OnChannel, WalkInv, Walked, O!Reached, O!Channels, Positions
  <2>3. sends[t] > 0 \/ job[w].i \notin Registered
    BY <1>0, <1>1, <1>8 DEF RecordSent, WalkInv, Answered
  <2>4. O!MaySay(t, "sent")
    BY <2>2, <2>3 DEF O!MaySay, O!Channels, Positions
  <2> QED BY <1>1, <2>1, <2>4, TellsEnd
<1>9. CASE RecordTransient(w)
  <2>1. event' \in Published(t, "failed_transient") /\ UNCHANGED <<refused, sends, crashes>>
    BY <1>0, <1>9 DEF RecordTransient, provider
  <2> QED BY <1>1, <2>1, TellsNoEnd
<1>10. CASE Exhaust(w)
  <2>1. event' \in Published(t, "failed") /\ UNCHANGED <<refused, sends, crashes>>
    BY <1>0, <1>10 DEF Exhaust, provider
  <2>2. \A p \in Positions : p \in refused[t]
    BY <1>0, <1>1, <1>10, DispatchAssumption DEF WalkInv, Walked, Walking, Exhaust, Positions
  <2>3. refused[t] = O!Channels
    BY <1>1, <2>2 DEF TypeInv, TypeOK, O!Channels, Positions
  <2>4. O!MaySay(t, "failed")
    BY <2>3 DEF O!MaySay
  <2> QED BY <1>1, <2>1, <2>4, TellsEnd
<1>11. CASE Ack(w) \/ HandleFailure(w)
  BY <1>2, <1>11 DEF Ack, HandleFailure, provider
<1> QED BY <1>3, <1>4, <1>5, <1>6, <1>7, <1>8, <1>9, <1>10, <1>11 DEF Process

LEMMA NextOutcome ==
  ASSUME EventInv, OnceInv, Counted, [Next]_vars
  PROVE  [O!Next]_<<refused, sends, toldEnds, crashes>>
<1>1. CASE UNCHANGED <<event, refused, sends, crashes>>
  BY <1>1, EventKept, NothingToldOf
<1>2. CASE \E w \in Workers, t \in Traces :
             Admit(w, t) \/ Publish(w, t) \/ Increment(w, t) \/ Deliver(w, t) \/ Take(w, t)
  BY <1>1, <1>2 DEF Admit, Publish, Increment, Deliver, Take, provider
<1>3. CASE \E t \in Traces : AckWait(t)
  BY <1>1, <1>3 DEF AckWait, provider
<1>4. ASSUME NEW t \in Traces, WindowPasses(t)
      PROVE  UNCHANGED <<refused, sends, toldEnds, crashes>>
  <2>1. \A u \in Traces : event'[u] = IF u = t THEN Event(event[t].stored, event[t].dropped, FALSE)
                                               ELSE event[u]
    BY <1>4 DEF WindowPasses, OnceInv, TypeInv, TypeOK
  <2>2. \A u \in Traces : ToldEnd(u)' = ToldEnd(u)
    BY <2>1 DEF ToldEnd, Event
  <2> QED BY <1>4, <2>2, NothingToldOf DEF WindowPasses, provider
<1>5. ASSUME NEW w \in Workers, Crash(w) PROVE O!Next
  <2>1. UNCHANGED toldEnds
    BY <1>5, EventKept DEF Crash, toldEnds
  <2>2. O!Restart
    BY <1>5, <2>1 DEF O!Restart, Crash, toldEnds
  <2> QED BY <2>2 DEF O!Next
<1>6. CASE UNCHANGED vars
  BY <1>1, <1>6 DEF vars
<1>7. CASE Receipt
  BY <1>1, <1>7 DEF Receipt, ReadReceipt, WriteReceipt, EmailReceipt, provider
<1> QED BY <1>2, <1>3, <1>4, <1>5, <1>6, <1>7, ProcessOutcome DEF Next

\* The dispatch path keeps the promises of Outcome, for any number of
\* processes, messages, channels, redeliveries and restarts: channels are
\* tried in order, takings are bounded by the lives of the processes, and
\* the sender is told the truth (orchestrator.go, Process).
THEOREM DispatchImplementsOutcome == Spec => ImplementsOutcome
<1> DEFINE Inv == EventInv /\ OnceInv /\ Counted
<1>1. Init => O!Init
  <2> SUFFICES ASSUME Init PROVE \A t \in Traces : ToldEnd(t) = {}
    BY DEF Init, O!Init
  <2> QED BY DEF Init, ToldEnd, Event
<1>2. Init => Inv
  <2>1. Init => Lapsed /\ StatusEventsTrue
    BY DEF Init, Lapsed, StatusEventsTrue, Event, Idle, Job
  <2>2. Init => Counted
    BY HoldersFinite DEF Init, Counted
  <2> QED BY <2>1, <2>2, InitType, InitWalk, InitOnce DEF EventInv, WalkInv, OnceInv
<1>3. Inv /\ [Next]_vars => Inv'
  BY NextEvent, NextOnce, NextCounted
<1>4. Inv /\ [Next]_vars => [O!Next]_<<refused, sends, [t \in Traces |-> ToldEnd(t)], crashes>>
  BY NextOutcome DEF toldEnds
<1> QED BY <1>1, <1>2, <1>3, <1>4, PTL DEF Spec, ImplementsOutcome, O!Spec
=============================================================================
