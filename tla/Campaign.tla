------------------------------ MODULE Campaign ------------------------------
(***************************************************************************)
(* One bulk campaign of the broadcaster engine: operators and schedulers   *)
(* drive its lifecycle (Start, Pause, Resume, Cancel, Delete, TriggerDue), *)
(* the campaign workers run ProcessStartTask, which resolves the audience, *)
(* writes the recipient rows and publishes batches, and ProcessBatchTask,  *)
(* which ingests one message per recipient.                                *)
(*                                                                         *)
(* Every database statement is a step of its own, so a status read is      *)
(* stale by the time it is acted on.  Recipients are numbered in the order *)
(* of the merged list (tagged contacts first).                             *)
(* Contacts without an identity get a "skipped" row that no other step     *)
(* looks at, and have no row here.                                         *)
(***************************************************************************)
EXTENDS Integers, FiniteSets, Sequences

CONSTANTS Callers,     \* concurrent API calls and scheduler ticks
          Workers,     \* processes with a campaign worker
          Recipients,  \* 1 .. n
          Upload,      \* the recipients uploaded with the campaign, a sequence
          Audiences,   \* what the tags and the upload may resolve to
          BatchSize,
          MaxDeliver,  \* of the CAMPAIGNS consumer
          Slow,        \* whether AckWait may run out under a running handler
          MaxMsgs,     \* bound of the model: messages published
          MaxOps,      \* bound of the model: lifecycle calls
          MaxFaults,   \* bound of the model: failed statements, publishes, acks
          MaxEnds      \* bound of the model: processes killed or stopped

ASSUME CampaignAssumption ==
  /\ Recipients \subseteq Nat \ {0}
  /\ IsFiniteSet(Recipients)
  /\ Audiences \subseteq SUBSET Recipients
  /\ BatchSize \in Nat \ {0}
  /\ MaxDeliver \in Nat \ {0}
  /\ Slow \in BOOLEAN
  /\ MaxMsgs \in Nat /\ MaxOps \in Nat /\ MaxFaults \in Nat
  /\ MaxEnds \in Nat

ASSUME UploadAssumption == Upload \in Seq(Recipients)

VARIABLES
  status,    \* campaigns.status, or "deleted"
  row,       \* row[r]: status of campaign_recipients, "none" before insert
  sent,      \* campaigns.sent_recipients
  msg,       \* msg[i]: message i of the CAMPAIGNS stream
  last,      \* messages published so far
  queue,     \* queue[i]: message i as the consumer sees it
  num,       \* num[i]: deliveries of i so far
  recent,    \* message ids inside the duplicate window
  call,      \* call[c]: the API call or scheduler tick of c
  run,       \* run[w]: the handler of w
  ingested,  \* recipients whose message the outbound processor took
  over,      \* over[w]: recipients w ingested since the campaign was halted
  cut,       \* it is "sending", and a call or a task that saw to it was cut off
  faults, ops, ends

campaign == <<status, over, cut>>
broker   == <<msg, last, queue, num, recent>>
bounds   == <<faults, ops, ends>>
vars     == <<campaign, row, sent, broker, call, run, ingested, bounds>>

Statuses == {"draft", "scheduled", "sending", "paused", "completed", "cancelled",
             "failed", "deleted"}
Halted   == {"paused", "cancelled"}
MsgIds   == 1 .. MaxMsgs

\* Start tasks and the batches of ProcessStartTask have fixed Nats-Msg-Ids,
\* 0 and the batch index; the ids of Resume's batches are never repeated.
StartId == 0
Fresh   == -1

Call(at, from, todo, csv) == [at |-> at, from |-> from, todo |-> todo, sent |-> csv]
Run(at, i, todo, n)       == [at |-> at, msg |-> i, todo |-> todo, n |-> n]
NoCall == Call("idle", "draft", {}, 0)
NoRun  == Run("idle", 0, {}, 0)
NoMsg  == [id |-> Fresh, to |-> {}]

\* Create: a draft, or scheduled when scheduled_at is given.
Init ==
  /\ status \in {"draft", "scheduled"}
  /\ row = [r \in Recipients |-> "none"]
  /\ sent = 0
  /\ msg = [i \in MsgIds |-> NoMsg]
  /\ last = 0
  /\ queue = [i \in MsgIds |-> "none"]
  /\ num = [i \in MsgIds |-> 0]
  /\ recent = {}
  /\ call = [c \in Callers |-> NoCall]
  /\ run = [w \in Workers |-> NoRun]
  /\ ingested = {}
  /\ over = [w \in Workers |-> 0]
  /\ cut = FALSE
  /\ faults = 0 /\ ops = 0 /\ ends = 0

-----------------------------------------------------------------------------
(* Statements and publishes.                                               *)

\* UPDATE campaigns SET status: no condition, and no row when it is deleted.
UpdateStatus(s) ==
  /\ status' = IF status = "deleted" THEN status ELSE s
  /\ over' = IF s = status THEN over ELSE [w \in Workers |-> 0]
  /\ cut' = (cut /\ s = "sending")

Fault ==
  /\ faults < MaxFaults
  /\ faults' = faults + 1
  /\ UNCHANGED <<ops, ends>>

\* JetStream stores the message unless its id is in the duplicate window.
Stored(id, to) ==
  IF id \in recent
  THEN UNCHANGED broker
  ELSE /\ last < MaxMsgs
       /\ last' = last + 1
       /\ msg' = [msg EXCEPT ![last + 1] = [id |-> id, to |-> to]]
       /\ queue' = [queue EXCEPT ![last + 1] = "ready"]
       /\ recent' = IF id = Fresh THEN recent ELSE recent \cup {id}
       /\ UNCHANGED num

\* A publish that returns an error: the message may have been stored.
Lost(id, to) == Stored(id, to) \/ UNCHANGED broker

\* The next batch of a list in the order of its recipients.
NextBatch(todo) == {r \in todo : Cardinality({x \in todo : x < r}) < BatchSize}

-----------------------------------------------------------------------------
(* Lifecycle calls.  Reading a status that does not allow the verb returns *)
(* an error and changes nothing.                                           *)

Legal(verb) ==
  CASE verb = "start"  -> {"draft", "scheduled"}
    [] verb = "pause"  -> {"sending"}
    [] verb = "resume" -> {"paused"}
    [] verb = "cancel" -> {"scheduled", "sending", "paused"}
    [] verb = "delete" -> {"draft"}

\* GetByID and the check of the status it returned.
Request(c, verb) ==
  /\ ops < MaxOps
  /\ ops' = ops + 1
  /\ call[c].at = "idle"
  /\ status \in Legal(verb)
  /\ call' = [call EXCEPT ![c] = Call(verb, status, {}, sent)]
  /\ UNCHANGED <<campaign, row, sent, broker, run, ingested, faults, ends>>

Goto(c, at) == call' = [call EXCEPT ![c].at = at]
Return(c)   == call' = [call EXCEPT ![c] = NoCall]

\* What the UPDATE of a call sets the status to.
Target == [start |-> "sending", pause |-> "paused", resume |-> "sending",
           cancel |-> "cancelled", complete |-> "completed"]

\* A statement of the call fails and the call returns the error; only its
\* answer may have been lost.
CallFails(c) ==
  /\ call[c].at \in DOMAIN Target \cup {"delete", "trigger", "list"}
  /\ \/ UNCHANGED <<campaign, row>>
     \/ /\ call[c].at \in DOMAIN Target
        /\ UpdateStatus(Target[call[c].at])
        /\ UNCHANGED row
     \/ /\ call[c].at = "delete"
        /\ UpdateStatus("deleted")
        /\ row' = [r \in Recipients |-> "none"]
  /\ Fault
  /\ Return(c)
  /\ UNCHANGED <<sent, broker, run, ingested>>

Start(c) ==
  /\ call[c].at = "start"
  /\ UpdateStatus("sending")
  /\ Goto(c, "announce")
  /\ UNCHANGED <<row, sent, broker, run, ingested, bounds>>

\* TriggerDue: ClaimDueScheduledCampaigns checks and sets in one statement.
ClaimDue(c) ==
  /\ ops < MaxOps
  /\ ops' = ops + 1
  /\ call[c].at = "idle"
  /\ status = "scheduled"
  /\ UpdateStatus("sending")
  /\ call' = [call EXCEPT ![c] = Call("trigger", "scheduled", {}, sent)]
  /\ UNCHANGED <<row, sent, broker, run, ingested, faults, ends>>

\* Publish of the start task.
Announce(c) ==
  /\ call[c].at \in {"announce", "trigger"}
  /\ \/ Stored(StartId, {}) /\ Return(c) /\ UNCHANGED bounds
     \/ /\ Lost(StartId, {})
        /\ Fault
        /\ Goto(c, IF call[c].at = "announce" THEN "restore" ELSE "rollback")
  /\ UNCHANGED <<campaign, row, sent, run, ingested>>

\* The compensations: Start restores what it read, whatever the status is
\* by now; RollbackClaim only reverts a status still "sending".  They run
\* under the context the publish failed with, and their errors are ignored.
Restore(c) ==
  /\ call[c].at \in {"restore", "rollback"}
  /\ \/ call[c].at = "restore" /\ UpdateStatus(call[c].from)
     \/ call[c].at = "rollback" /\ status = "sending" /\ UpdateStatus("scheduled")
     \/ UNCHANGED campaign
  /\ Return(c)
  /\ UNCHANGED <<row, sent, broker, run, ingested, bounds>>

Pause(c) ==
  /\ call[c].at = "pause"
  /\ UpdateStatus("paused")
  /\ Return(c)
  /\ UNCHANGED <<row, sent, broker, run, ingested, bounds>>

Cancel(c) ==
  /\ call[c].at = "cancel"
  /\ UpdateStatus("cancelled")
  /\ Return(c)
  /\ UNCHANGED <<row, sent, broker, run, ingested, bounds>>

\* Delete: the recipient rows go with the campaign.
Delete(c) ==
  /\ call[c].at = "delete"
  /\ UpdateStatus("deleted")
  /\ row' = [r \in Recipients |-> "none"]
  /\ Return(c)
  /\ UNCHANGED <<sent, broker, run, ingested, bounds>>

Resume(c) ==
  /\ call[c].at = "resume"
  /\ UpdateStatus("sending")
  /\ Goto(c, "list")
  /\ UNCHANGED <<row, sent, broker, run, ingested, bounds>>

\* Mutant of Remaining: the rows are not consulted.
RemainingOfUpload(c) == {Upload[i] : i \in call[c].sent + 1 .. Len(Upload)}

\* Recipients for Resume: the pending rows, or else the uploaded ones past
\* the count of sent recipients read at the beginning of the call.
Remaining(c) ==
  LET pending == {r \in Recipients : row[r] = "pending"}
      unsent  == {Upload[i] : i \in call[c].sent + 1 .. Len(Upload)}
  IN  IF pending = {} THEN unsent ELSE pending

ListPending(c) ==
  /\ call[c].at = "list"
  /\ call' = [call EXCEPT ![c] = Call(IF Remaining(c) = {} THEN "complete" ELSE "publish",
                                      @.from, Remaining(c), @.sent)]
  /\ UNCHANGED <<campaign, row, sent, broker, run, ingested, bounds>>

\* Nothing is left: Resume completes the campaign.
Complete(c) ==
  /\ call[c].at = "complete"
  /\ UpdateStatus("completed")
  /\ Return(c)
  /\ UNCHANGED <<row, sent, broker, run, ingested, bounds>>

\* One batch of Resume; an error leaves the later ones unpublished.
Republish(c) ==
  LET b == NextBatch(call[c].todo) IN
  /\ call[c].at = "publish"
  /\ \/ /\ Stored(Fresh, b)
        /\ IF call[c].todo = b THEN Return(c)
                               ELSE call' = [call EXCEPT ![c].todo = @ \ b]
        /\ UNCHANGED bounds
     \/ Lost(Fresh, b) /\ Fault /\ Return(c)
  /\ UNCHANGED <<campaign, row, sent, run, ingested>>

-----------------------------------------------------------------------------
(* The consumer: one message unacked at a time, redelivered first.         *)

Ready(i) == queue[i] = "ready" /\ num[i] < MaxDeliver

Take(w, i) ==
  /\ run[w].at = "idle"
  /\ Ready(i)
  /\ \A j \in MsgIds : queue[j] # "pending" /\ (j < i => ~Ready(j))
  /\ queue' = [queue EXCEPT ![i] = "pending"]
  /\ num' = [num EXCEPT ![i] = @ + 1]
  /\ run' = [run EXCEPT ![w] =
               Run(IF msg[i].id = StartId THEN "start" ELSE "begin", i, msg[i].to, 0)]
  /\ UNCHANGED <<campaign, row, sent, msg, last, recent, call, ingested, bounds>>

AckWait(i) ==
  /\ queue[i] = "pending"
  /\ Slow \/ \A w \in Workers : run[w].msg # i
  /\ queue' = [queue EXCEPT ![i] = "ready"]
  /\ UNCHANGED <<campaign, row, sent, msg, last, num, recent, call, run, ingested, bounds>>

WindowPasses(id) ==
  /\ id \in recent
  /\ recent' = recent \ {id}
  /\ UNCHANGED <<campaign, row, sent, msg, last, queue, num, call, run, ingested, bounds>>

-----------------------------------------------------------------------------
(* processStart and ProcessStartTask.                                      *)

Step(w, at) == run' = [run EXCEPT ![w].at = at]

\* GetByID; an error ends the task, which is acked all the same.
ReadStart(w) ==
  /\ run[w].at = "start"
  /\ \/ /\ Step(w, IF status \in {"cancelled", "failed", "deleted"} THEN "ack" ELSE "resolve")
        /\ UNCHANGED bounds
     \/ Step(w, "ack") /\ Fault
  /\ UNCHANGED <<campaign, row, sent, broker, call, ingested>>

\* AddRecipients: ON CONFLICT DO NOTHING.
AddRecipients(to) ==
  row' = [r \in Recipients |-> IF r \in to /\ row[r] = "none" THEN "pending" ELSE row[r]]

\* Resolve the tags, merge the upload, insert the rows: nobody to send to
\* completes the campaign; an error, perhaps of an insert that committed,
\* marks it failed, if that update works.
Resolve(w) ==
  /\ run[w].at = "resolve"
  /\ \/ \E to \in Audiences \ {{}} :
          /\ status # "deleted"
          /\ AddRecipients(to)
          /\ run' = [run EXCEPT ![w] = Run("mark", @.msg, to, 0)]
          /\ UNCHANGED <<campaign, bounds>>
     \/ /\ {} \in Audiences
        /\ UpdateStatus("completed")
        /\ Step(w, "ack")
        /\ UNCHANGED <<row, bounds>>
     \/ /\ UpdateStatus("failed") \/ UNCHANGED campaign
        /\ UNCHANGED row \/ \E to \in Audiences : status # "deleted" /\ AddRecipients(to)
        /\ Step(w, "ack")
        /\ Fault
  /\ UNCHANGED <<sent, broker, call, ingested>>

\* Back to "sending", whatever the status is by now.
MarkSending(w) ==
  /\ run[w].at = "mark"
  /\ \/ UpdateStatus("sending") /\ Step(w, "batches") /\ UNCHANGED bounds
     \/ (UNCHANGED campaign \/ UpdateStatus("sending")) /\ Step(w, "ack") /\ Fault
  /\ UNCHANGED <<row, sent, broker, call, ingested>>

\* One batch; an error leaves the later ones unpublished.
PublishBatch(w) ==
  LET b == NextBatch(run[w].todo)
      n == run[w].n + 1
  IN
  /\ run[w].at = "batches"
  /\ \/ /\ Stored(n, b)
        /\ run' = [run EXCEPT ![w] = Run(IF @.todo = b THEN "ack" ELSE "batches", @.msg, @.todo \ b, n)]
        /\ UNCHANGED bounds
     \/ Lost(n, b) /\ Step(w, "ack") /\ Fault
  /\ UNCHANGED <<campaign, row, sent, call, ingested>>

-----------------------------------------------------------------------------
(* processBatch and ProcessBatchTask.                                      *)

Begin(w) ==
  /\ run[w].at = "begin"
  /\ \/ /\ Step(w, IF status \in Halted \cup {"failed", "deleted"} THEN "ack" ELSE "next")
        /\ UNCHANGED bounds
     \/ Step(w, "ack") /\ Fault
  /\ UNCHANGED <<campaign, row, sent, broker, call, ingested>>

\* Mutant of Recheck: the status is only read when the batch begins.
RecheckNever(w) ==
  /\ run[w].at = "next"
  /\ run[w].todo # {}
  /\ Step(w, "send")
  /\ UNCHANGED <<campaign, row, sent, broker, call, ingested, bounds>>

\* Mutant of Recheck: the loop runs past the last recipient.
RecheckPastEnd(w) ==
  /\ run[w].at = "next"
  /\ Step(w, IF run[w].n > 0 /\ status \in Halted THEN "ack" ELSE "send")
  /\ UNCHANGED <<campaign, row, sent, broker, call, ingested, bounds>>

\* The top of the loop.  From the second recipient on the status is read
\* again; when that read fails the loop goes on.
Recheck(w) ==
  /\ run[w].at = "next"
  /\ run[w].todo # {}
  /\ \/ run[w].n = 0 /\ Step(w, "send") /\ UNCHANGED bounds
     \/ /\ run[w].n > 0
        /\ Step(w, IF status \in Halted THEN "ack" ELSE "send")
        /\ UNCHANGED bounds
     \/ run[w].n > 0 /\ Step(w, "send") /\ Fault
  /\ UNCHANGED <<campaign, row, sent, broker, call, ingested>>

Current(w) == CHOOSE r \in run[w].todo : \A x \in run[w].todo : r <= x

\* GetOrCreateDispatch and Ingest: the message is taken, was already sent by
\* an earlier run of the recipient, or is refused.
Ingest(w) ==
  /\ run[w].at = "send"
  /\ \/ /\ Step(w, "sent")
        /\ ingested' = ingested \cup {Current(w)}
        /\ over' = IF status \in Halted THEN [over EXCEPT ![w] = @ + 1] ELSE over
     \/ /\ Current(w) \in ingested
        /\ Step(w, "seen")
        /\ UNCHANGED <<ingested, over>>
     \/ Step(w, "refused") /\ UNCHANGED <<ingested, over>>
  /\ UNCHANGED <<status, cut, row, sent, broker, call, bounds>>

\* Mutant of Record: the error of Ingest is ignored.
RecordIgnoresError(w) ==
  LET r == Current(w) IN
  /\ run[w].at \in {"sent", "seen", "refused"}
  /\ row' = [row EXCEPT ![r] = IF @ = "none" THEN @ ELSE "sent"]
  /\ run' = [run EXCEPT ![w] = Run("count", @.msg, @.todo, @.n)]
  /\ UNCHANGED <<campaign, sent, broker, call, ingested, bounds>>

\* UpdateRecipientStatusByPhone, and its errors are ignored; a deleted
\* campaign has no rows.
Record(w) ==
  LET r == Current(w)
      s == IF run[w].at = "refused" THEN "failed" ELSE "sent"
  IN
  /\ run[w].at \in {"sent", "seen", "refused"}
  /\ \/ /\ row' = [row EXCEPT ![r] = IF @ = "none" THEN @ ELSE s]
        /\ UNCHANGED bounds
     \/ UNCHANGED row /\ Fault
  /\ run' = [run EXCEPT ![w] = Run(IF @.at = "sent" THEN "count" ELSE "next",
                                   @.msg, IF @.at = "sent" THEN @.todo ELSE @.todo \ {r},
                                   IF @.at = "sent" THEN @.n ELSE @.n + 1)]
  /\ UNCHANGED <<campaign, sent, broker, call, ingested>>

\* UpdateCounters for a recipient just ingested.
Count(w) ==
  /\ run[w].at = "count"
  /\ \/ sent' = sent + 1 /\ UNCHANGED bounds
     \/ UNCHANGED sent /\ Fault
  /\ run' = [run EXCEPT ![w] = Run("next", @.msg, @.todo \ {Current(w)}, @.n + 1)]
  /\ UNCHANGED <<campaign, row, broker, call, ingested>>


\* CompleteIfDone, in one statement.
CompleteIfDone(w) ==
  /\ run[w].at = "next"
  /\ run[w].todo = {}
  /\ \/ /\ IF status = "sending" /\ \A r \in Recipients : row[r] # "pending"
           THEN UpdateStatus("completed") ELSE UNCHANGED campaign
        /\ UNCHANGED bounds
     \/ UNCHANGED campaign /\ Fault
  /\ Step(w, "ack")
  /\ UNCHANGED <<row, sent, broker, call, ingested>>

\* The worker acks whatever the engine returned.
Ack(w) ==
  /\ run[w].at = "ack"
  /\ \/ queue' = [queue EXCEPT ![run[w].msg] = "acked"] /\ UNCHANGED bounds
     \/ UNCHANGED queue /\ Fault
  /\ run' = [run EXCEPT ![w] = NoRun]
  /\ UNCHANGED <<campaign, row, sent, msg, last, num, recent, call, ingested>>

\* A call past the UPDATE that made the campaign "sending".
Midway(c) == call[c].at \in {"announce", "trigger", "restore", "rollback", "list", "publish",
                             "complete"}

\* A process is killed, and with it its handler and the calls it serves,
\* which are any of those under way.
Crash(w, killed) ==
  /\ ends < MaxEnds
  /\ \A c \in killed : call[c].at # "idle"
  /\ run[w].at # "idle" \/ killed # {}
  /\ ends' = ends + 1
  /\ run' = [run EXCEPT ![w] = NoRun]
  /\ call' = [c \in Callers |-> IF c \in killed THEN NoCall ELSE call[c]]
  /\ cut' = (cut \/ (status = "sending" /\ \E c \in killed : Midway(c)))
  /\ UNCHANGED <<status, over, row, sent, broker, ingested, faults, ops>>

\* Stop cancels the context: the statements, publishes and waits that follow
\* fail, and the task is acked.
Stop(w) ==
  /\ ends < MaxEnds
  /\ run[w].at \notin {"idle", "ack"}
  /\ ends' = ends + 1
  /\ Step(w, "ack")
  /\ cut' = (cut \/ status = "sending")
  /\ UNCHANGED <<status, over, row, sent, broker, call, ingested, faults, ops>>

-----------------------------------------------------------------------------
Continue(c) ==
  \/ Start(c) \/ Announce(c) \/ Restore(c) \/ Pause(c) \/ Cancel(c) \/ Delete(c)
  \/ Resume(c) \/ ListPending(c) \/ Complete(c) \/ Republish(c) \/ CallFails(c)

Handle(w) ==
  \/ ReadStart(w) \/ Resolve(w) \/ MarkSending(w) \/ PublishBatch(w)
  \/ Begin(w) \/ Recheck(w) \/ Ingest(w) \/ Record(w) \/ Count(w)
  \/ CompleteIfDone(w) \/ Ack(w)

Verbs == {"start", "pause", "resume", "cancel", "delete"}

Next ==
  \/ \E c \in Callers : ClaimDue(c) \/ Continue(c)
  \/ \E c \in Callers, verb \in Verbs : Request(c, verb)
  \/ \E i \in MsgIds : AckWait(i)
  \/ \E w \in Workers, i \in MsgIds : Take(w, i)
  \/ \E id \in recent : WindowPasses(id)
  \/ \E w \in Workers : Handle(w) \/ Stop(w)
  \/ \E w \in Workers, killed \in SUBSET Callers : Crash(w, killed)

\* Calls and handlers return; the broker delivers and redelivers.
Fairness ==
  /\ \A c \in Callers : WF_vars(Continue(c))
  /\ \A w \in Workers : WF_vars(Handle(w))
  /\ \A i \in MsgIds : WF_vars(AckWait(i)) /\ WF_vars(\E w \in Workers : Take(w, i))

Spec == Init /\ [][Next]_vars
FairSpec == Spec /\ Fairness
-----------------------------------------------------------------------------
(* Properties.                                                             *)

CampaignType ==
  /\ status \in Statuses
  /\ over \in [Workers -> Nat]
  /\ cut \in BOOLEAN
  /\ row \in [Recipients -> {"none", "pending", "sent", "failed"}]
  /\ sent \in Nat
  /\ ingested \subseteq Recipients

BrokerType ==
  /\ last \in 0 .. MaxMsgs
  /\ msg \in [MsgIds -> [id : Nat \cup {Fresh}, to : SUBSET Recipients]]
  /\ queue \in [MsgIds -> {"none", "ready", "pending", "acked"}]
  /\ \A i \in MsgIds : queue[i] = "none" <=> i > last
  /\ num \in [MsgIds -> 0 .. MaxDeliver]
  /\ recent \subseteq Nat

CallType ==
  call \in [Callers -> [at   : Verbs \cup {"idle", "announce", "trigger", "restore",
                                         "rollback", "list", "publish", "complete"},
                        from : Statuses, todo : SUBSET Recipients, sent : Nat]]

RunType ==
  /\ run \in [Workers -> [at : {"idle", "start", "resolve", "mark", "batches", "begin", "next",
                                "send", "sent", "seen", "refused", "count", "ack"},
                          msg : 0 .. last, todo : SUBSET Recipients, n : Nat]]
  /\ \A w \in Workers :
       run[w].at \in {"send", "sent", "seen", "refused", "count"} => run[w].todo # {}
  /\ \A w \in Workers : run[w].at # "idle" => run[w].msg # 0

BoundsType ==
  /\ faults \in 0 .. MaxFaults
  /\ ops \in 0 .. MaxOps
  /\ ends \in 0 .. MaxEnds

\* Every variable holds a value of its kind; calls and handlers work on known
\* recipients and published messages.
TypeOK == CampaignType /\ BrokerType /\ CallType /\ RunType /\ BoundsType

\* Once a campaign is paused or cancelled, and stays so, a process ingests at
\* most the one recipient it was working on, whatever batches, redeliveries
\* and concurrent calls there are; each failed statement allows one more
\* (ProcessBatchTask goes on when its status read fails).
HaltsPromptly == \A w \in Workers : over[w] <= 1 + faults

\* A recipient recorded as sent was really handed to the outbound processor,
\* also when tasks are redelivered, repeated and handled by two processes.
SentWasIngested == \A r \in Recipients : row[r] = "sent" => r \in ingested

\* Somebody still has recipient r to do.
Covered(r) ==
  \/ \E i \in 1 .. last : queue[i] # "acked" /\ (r \in msg[i].to \/ msg[i].id = StartId)
  \/ \E c \in Callers : call[c].at = "list" \/ (call[c].at = "publish" /\ r \in call[c].todo)
  \/ \E w \in Workers : run[w].at \in {"mark", "batches"} /\ r \in run[w].todo

\* While a campaign is sending, every pending recipient is in a task that is
\* not acked or in a list about to be published, however pauses, resumes and
\* processes killed or stopped interleave.  ("Anything acknowledged by the
\* broker survives application crashes or restarts",
\* docs/architecture/index.md:13.)  The exceptions are those of the code: a
\* statement or a publish has failed, a process was killed between the
\* status write of Start, TriggerDue or Resume and its last publish, or was
\* stopped inside a task, which is acked.  After the last two, pausing and
\* resuming the campaign brings every pending recipient back.
NobodyStranded ==
  status = "sending" /\ ~cut /\ faults = 0 =>
    \A r \in Recipients : row[r] = "pending" => Covered(r)


\* "`completed` (terminal, immutable)", "`cancelled` (terminal, immutable)"
\* (docs/specs/0139-deep-broadcaster-engine.md).
TerminalIsFinal ==
  [][(status \in {"completed", "cancelled"}) => status' = status]_vars

\* "pause an active sending campaign, so that outbound dispatches halt"
\* (docs/specs/0139-deep-broadcaster-engine.md): only Resume, Cancel or the
\* end of a call made before the pause takes a paused campaign out of it.
PauseHolds ==
  [][status = "paused" /\ status' # "paused" => run' = run]_vars

\* "transition to completed only after all batches and recipients have
\* reached terminal states" (docs/specs/0139-deep-broadcaster-engine.md).
CompletedMeansDone ==
  status = "completed" => \A r \in Recipients : row[r] # "pending"
=============================================================================
