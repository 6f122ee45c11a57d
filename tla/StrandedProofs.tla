--------------------------- MODULE StrandedProofs ---------------------------
(***************************************************************************)
(* The proof that an orderly campaign strands nobody: while it is sending, *)
(* every pending recipient is in a task or a list still to be handled, for *)
(* any number of recipients, batches, pauses, resumes, killed and stopped  *)
(* processes, up to the first statement that fails.                        *)
(*                                                                         *)
(* The invariant follows the start task, which is message 1 of the stream. *)
(* While it is open every batch waits behind it, so a batch that a rerun   *)
(* finds in the duplicate window is still there to be handled; once it is  *)
(* dealt with, each pending recipient is promised to a batch, or to the    *)
(* list of a Resume, and a handler only lets go of a recipient that is no  *)
(* longer pending, or when the campaign is not sending, or was cut off.  A *)
(* process killed before it published the start task leaves a campaign     *)
(* that will never have one, and no rows either.                           *)
(***************************************************************************)
EXTENDS CampaignProofs

USE CampaignAssumption

\* What the argument needs of the environment.  Lifecycle calls come one at
\* a time (Start writes over a status it read earlier); two handlers never
\* run at once, which takes AckWait to be long enough or a single process;
\* and the tags resolve to the same people each time (the rerun of a killed
\* start task publishes batches only for those it finds itself, and batch 2
\* of one audience has the Nats-Msg-Id of batch 2 of another).
Orderly ==
  /\ \A c, d \in Callers : c = d
  /\ ~Slow \/ \A v, w \in Workers : v = w
  /\ \A S, T \in Audiences \ {{}} : S = T

-----------------------------------------------------------------------------
(* The invariant.                                                          *)

Audience == UNION Audiences

\* Before the start task is published.
Before ==
  last = 0 =>
    /\ \A r \in Recipients : row[r] = "none"
    /\ status \in {"draft", "scheduled", "sending", "cancelled", "deleted"}
    /\ \A c \in Callers : call[c].at \in {"idle", "start", "cancel", "delete", "announce", "trigger"}
    /\ \A c \in Callers : call[c].at \in {"announce", "trigger"} => status \notin {"draft", "scheduled"}
    /\ status = "sending" => \E c \in Callers : call[c].at \in {"announce", "trigger"}

\* From then on no call starts the campaign again.
After ==
  last > 0 =>
    /\ status \notin {"draft", "scheduled"}
    /\ \A c \in Callers : call[c].at \in {"idle", "pause", "resume", "cancel", "list", "publish", "complete"}

\* The start task is message 1; an id in the duplicate window is in the stream.
Numbered ==
  /\ \A i \in 1 .. last : msg[i].id = StartId <=> i = 1
  /\ \A id \in recent : \E i \in 1 .. last : msg[i].id = id

\* One handler at a time, on a message that is not acked.
OneHandler ==
  /\ \A v, w \in Workers : run[v].at # "idle" /\ run[w].at # "idle" => v = w
  /\ \A w \in Workers : run[w].at # "idle" =>
        /\ queue[run[w].msg] # "acked"
        /\ ~Slow => queue[run[w].msg] = "pending"

Stages ==
  \A w \in Workers :
    /\ run[w].at \in {"start", "resolve", "mark", "batches"} => run[w].msg = 1
    /\ run[w].at \in {"begin", "next", "send", "sent", "seen", "refused", "count"} => run[w].msg # 1

\* The start task is being handled or will be.
StartOpen ==
  /\ last > 0
  /\ \/ queue[1] = "pending"
     \/ queue[1] = "ready" /\ num[1] < MaxDeliver
     \/ \E w \in Workers : run[w].at # "idle" /\ run[w].msg = 1

StartFirst ==
  StartOpen => /\ \A i \in 2 .. last : queue[i] = "ready"
               /\ \A w \in Workers : run[w].at # "idle" => run[w].msg = 1

\* The audience without the first k batches; batches 1 to k are in the stream.
Ahead(k)     == {r \in Audience : \A i \in 1 .. last : msg[i].id \in 1 .. k => r \notin msg[i].to}
Published(k) == \A m \in 1 .. k : \E i \in 1 .. last : msg[i].id = m

\* Every run of the start task cuts the audience into the same batches.
SameBatches ==
  \A i \in 1 .. last : msg[i].id >= 1 =>
    msg[i].to = NextBatch(Ahead(msg[i].id - 1)) /\ Published(msg[i].id)

Cutting ==
  \A w \in Workers :
    /\ run[w].at = "mark" => run[w].n = 0 /\ run[w].todo = Audience
    /\ run[w].at = "batches" => run[w].todo = Ahead(run[w].n) /\ Published(run[w].n)

Rows ==
  /\ \A r \in Recipients : row[r] = "pending" => r \in Audience
  /\ \A w \in Workers : run[w].at = "count" => row[Current(w)] # "pending"

\* Somebody other than the start task has r to do, and has not passed it.
InBatch(r, i) ==
  /\ queue[i] # "acked" /\ r \in msg[i].to
  /\ \A w \in Workers : run[w].at # "idle" /\ run[w].msg = i => run[w].at # "ack" /\ r \in run[w].todo

Listed(r) == \E c \in Callers : call[c].at = "list" \/ (call[c].at = "publish" /\ r \in call[c].todo)

Promised(r) == Listed(r) \/ \E i \in 2 .. last : InBatch(r, i)

\* The start task has published all it will.
Dealt == last > 0 /\ (queue[1] = "acked" \/ \E w \in Workers : run[w].at = "ack" /\ run[w].msg = 1)

Promises ==
  Dealt /\ status = "sending" /\ ~cut => \A r \in Recipients : row[r] = "pending" => Promised(r)

StrandInv ==
  /\ Before /\ After /\ Numbered /\ OneHandler /\ Stages /\ StartFirst
  /\ SameBatches /\ Cutting /\ Rows /\ Promises

\* The start task was never published and never will be.
Startless ==
  /\ \A r \in Recipients : row[r] = "none"
  /\ status \notin {"draft", "scheduled"}
  /\ \A i \in 1 .. last : msg[i].id # StartId
  /\ \A c \in Callers : call[c].at \in {"idle", "pause", "resume", "cancel", "list", "publish", "complete"}
  /\ \A w \in Workers : run[w].at \notin {"start", "resolve", "mark", "batches"}

-----------------------------------------------------------------------------
(* What the parts of a state say of one another.                           *)

LEMMA Shapes ==
  ASSUME TypeOK
  PROVE  /\ last \in Nat /\ last <= MaxMsgs
         /\ \A i \in 1 .. last : i \in MsgIds /\ queue[i] \in {"ready", "pending", "acked"}
         /\ \A i \in MsgIds : queue[i] # "none" => i \in 1 .. last
         /\ \A i \in MsgIds : msg[i].id \in Nat \cup {-1} /\ msg[i].to \in SUBSET Recipients
         /\ \A w \in Workers : /\ run[w].msg \in 0 .. last
                               /\ run[w].at # "idle" => run[w].msg \in 1 .. last
                               /\ run[w].n \in Nat
                               /\ run[w].todo \in SUBSET Recipients
<1>1. last \in Nat /\ last <= MaxMsgs
  BY DEF TypeOK, BrokerType
<1>2. \A i \in 1 .. last : i \in MsgIds /\ queue[i] \in {"ready", "pending", "acked"}
  BY <1>1 DEF TypeOK, BrokerType, MsgIds
<1>3. \A i \in MsgIds : queue[i] # "none" => i \in 1 .. last
  BY <1>1 DEF TypeOK, BrokerType, MsgIds
<1>4. \A i \in MsgIds : msg[i].id \in Nat \cup {-1} /\ msg[i].to \in SUBSET Recipients
  BY DEF TypeOK, BrokerType, Fresh
<1>5. \A w \in Workers : /\ run[w].msg \in 0 .. last
                         /\ run[w].at # "idle" => run[w].msg # 0
                         /\ run[w].n \in Nat
                         /\ run[w].todo \in SUBSET Recipients
  BY DEF TypeOK, RunType
<1>6. \A w \in Workers : run[w].at # "idle" => run[w].msg \in 1 .. last
  BY <1>1, <1>5
<1> QED
  BY <1>1, <1>2, <1>3, <1>4, <1>5, <1>6

LEMMA NothingFails ==
  ASSUME TypeOK, faults' = 0
  PROVE  ~Fault
BY DEF TypeOK, BoundsType, Fault

LEMMA AudienceIsOne ==
  ASSUME Orderly, NEW S \in Audiences \ {{}}
  PROVE  S = Audience
<1>1. \A T \in Audiences : T = S \/ T = {}
  BY DEF Orderly
<1>2. ASSUME NEW r \in Audience PROVE r \in S
  <2>1. PICK T \in Audiences : r \in T
    BY Zenon DEF Audience
  <2> QED
    BY <1>1, <2>1
<1>3. S \subseteq Audience
  BY Zenon DEF Audience
<1> QED
  BY <1>2, <1>3

\* Without messages nobody handles anything.
LEMMA NobodyRuns ==
  ASSUME TypeOK, last = 0, NEW w \in Workers
  PROVE  run[w].at = "idle"
BY Shapes

\* A handler's message is not acked; the start task's handler keeps it open.
LEMMA NotDealt ==
  ASSUME TypeOK, OneHandler, NEW w \in Workers, run[w].at \notin {"idle", "ack"}, run[w].msg = 1
  PROVE  ~Dealt
<1>1. queue[1] # "acked"
  BY DEF OneHandler
<1>2. \A v \in Workers : run[v].at = "ack" => FALSE
  BY DEF OneHandler
<1> QED
  BY <1>1, <1>2 DEF Dealt

-----------------------------------------------------------------------------
(* Steps that leave the stream alone.                                      *)

LEMMA StreamKept ==
  ASSUME SameBatches, UNCHANGED <<msg, last>>
  PROVE  SameBatches'
BY DEF SameBatches, Ahead, Published

\* Every handler is where it was.
SameRuns == \A v \in Workers : run'[v] = run[v] \/ (run'[v].at = "idle" /\ run[v].at = "idle")

LEMMA CallStepKeeps ==
  ASSUME StrandInv, UNCHANGED broker, SameRuns
  PROVE  (Numbered /\ OneHandler /\ Stages /\ StartFirst /\ SameBatches /\ Cutting)'
         /\ Dealt' = Dealt /\ \A r \in Recipients, i \in 2 .. last : InBatch(r, i)' <=> InBatch(r, i)
<1>1. UNCHANGED <<msg, last, queue, num, recent>>
  BY DEF broker
<1>2. Numbered'
  BY <1>1 DEF StrandInv, Numbered
<1>3. OneHandler' /\ Stages'
  BY <1>1 DEF StrandInv, OneHandler, Stages, SameRuns
<1>4. StartFirst'
  BY <1>1 DEF StrandInv, StartFirst, StartOpen, SameRuns
<1>5. SameBatches' /\ Cutting'
  BY <1>1 DEF StrandInv, SameBatches, Cutting, Ahead, Published, SameRuns
<1>6. Dealt' = Dealt
  BY <1>1 DEF Dealt, SameRuns
<1>7. \A r \in Recipients, i \in 2 .. last : InBatch(r, i)' <=> InBatch(r, i)
  BY <1>1 DEF InBatch, SameRuns
<1> QED
  BY <1>2, <1>3, <1>4, <1>5, <1>6, <1>7

\* A handler that goes on with its message.
LEMMA GoesOnKeeps ==
  ASSUME TypeOK, StrandInv, NEW w \in Workers, run[w].at # "idle", run'[w].at # "idle",
         run'[w].msg = run[w].msg, \A v \in Workers : v # w => run'[v] = run[v],
         UNCHANGED <<msg, last, queue, num, recent, call>>
  PROVE  (Before /\ Numbered /\ OneHandler /\ StartFirst /\ SameBatches)'
         /\ (status' \notin {"draft", "scheduled"} => After')
         /\ status \notin {"draft", "scheduled"}
<1>0. last > 0
  BY Shapes
<1>1. Before' /\ status \notin {"draft", "scheduled"}
  BY <1>0 DEF StrandInv, Before, After
<1>2. Numbered'
  BY DEF StrandInv, Numbered
<1>3. OneHandler'
  BY DEF StrandInv, OneHandler
<1>4. StartFirst'
  <2>1. StartOpen' => StartOpen
    BY DEF StartOpen
  <2> QED
    BY <2>1 DEF StrandInv, StartFirst
<1>5. SameBatches'
  BY StreamKept DEF StrandInv
<1>6. status' \notin {"draft", "scheduled"} => After'
  BY DEF StrandInv, After
<1> QED
  BY <1>1, <1>2, <1>3, <1>4, <1>5, <1>6

-----------------------------------------------------------------------------
(* Lifecycle calls.                                                        *)

LEMMA RowsKept ==
  ASSUME TypeOK, Rows, SameRuns, row' = row \/ row' = [r \in Recipients |-> "none"]
  PROVE  Rows'
<1>1. \A w \in Workers : run'[w].at = "count" => run'[w] = run[w] /\ Current(w)' = Current(w)
  BY SameCurrent DEF SameRuns
<1>2. \A w \in Workers : run[w].at = "count" => Current(w) \in Recipients
  BY CurrentIsOne DEF TypeOK, RunType
<1> QED
  BY <1>1, <1>2 DEF Rows

\* What UpdateStatus can leave.
LEMMA StatusSet ==
  ASSUME NEW s, UpdateStatus(s)
  PROVE  status' = s \/ (status = "deleted" /\ status' = "deleted")
BY DEF UpdateStatus

\* A call that publishes nothing, by what it does to status, rows and call.
LEMMA CallStep ==
  ASSUME TypeOK, StrandInv, UNCHANGED broker, SameRuns,
         row' = row \/ row' = [r \in Recipients |-> "none"],
         Before', After',
         \/ last = 0
         \/ status' # "sending" \/ cut'
         \/ /\ status' = status /\ cut' = cut /\ row' = row
            /\ \A r \in Recipients : Listed(r) => Listed(r)'
         \/ \A r \in Recipients : row'[r] = "pending" => Listed(r)'
  PROVE  StrandInv'
<1>1. /\ (Numbered /\ OneHandler /\ Stages /\ StartFirst /\ SameBatches /\ Cutting)'
      /\ Dealt' = Dealt
      /\ \A r \in Recipients, i \in 2 .. last : InBatch(r, i)' <=> InBatch(r, i)
  BY CallStepKeeps
<1>2. Rows'
  BY RowsKept DEF StrandInv, SameRuns
<1>3. last' = last
  BY DEF broker
<1>4. Promises'
  <2> SUFFICES ASSUME Dealt', status' = "sending", ~cut', NEW r \in Recipients, row'[r] = "pending"
               PROVE  Promised(r)'
    BY DEF Promises
  <2>1. last # 0 /\ Dealt
    BY <1>1 DEF Dealt
  <2>2. CASE status' = status /\ cut' = cut /\ row' = row /\ \A x \in Recipients : Listed(x) => Listed(x)'
    <3>1. Promised(r)
      BY <2>1, <2>2 DEF StrandInv, Promises
    <3> QED
      BY <2>2, <3>1, <1>1, <1>3 DEF Promised
  <2>3. CASE \A x \in Recipients : row'[x] = "pending" => Listed(x)'
    BY <2>3 DEF Promised
  <2> QED
    BY <2>1, <2>2, <2>3
<1> QED
  BY <1>1, <1>2, <1>4 DEF StrandInv

LEMMA RequestStrands ==
  ASSUME Orderly, faults' = 0, TypeOK, StrandInv, NEW c \in Callers, NEW verb \in Verbs, Request(c, verb)
  PROVE  StrandInv'
<1>1. /\ UNCHANGED <<broker, run, row, status, cut, last>>
      /\ call[c].at = "idle" /\ status \in Legal(verb)
      /\ call'[c].at = verb
  BY DEF Request, campaign, broker, Call, TypeOK, CallType
<1>2. \A d \in Callers : d = c
  BY DEF Orderly
<1>3. Before'
  <2> SUFFICES ASSUME last = 0 PROVE Before'
    BY <1>1 DEF Before
  <2>1. status \in {"draft", "scheduled", "cancelled", "deleted"}
    BY <1>1, <1>2 DEF StrandInv, Before
  <2>2. verb \in {"start", "cancel", "delete"}
    BY <1>1, <2>1 DEF Legal, Verbs
  <2> QED
    BY <1>1, <1>2, <2>1, <2>2 DEF StrandInv, Before
<1>4. After'
  <2> SUFFICES ASSUME last > 0 PROVE After'
    BY <1>1 DEF After
  <2>1. status \notin {"draft", "scheduled"}
    BY DEF StrandInv, After
  <2>2. verb \in {"pause", "resume", "cancel"}
    BY <1>1, <2>1 DEF Legal, Verbs
  <2> QED
    BY <1>1, <1>2, <2>1, <2>2 DEF StrandInv, After
<1>5. \A r \in Recipients : ~Listed(r)
  BY <1>1, <1>2 DEF Listed
<1> QED
  BY <1>1, <1>3, <1>4, <1>5, CallStep DEF SameRuns

\* Starting: only before the start task is published.
LEMMA BeginningStrands ==
  ASSUME Orderly, faults' = 0, TypeOK, StrandInv, NEW c \in Callers, ClaimDue(c) \/ Start(c)
  PROVE  StrandInv'
<1>1. /\ UNCHANGED <<broker, run, row, last>>
      /\ status' \in {"sending", "deleted"}
      /\ call[c].at = "start" \/ status = "scheduled"
      /\ call'[c].at \in {"announce", "trigger"}
  BY StatusSet DEF ClaimDue, Start, Goto, broker, Call, TypeOK, CallType
<1>2. \A d \in Callers : d = c
  BY DEF Orderly
<1>3. last = 0
  BY <1>1, Shapes DEF StrandInv, After
<1>4. Before'
  BY <1>1, <1>2, <1>3 DEF StrandInv, Before
<1>5. After'
  BY <1>1, <1>3 DEF After
<1> QED
  BY <1>1, <1>3, <1>4, <1>5, CallStep DEF SameRuns

\* Pause, Cancel, Delete and the end of a Resume that found nobody.
LEMMA EndingStrands ==
  ASSUME Orderly, faults' = 0, TypeOK, StrandInv, NEW c \in Callers,
         Pause(c) \/ Cancel(c) \/ Delete(c) \/ Complete(c)
  PROVE  StrandInv'
<1>1. /\ UNCHANGED <<broker, run, last>>
      /\ row' = row \/ row' = [r \in Recipients |-> "none"]
      /\ status' \in {"paused", "cancelled", "deleted", "completed"}
      /\ call[c].at \in {"cancel", "delete"} => status' \in {"cancelled", "deleted"}
      /\ call[c].at \in {"pause", "cancel", "delete", "complete"}
      /\ call'[c].at = "idle"
  BY StatusSet DEF Pause, Cancel, Delete, Complete, Return, NoCall, broker, Call, TypeOK, CallType
<1>2. \A d \in Callers : d = c
  BY DEF Orderly
<1>3. Before'
  BY <1>1, <1>2 DEF StrandInv, Before
<1>4. After'
  BY <1>1, <1>2 DEF StrandInv, After
<1> QED
  BY <1>1, <1>3, <1>4, CallStep DEF SameRuns

\* Resume: the list it is about to read holds every pending recipient.
LEMMA ResumingStrands ==
  ASSUME Orderly, faults' = 0, TypeOK, StrandInv, NEW c \in Callers, Resume(c) \/ ListPending(c)
  PROVE  StrandInv'
<1>0. UNCHANGED <<broker, run, row, last>>
  BY DEF Resume, ListPending, broker
<1>1. /\ status' \in {status, "sending", "deleted"}
      /\ call[c].at \in {"resume", "list"}
      /\ call'[c].at \in {"list", "publish", "complete"}
  BY StatusSet DEF Resume, ListPending, campaign, Goto, Call, TypeOK, CallType
<1>2. \A d \in Callers : d = c
  BY DEF Orderly
<1>3. Before' /\ After'
  BY <1>0, <1>1, <1>2 DEF StrandInv, Before, After
<1>4. ASSUME NEW r \in Recipients, row'[r] = "pending" PROVE Listed(r)'
  <2>1. CASE Resume(c)
    <3>1. call'[c].at = "list"
      BY <2>1 DEF Resume, Goto, TypeOK, CallType
    <3> QED
      BY <3>1 DEF Listed
  <2>2. CASE ListPending(c)
    <3>1. r \in Remaining(c)
      BY <1>0, <1>4 DEF Remaining
    <3>2. call' = [call EXCEPT ![c] = Call("publish", call[c].from, Remaining(c), call[c].sent)]
      BY <2>2, <3>1 DEF ListPending
    <3>3. call'[c].at = "publish" /\ r \in call'[c].todo
      BY <3>1, <3>2 DEF Call, TypeOK, CallType
    <3> QED
      BY <3>3 DEF Listed
  <2> QED
    BY <2>1, <2>2
<1> QED
  BY <1>0, <1>3, <1>4, CallStep DEF SameRuns

\* The start task is published once, into an empty stream.
LEMMA AnnounceStrands ==
  ASSUME Orderly, faults' = 0, TypeOK, TypeOK', StrandInv, NEW c \in Callers, Announce(c)
  PROVE  StrandInv'
<1>1. /\ UNCHANGED <<row, status, cut, run>>
      /\ call[c].at \in {"announce", "trigger"} /\ call'[c].at = "idle"
      /\ Stored(StartId, {})
  BY NothingFails DEF Announce, campaign, Return, NoCall, Call, TypeOK, CallType
<1>2. \A d \in Callers : d = c
  BY DEF Orderly
<1>3. last = 0
  BY <1>1, Shapes DEF StrandInv, After
<1>4. recent = {}
  BY <1>3 DEF StrandInv, Numbered
<1>5. /\ last' = 1 /\ 1 \in MsgIds /\ num' = num /\ recent' = {StartId}
      /\ msg' = [msg EXCEPT ![1] = [id |-> StartId, to |-> {}]]
      /\ queue' = [queue EXCEPT ![1] = "ready"]
  BY <1>1, <1>3, <1>4 DEF Stored, MsgIds, StartId, Fresh
<1>6. msg'[1].id = StartId /\ queue'[1] = "ready"
  BY <1>5 DEF TypeOK, BrokerType
<1>7. \A w \in Workers : run'[w].at = "idle"
  BY <1>1, <1>3, NobodyRuns
<1>8. Before' /\ After'
  BY <1>1, <1>2, <1>3, <1>5 DEF StrandInv, Before, After
<1>9. Numbered' /\ SameBatches'
  BY <1>5, <1>6 DEF Numbered, SameBatches, StartId
<1>10. OneHandler' /\ Stages' /\ StartFirst' /\ Cutting'
  BY <1>5, <1>7 DEF OneHandler, Stages, StartFirst, Cutting
<1>11. Rows'
  BY <1>1, RowsKept DEF StrandInv, SameRuns
<1>12. Promises'
  BY <1>6, <1>7 DEF Promises, Dealt
<1> QED
  BY <1>8, <1>9, <1>10, <1>11, <1>12 DEF StrandInv

\* Resume's batches: what leaves the list enters the stream.
LEMMA RepublishStrands ==
  ASSUME Orderly, faults' = 0, TypeOK, TypeOK', StrandInv, NEW c \in Callers, Republish(c)
  PROVE  StrandInv'
<1> DEFINE b == NextBatch(call[c].todo)
<1>1. /\ UNCHANGED <<row, status, cut, run>>
      /\ call[c].at = "publish"
      /\ call'[c].at \in {"idle", "publish"}
      /\ Stored(Fresh, b)
      /\ \A r \in call[c].todo : r \in b \/ (call'[c].at = "publish" /\ r \in call'[c].todo)
  <2>1. /\ Stored(Fresh, b) /\ call[c].at = "publish" /\ UNCHANGED <<row, status, cut, run>>
        /\ IF call[c].todo = b THEN Return(c) ELSE call' = [call EXCEPT ![c].todo = @ \ b]
    BY NothingFails DEF Republish, campaign
  <2> HIDE DEF b
  <2>2. CASE call[c].todo = b /\ Return(c)
    BY <2>1, <2>2 DEF Return, NoCall, Call, TypeOK, CallType
  <2>3. CASE call' = [call EXCEPT ![c].todo = @ \ b]
    BY <2>1, <2>3 DEF TypeOK, CallType
  <2> QED
    BY <2>1, <2>2, <2>3 DEF b
<1> HIDE DEF b
<1>2. \A d \in Callers : d = c
  BY DEF Orderly
<1>3. last > 0 /\ last \in Nat
  BY <1>1, Shapes DEF StrandInv, Before
<1>4. /\ last' = last + 1 /\ last + 1 \in MsgIds /\ UNCHANGED <<num, recent>>
      /\ msg' = [msg EXCEPT ![last + 1] = [id |-> -1, to |-> b]]
      /\ queue' = [queue EXCEPT ![last + 1] = "ready"]
  BY <1>1, <1>3, Shapes DEF Stored, MsgIds, Fresh, TypeOK, BrokerType
<1>5. /\ msg'[last + 1].id = -1 /\ msg'[last + 1].to = b /\ queue'[last + 1] = "ready"
      /\ \A i \in 1 .. last : msg'[i] = msg[i] /\ queue'[i] = queue[i] /\ i # last + 1
      /\ \A i \in 1 .. last' : i \in 1 .. last \/ i = last + 1
      /\ 1 \in 1 .. last
  <2>1. \A i \in 1 .. last : i \in MsgIds /\ i # last + 1
    BY <1>3, Shapes
  <2>2. \A i \in 1 .. last' : i \in 1 .. last \/ i = last + 1
    BY <1>3, <1>4
  <2> QED
    BY <1>3, <1>4, <2>1, <2>2 DEF TypeOK, BrokerType
<1>6. Before' /\ After'
  BY <1>1, <1>2, <1>3, <1>4 DEF StrandInv, Before, After
<1>7. Numbered'
  <2>1. \A i \in 1 .. last' : msg'[i].id = StartId <=> i = 1
    BY <1>3, <1>5 DEF StrandInv, Numbered, StartId
  <2>2. \A id \in recent' : \E i \in 1 .. last' : msg'[i].id = id
    BY <1>3, <1>4, <1>5 DEF StrandInv, Numbered
  <2> QED
    BY <2>1, <2>2 DEF Numbered
<1>8. \A w \in Workers : run[w].at # "idle" => run[w].msg \in 1 .. last
  BY Shapes
<1>9. OneHandler' /\ Stages'
  BY <1>1, <1>5, <1>8 DEF StrandInv, OneHandler, Stages
<1>10. StartFirst'
  <2>1. StartOpen' => StartOpen
    BY <1>1, <1>3, <1>4, <1>5 DEF StartOpen
  <2>2. \A i \in 2 .. last' : i \in 2 .. last \/ i = last + 1
    BY <1>3, <1>4
  <2>3. \A i \in 2 .. last : i \in 1 .. last
    BY <1>3
  <2> QED
    BY <1>1, <1>5, <2>1, <2>2, <2>3 DEF StrandInv, StartFirst
<1>11. \A k \in Nat : Ahead(k)' = Ahead(k) /\ (Published(k) => Published(k)')
  <2> TAKE k \in Nat
  <2>1. Ahead(k)' = Ahead(k)
    <3>1. \A i \in 1 .. last' : msg'[i].id \in 1 .. k => i \in 1 .. last
      BY <1>5
    <3>2. \A i \in 1 .. last : i \in 1 .. last'
      BY <1>3, <1>4
    <3> QED
      BY <1>5, <3>1, <3>2 DEF Ahead
  <2>2. Published(k) => Published(k)'
    BY <1>3, <1>4, <1>5 DEF Published
  <2> QED
    BY <2>1, <2>2
<1>12. SameBatches' /\ Cutting'
  <2>1. SameBatches'
    <3> SUFFICES ASSUME NEW i \in 1 .. last', msg'[i].id >= 1
                 PROVE  msg'[i].to = NextBatch(Ahead(msg[i].id - 1)') /\ Published(msg[i].id)'
                        /\ msg'[i] = msg[i]
      BY DEF SameBatches
    <3>1. i \in 1 .. last /\ msg'[i] = msg[i]
      BY <1>5
    <3>2. msg[i].id \in Nat /\ msg[i].id - 1 \in Nat
      BY <3>1, Shapes
    <3> QED
      BY <1>11, <3>1, <3>2 DEF StrandInv, SameBatches
  <2>2. Cutting'
    BY <1>1, <1>11, Shapes DEF StrandInv, Cutting
  <2> QED
    BY <2>1, <2>2
<1>13. Rows'
  BY <1>1, RowsKept DEF StrandInv, SameRuns
<1>14. Promises'
  <2> SUFFICES ASSUME Dealt', status' = "sending", ~cut', NEW r \in Recipients, row'[r] = "pending"
               PROVE  Promised(r)'
    BY DEF Promises
  <2>1. Dealt
    BY <1>1, <1>3, <1>5 DEF Dealt
  <2>2. Promised(r)
    BY <1>1, <2>1 DEF StrandInv, Promises
  <2>3. CASE r \in call[c].todo
    <3>1. CASE r \in b
      <4>0. PICK k \in Nat : k = last + 1
        BY <1>3
      <4>1. InBatch(r, k)'
        BY <1>1, <1>3, <1>5, <1>8, <3>1, <4>0 DEF InBatch
      <4>2. k \in 2 .. last'
        BY <1>3, <1>4, <4>0
      <4> QED
        BY <4>1, <4>2 DEF Promised
    <3>2. CASE r \notin b
      BY <1>1, <2>3, <3>2 DEF Promised, Listed
    <3> QED
      BY <3>1, <3>2
  <2>4. ASSUME NEW i \in 2 .. last, InBatch(r, i) PROVE Promised(r)'
    <3>1. i \in 1 .. last /\ i \in 2 .. last'
      BY <1>3, <1>4
    <3>2. InBatch(r, i)'
      BY <1>1, <1>5, <2>4, <3>1 DEF InBatch
    <3> QED
      BY <3>1, <3>2 DEF Promised
  <2> QED
    BY <1>1, <1>2, <2>2, <2>3, <2>4 DEF Promised, Listed
<1> QED
  BY <1>6, <1>7, <1>9, <1>10, <1>12, <1>13, <1>14 DEF StrandInv

LEMMA CallsStrandNobody ==
  ASSUME Orderly, faults' = 0, TypeOK, TypeOK', StrandInv, NEW c \in Callers,
         ClaimDue(c) \/ Continue(c) \/ \E verb \in Verbs : Request(c, verb)
  PROVE  StrandInv'
<1>1. ~Restore(c)
  <2>1. call[c].at \notin {"restore", "rollback"}
    BY Shapes DEF StrandInv, Before, After
  <2> QED
    BY <2>1 DEF Restore
<1>2. ~CallFails(c)
  BY NothingFails DEF CallFails
<1> QED
  BY <1>1, <1>2, RequestStrands, BeginningStrands, EndingStrands, ResumingStrands, AnnounceStrands,
     RepublishStrands DEF Continue

-----------------------------------------------------------------------------
(* The consumer.                                                           *)

LEMMA CallsKept ==
  ASSUME StrandInv, UNCHANGED <<row, status, cut, last, call>>
  PROVE  Before' /\ After'
BY DEF StrandInv, Before, After

LEMMA AckWaitStrands ==
  ASSUME Orderly, faults' = 0, TypeOK, StrandInv, NEW j \in MsgIds, AckWait(j)
  PROVE  StrandInv'
<1>1. /\ UNCHANGED <<row, status, cut, msg, last, num, recent, call, run>>
      /\ queue[j] = "pending" /\ queue' = [queue EXCEPT ![j] = "ready"]
      /\ ~Slow => \A w \in Workers : run[w].msg # j
  BY DEF AckWait, campaign
<1>2. /\ \A i \in MsgIds : queue'[i] = IF i = j THEN "ready" ELSE queue[i]
      /\ \A i \in 1 .. last : i \in MsgIds
      /\ last > 0 => 1 \in MsgIds
      /\ \A w \in Workers : run[w].at # "idle" => run[w].msg \in MsgIds
  BY <1>1, Shapes DEF TypeOK, BrokerType
<1>3. Before' /\ After'
  BY <1>1, CallsKept
<1>4. Numbered' /\ Stages'
  BY <1>1 DEF StrandInv, Numbered, Stages
<1>5. OneHandler'
  BY <1>1, <1>2 DEF StrandInv, OneHandler
<1>6. StartFirst'
  <2>1. StartOpen' => StartOpen
    BY <1>1, <1>2 DEF StartOpen
  <2>2. \A i \in 2 .. last : i \in MsgIds
    BY <1>2, Shapes
  <2> QED
    BY <1>1, <1>2, <2>1, <2>2 DEF StrandInv, StartFirst
<1>7. SameBatches' /\ Cutting'
  BY <1>1, StreamKept DEF StrandInv, Cutting, Ahead, Published
<1>8. Rows'
  BY <1>1, RowsKept DEF StrandInv, SameRuns
<1>9. Promises'
  <2>1. Dealt' => Dealt
    BY <1>1, <1>2 DEF Dealt
  <2>2. \A i \in 2 .. last : i \in MsgIds
    BY <1>2, Shapes
  <2>3. \A r \in Recipients, i \in 2 .. last : InBatch(r, i) => InBatch(r, i)'
    BY <1>1, <1>2, <2>2 DEF InBatch
  <2>4. \A r \in Recipients : Listed(r) => Listed(r)'
    BY <1>1 DEF Listed
  <2> QED
    BY <1>1, <2>1, <2>3, <2>4 DEF StrandInv, Promises, Promised
<1> QED
  BY <1>3, <1>4, <1>5, <1>6, <1>7, <1>8, <1>9 DEF StrandInv

LEMMA TakeStrands ==
  ASSUME Orderly, faults' = 0, TypeOK, StrandInv, NEW w \in Workers, NEW j \in MsgIds, Take(w, j)
  PROVE  StrandInv'
<1>1. /\ UNCHANGED <<row, status, cut, msg, last, recent, call>>
      /\ run[w].at = "idle" /\ queue[j] = "ready"
      /\ queue' = [queue EXCEPT ![j] = "pending"]
      /\ num' = [num EXCEPT ![j] = @ + 1]
      /\ \A i \in MsgIds : queue[i] # "pending" /\ (i < j => ~Ready(i))
      /\ run' = [run EXCEPT ![w] = Run(IF msg[j].id = StartId THEN "start" ELSE "begin",
                                       j, msg[j].to, 0)]
      /\ Ready(j)
  BY DEF Take, campaign, Ready
<1>2. /\ \A i \in MsgIds : queue'[i] = IF i = j THEN "pending" ELSE queue[i]
      /\ \A i \in MsgIds : i # j => num'[i] = num[i]
      /\ \A i \in 1 .. last : i \in MsgIds
      /\ last > 0 /\ 1 \in MsgIds /\ j \in 1 .. last
      /\ \A i \in 2 .. last : i \in MsgIds
  BY <1>1, Shapes DEF TypeOK, BrokerType
<1>3. \A v \in Workers : run[v].at = "idle"
  <2>1. ASSUME NEW v \in Workers, run[v].at # "idle" PROVE FALSE
    <3>1. run[v].msg \in MsgIds
      BY <2>1, Shapes
    <3>2. Slow
      BY <1>1, <2>1, <3>1 DEF StrandInv, OneHandler
    <3> QED
      BY <1>1, <2>1, <3>2 DEF Orderly
  <2> QED
    BY <2>1
<1>4. /\ run'[w].at = IF j = 1 THEN "start" ELSE "begin"
      /\ run'[w].msg = j /\ run'[w].todo = msg[j].to
      /\ \A v \in Workers : v # w => run'[v].at = "idle"
  <2>1. msg[j].id = StartId <=> j = 1
    BY <1>2 DEF StrandInv, Numbered
  <2> QED
    BY <1>1, <1>3, <2>1 DEF Run, TypeOK, RunType
<1>5. Before' /\ After'
  BY <1>1, CallsKept
<1>6. Numbered' /\ SameBatches'
  BY <1>1, StreamKept DEF StrandInv, Numbered
<1>7. OneHandler' /\ Stages' /\ Cutting'
  BY <1>2, <1>4 DEF OneHandler, Stages, Cutting
<1>8. StartFirst'
  <2>1. CASE j = 1
    <3>1. StartOpen
      BY <1>1, <1>2, <2>1 DEF StartOpen, Ready
    <3> QED
      BY <1>1, <1>2, <1>4, <2>1, <3>1 DEF StrandInv, StartFirst
  <2>2. CASE j # 1
    <3>1. ~Ready(1) /\ queue'[1] = queue[1] /\ num'[1] = num[1] /\ queue[1] # "pending"
      BY <1>1, <1>2, <2>2
    <3>2. ~StartOpen'
      BY <1>4, <2>2, <3>1 DEF StartOpen, Ready
    <3> QED
      BY <3>2 DEF StartFirst
  <2> QED
    BY <2>1, <2>2
<1>9. Rows'
  <2>1. \A v \in Workers : run'[v].at # "count"
    BY <1>4
  <2> QED
    BY <1>1, <2>1 DEF StrandInv, Rows
<1>10. Promises'
  <2>1. Dealt' => Dealt
    BY <1>1, <1>2, <1>4 DEF Dealt
  <2>2. \A r \in Recipients, i \in 2 .. last : InBatch(r, i) => InBatch(r, i)'
    BY <1>1, <1>2, <1>4 DEF InBatch
  <2>3. \A r \in Recipients : Listed(r) => Listed(r)'
    BY <1>1 DEF Listed
  <2> QED
    BY <1>1, <2>1, <2>2, <2>3 DEF StrandInv, Promises, Promised
<1> QED
  BY <1>5, <1>6, <1>7, <1>8, <1>9, <1>10 DEF StrandInv

LEMMA WindowStrands ==
  ASSUME TypeOK, StrandInv, NEW id \in recent, WindowPasses(id)
  PROVE  StrandInv'
<1>1. /\ UNCHANGED <<row, status, cut, msg, last, queue, num, call, run>>
      /\ recent' \subseteq recent
  BY DEF WindowPasses, campaign
<1>2. Before' /\ After'
  BY <1>1, CallsKept
<1>3. Numbered' /\ OneHandler' /\ Stages'
  BY <1>1 DEF StrandInv, Numbered, OneHandler, Stages
<1>4. StartFirst'
  BY <1>1 DEF StrandInv, StartFirst, StartOpen
<1>5. SameBatches' /\ Cutting'
  BY <1>1, StreamKept DEF StrandInv, Cutting, Ahead, Published
<1>6. Rows'
  BY <1>1, RowsKept DEF StrandInv, SameRuns
<1>7. Promises'
  BY <1>1 DEF StrandInv, Promises, Promised, Dealt, Listed, InBatch
<1> QED
  BY <1>2, <1>3, <1>4, <1>5, <1>6, <1>7 DEF StrandInv

-----------------------------------------------------------------------------
(* Handlers.                                                               *)

\* A step of w's handler that leaves calls and stream alone.
GoesOn(w) ==
  /\ run[w].at # "idle" /\ run'[w].at # "idle" /\ run'[w].msg = run[w].msg
  /\ \A v \in Workers : v # w => run'[v] = run[v]
  /\ UNCHANGED <<msg, last, queue, num, recent, call>>

LEMMA StepGoesOn ==
  ASSUME TypeOK, NEW w \in Workers, NEW at, Step(w, at), run[w].at # "idle", at # "idle",
         UNCHANGED <<broker, call>>
  PROVE  /\ GoesOn(w)
         /\ run'[w].at = at /\ run'[w].todo = run[w].todo /\ run'[w].n = run[w].n
BY DEF Step, GoesOn, broker, TypeOK, RunType

\* The other handlers are idle while w's runs.
LEMMA AloneAt ==
  ASSUME StrandInv, NEW w \in Workers, run[w].at # "idle", NEW v \in Workers, v # w
  PROVE  run[v].at = "idle"
BY DEF StrandInv, OneHandler

\* Steps on the start task that have not reached its end.
LEMMA StartStep ==
  ASSUME TypeOK, TypeOK', StrandInv, NEW w \in Workers, GoesOn(w), run[w].msg = 1,
         run'[w].at \in {"resolve", "mark", "batches", "ack"},
         status' \notin {"draft", "scheduled"},
         run'[w].at = "ack" => status' # "sending" \/ cut',
         run'[w].at = "mark" => run'[w].n = 0 /\ run'[w].todo = Audience,
         run'[w].at = "batches" => run'[w].todo = Ahead(run'[w].n) /\ Published(run'[w].n),
         \A r \in Recipients : row'[r] = "pending" => r \in Audience
  PROVE  StrandInv'
<1>1. (Before /\ Numbered /\ OneHandler /\ StartFirst /\ SameBatches /\ After)'
  BY GoesOnKeeps DEF GoesOn
<1>2. \A v \in Workers : v # w => run'[v].at = "idle"
  BY AloneAt DEF GoesOn
<1>3. Stages'
  BY <1>2 DEF Stages, GoesOn
<1>4. Cutting'
  BY <1>2 DEF Cutting, GoesOn, Ahead, Published
<1>5. Rows'
  <2>1. \A v \in Workers : run'[v].at # "count"
    BY <1>2
  <2> QED
    BY <2>1 DEF Rows
<1>6. Promises'
  <2>1. CASE run'[w].at = "ack"
    BY <2>1 DEF Promises
  <2>2. CASE run'[w].at # "ack"
    <3>1. queue'[1] # "acked"
      BY DEF StrandInv, OneHandler, GoesOn
    <3>2. ~Dealt'
      BY <1>2, <2>2, <3>1 DEF Dealt
    <3> QED
      BY <3>2 DEF Promises
  <2> QED
    BY <2>1, <2>2
<1> QED
  BY <1>1, <1>3, <1>4, <1>5, <1>6 DEF StrandInv

LEMMA StartTaskStrands ==
  ASSUME Orderly, faults' = 0, TypeOK, TypeOK', StrandInv, NEW w \in Workers,
         ReadStart(w) \/ Resolve(w) \/ MarkSending(w)
  PROVE  StrandInv'
<1>0. run[w].msg = 1 /\ run[w].at # "idle" /\ last > 0 /\ status \notin {"draft", "scheduled"}
  <2>1. run[w].at \in {"start", "resolve", "mark"}
    BY DEF ReadStart, Resolve, MarkSending
  <2>2. run[w].msg = 1 /\ run[w].at # "idle"
    BY <2>1 DEF StrandInv, Stages
  <2>3. last > 0
    BY <2>2, Shapes
  <2> QED
    BY <2>2, <2>3 DEF StrandInv, After
<1>1. CASE ReadStart(w)
  <2>1. /\ Step(w, IF status \in {"cancelled", "failed", "deleted"} THEN "ack" ELSE "resolve")
        /\ UNCHANGED <<row, status, cut, broker, call>>
    BY <1>1, NothingFails DEF ReadStart, campaign
  <2>2. GoesOn(w) /\ run'[w].at \in {"ack", "resolve"}
    BY <1>0, <2>1, StepGoesOn
  <2>3. run'[w].at = "ack" => status' # "sending"
    BY <1>0, <2>1, StepGoesOn
  <2>4. \A r \in Recipients : row'[r] = "pending" => r \in Audience
    BY <2>1 DEF StrandInv, Rows
  <2> QED
    BY <1>0, <2>1, <2>2, <2>3, <2>4, StartStep
<1>2. CASE Resolve(w)
  <2>1. CASE \E to \in Audiences \ {{}} :
               /\ AddRecipients(to)
               /\ run' = [run EXCEPT ![w] = Run("mark", @.msg, to, 0)]
               /\ UNCHANGED campaign
    <3>1. PICK to \in Audiences \ {{}} :
               /\ AddRecipients(to)
               /\ run' = [run EXCEPT ![w] = Run("mark", @.msg, to, 0)]
               /\ UNCHANGED campaign
      BY <2>1
    <3>2. to = Audience
      BY AudienceIsOne
    <3>3. GoesOn(w) /\ run'[w].at = "mark" /\ run'[w].n = 0 /\ run'[w].todo = Audience
      BY <1>0, <1>2, <3>1, <3>2 DEF Resolve, GoesOn, broker, Run, TypeOK, RunType
    <3>4. \A r \in Recipients : row'[r] = "pending" => r \in Audience
      BY <3>1, <3>2 DEF AddRecipients, StrandInv, Rows
    <3>5. status' = status
      BY <3>1 DEF campaign
    <3> QED
      BY <1>0, <3>3, <3>4, <3>5, StartStep
  <2>2. CASE UpdateStatus("completed") /\ Step(w, "ack") /\ UNCHANGED row
    <3>1. GoesOn(w) /\ run'[w].at = "ack"
      BY <1>0, <1>2, <2>2, StepGoesOn DEF Resolve
    <3>2. status' \in {"completed", "deleted"}
      BY <2>2, StatusSet
    <3>3. \A r \in Recipients : row'[r] = "pending" => r \in Audience
      BY <2>2 DEF StrandInv, Rows
    <3> QED
      BY <1>0, <3>1, <3>2, <3>3, StartStep
  <2> QED
    BY <1>2, <2>1, <2>2, NothingFails DEF Resolve
<1>3. CASE MarkSending(w)
  <2>1. UpdateStatus("sending") /\ Step(w, "batches") /\ UNCHANGED <<row, broker, call>>
    BY <1>3, NothingFails DEF MarkSending
  <2>2. /\ GoesOn(w) /\ run'[w].at = "batches"
        /\ run'[w].n = run[w].n /\ run'[w].todo = run[w].todo
    BY <1>0, <2>1, StepGoesOn
  <2>3. run[w].n = 0 /\ run[w].todo = Audience
    BY <1>3 DEF MarkSending, StrandInv, Cutting
  <2>4. \A i : i \notin 1 .. 0
    OBVIOUS
  <2>5. Ahead(0) = Audience /\ Published(0)
    BY <2>4 DEF Ahead, Published
  <2>6. status' \in {"sending", "deleted"}
    BY <2>1, StatusSet
  <2>7. \A r \in Recipients : row'[r] = "pending" => r \in Audience
    BY <2>1 DEF StrandInv, Rows
  <2>8. run'[w].todo = Ahead(run'[w].n) /\ Published(run'[w].n)
    BY <2>2, <2>3, <2>5
  <2> QED
    BY <1>0, <2>2, <2>6, <2>7, <2>8, StartStep
<1> QED
  BY <1>1, <1>2, <1>3

\* Steps on a batch: what w lets go of is not pending, or the campaign is
\* not sending.
LEMMA BatchStep ==
  ASSUME TypeOK, TypeOK', StrandInv, NEW w \in Workers, GoesOn(w), run[w].msg # 1,
         run'[w].at \in {"next", "send", "sent", "seen", "refused", "count", "ack"},
         status' = status \/ status' \notin {"draft", "scheduled", "sending"},
         \A r \in Recipients : row'[r] = "pending" => row[r] = "pending",
         run'[w].at = "count" => row'[Current(w)'] # "pending",
         \/ status' # "sending" \/ cut'
         \/ /\ cut' = cut
            /\ \A r \in Recipients : row'[r] = "pending" /\ r \in run[w].todo =>
                  run'[w].at # "ack" /\ r \in run'[w].todo
  PROVE  StrandInv'
<1>0. status' \notin {"draft", "scheduled"}
  BY GoesOnKeeps DEF GoesOn
<1>1. (Before /\ Numbered /\ OneHandler /\ StartFirst /\ SameBatches /\ After)'
  BY <1>0, GoesOnKeeps DEF GoesOn
<1>2. \A v \in Workers : v # w => run'[v].at = "idle" /\ run[v].at = "idle"
  BY AloneAt DEF GoesOn
<1>3. Stages' /\ Cutting'
  BY <1>2 DEF Stages, Cutting, GoesOn
<1>4. Rows'
  <2>1. \A v \in Workers : run'[v].at = "count" => v = w
    BY <1>2
  <2> QED
    BY <2>1 DEF StrandInv, Rows
<1>5. Promises'
  <2> SUFFICES ASSUME Dealt', status' = "sending", ~cut', NEW r \in Recipients, row'[r] = "pending"
               PROVE  Promised(r)'
    BY DEF Promises
  <2>1. Dealt
    BY <1>2 DEF Dealt, GoesOn
  <2>2. Promised(r)
    BY <2>1 DEF StrandInv, Promises
  <2>3. CASE Listed(r)
    <3>1. Listed(r)'
      BY <2>3 DEF Listed, GoesOn
    <3> QED
      BY <3>1 DEF Promised
  <2>4. ASSUME NEW i \in 2 .. last, InBatch(r, i) PROVE Promised(r)'
    <3>1. InBatch(r, i)'
      BY <1>2, <2>4 DEF InBatch, GoesOn
    <3> QED
      BY <3>1 DEF Promised, GoesOn
  <2> QED
    BY <2>2, <2>3, <2>4 DEF Promised
<1> QED
  BY <1>1, <1>3, <1>4, <1>5 DEF StrandInv

LEMMA BatchTaskStrands ==
  ASSUME Orderly, faults' = 0, TypeOK, TypeOK', StrandInv, NEW w \in Workers,
         Begin(w) \/ Recheck(w) \/ Ingest(w) \/ Record(w) \/ Count(w) \/ CompleteIfDone(w)
  PROVE  StrandInv'
<1>0. run[w].msg # 1 /\ run[w].at # "idle"
  BY DEF Begin, Recheck, Ingest, Record, Count, CompleteIfDone, StrandInv, Stages
<1>1. CASE Begin(w) \/ Recheck(w) \/ Ingest(w)
  <2>1. PICK at \in {"next", "send", "sent", "seen", "refused", "ack"} :
          /\ Step(w, at)
          /\ at = "ack" => status # "sending"
    BY <1>1, NothingFails DEF Begin, Recheck, Ingest, Halted
  <2>2. UNCHANGED <<row, status, cut, broker, call>>
    BY <1>1 DEF Begin, Recheck, Ingest, campaign
  <2>3. GoesOn(w) /\ run'[w].at = at /\ run'[w].todo = run[w].todo
    BY <1>0, <2>1, <2>2, StepGoesOn
  <2> QED
    BY <1>0, <2>1, <2>2, <2>3, BatchStep
<1>2. CASE Record(w)
  <2> DEFINE r == Current(w)
  <2>0. run[w].todo # {} /\ r \in run[w].todo /\ r \in Recipients
    <3>1. run[w].todo # {}
      BY <1>2 DEF Record, TypeOK, RunType
    <3> QED
      BY <3>1, CurrentIsOne, Shapes
  <2> HIDE DEF r
  <2>1. /\ run' = [run EXCEPT ![w] = Run(IF @.at = "sent" THEN "count" ELSE "next",
                                   @.msg, IF @.at = "sent" THEN @.todo ELSE @.todo \ {r},
                                   IF @.at = "sent" THEN @.n ELSE @.n + 1)]
        /\ \E x \in {"failed", "sent"} : row' = [row EXCEPT ![r] = IF @ = "none" THEN @ ELSE x]
        /\ UNCHANGED <<status, cut, broker, call>>
    BY <1>2, NothingFails DEF Record, r, campaign
  <2>2. row'[r] # "pending" /\ \A x \in Recipients : row'[x] = "pending" => row[x] = "pending"
    BY <2>0, <2>1 DEF TypeOK, CampaignType
  <2>3. /\ GoesOn(w)
        /\ \/ run'[w].at = "count" /\ run'[w].todo = run[w].todo
           \/ run'[w].at = "next" /\ run'[w].todo = run[w].todo \ {r}
    BY <1>0, <2>1 DEF GoesOn, broker, Run, TypeOK, RunType
  <2>4. run'[w].at = "count" => Current(w)' = r
    BY <2>3, SameCurrent DEF r
  <2>5. status' = status /\ cut' = cut
    BY <2>1
  <2> QED
    BY <1>0, <2>2, <2>3, <2>4, <2>5, BatchStep
<1>3. CASE Count(w)
  <2>1. /\ run' = [run EXCEPT ![w] = Run("next", @.msg, @.todo \ {Current(w)}, @.n + 1)]
        /\ UNCHANGED <<row, status, cut, broker, call>> /\ run[w].at = "count"
    BY <1>3 DEF Count, campaign
  <2>2. row[Current(w)] # "pending"
    BY <2>1 DEF StrandInv, Rows
  <2>3. /\ GoesOn(w)
        /\ run'[w].at = "next" /\ run'[w].todo = run[w].todo \ {Current(w)}
    BY <1>0, <2>1 DEF GoesOn, broker, Run, TypeOK, RunType
  <2> QED
    BY <1>0, <2>1, <2>2, <2>3, BatchStep
<1>4. CASE CompleteIfDone(w)
  <2>1. /\ Step(w, "ack") /\ UNCHANGED <<row, broker, call>> /\ run[w].todo = {}
        /\ (status' = status /\ cut' = cut) \/ status' \in {"completed", "deleted"}
    BY <1>4, StatusSet DEF CompleteIfDone, campaign
  <2>2. GoesOn(w) /\ run'[w].at = "ack"
    BY <1>0, <2>1, StepGoesOn
  <2> QED
    BY <1>0, <2>1, <2>2, BatchStep
<1> QED
  BY <1>1, <1>2, <1>3, <1>4

\* A stopped task is acked with what it had left.
LEMMA StopStrands ==
  ASSUME TypeOK, TypeOK', StrandInv, NEW w \in Workers, Stop(w)
  PROVE  StrandInv'
<1>1. /\ Step(w, "ack") /\ UNCHANGED <<row, status, broker, call>>
      /\ run[w].at # "idle"
      /\ status' # "sending" \/ cut'
  BY DEF Stop
<1>2. GoesOn(w) /\ run'[w].at = "ack"
  BY <1>1, StepGoesOn
<1>3. status' \notin {"draft", "scheduled"}
  BY <1>1, <1>2, GoesOnKeeps DEF GoesOn
<1>4. CASE run[w].msg = 1
  <2>1. \A r \in Recipients : row'[r] = "pending" => r \in Audience
    BY <1>1 DEF StrandInv, Rows
  <2> QED
    BY <1>1, <1>2, <1>3, <1>4, <2>1, StartStep
<1>5. CASE run[w].msg # 1
  BY <1>1, <1>2, <1>5, BatchStep
<1> QED
  BY <1>4, <1>5

\* The calls that die are not publishing a list, or the campaign is cut off.
LEMMA KilledCalls ==
  ASSUME TypeOK, StrandInv, NEW w \in Workers, Killed(w)
  PROVE  /\ UNCHANGED <<row, status, broker>>
         /\ run' = [run EXCEPT ![w] = NoRun]
         /\ \A c \in Callers : call'[c].at = "idle" \/ call'[c] = call[c]
         /\ \/ status' # "sending" \/ cut'
            \/ cut' = cut /\ \A r \in Recipients : Listed(r) => Listed(r)'
<1>1. PICK killed \in SUBSET Callers : Crash(w, killed)
  BY DEF Killed
<1>2. /\ UNCHANGED <<row, status, broker>>
      /\ run' = [run EXCEPT ![w] = NoRun]
      /\ call' = [c \in Callers |-> IF c \in killed THEN NoCall ELSE call[c]]
      /\ cut' = (cut \/ (status = "sending" /\ \E c \in killed : Midway(c)))
  BY <1>1 DEF Crash
<1>3. \A c \in Callers : call'[c].at = "idle" \/ call'[c] = call[c]
  BY <1>2 DEF NoCall, Call
<1>4. CASE status = "sending" /\ \A c \in killed : ~Midway(c)
  <2>1. \A c \in Callers : call[c].at \in {"list", "publish"} => call'[c] = call[c]
    BY <1>2, <1>4 DEF Midway
  <2>2. \A r \in Recipients : Listed(r) => Listed(r)'
    BY <2>1 DEF Listed
  <2>3. cut' = cut
    BY <1>2, <1>4 DEF TypeOK, CampaignType
  <2> QED
    BY <1>2, <1>3, <2>2, <2>3
<1> QED
  BY <1>2, <1>3, <1>4

\* A process dies whose worker was idle.
LEMMA IdleKilled ==
  ASSUME Orderly, TypeOK, StrandInv, NEW w \in Workers, Killed(w), run[w].at = "idle"
  PROVE  StrandInv' \/ Startless'
<1>1. /\ UNCHANGED <<row, status, broker, last, msg>> /\ SameRuns
      /\ \A c \in Callers : call'[c].at = "idle" \/ call'[c] = call[c]
  BY KilledCalls DEF SameRuns, NoRun, Run, broker, TypeOK, RunType
<1>2. CASE last = 0 /\ status = "sending" /\ \A c \in Callers : call'[c].at = "idle"
  <2>1. \A v \in Workers : run'[v].at = "idle"
    BY <1>1, <1>2, NobodyRuns DEF SameRuns
  <2> QED
    BY <1>1, <1>2, <2>1 DEF StrandInv, Before, Startless
<1>3. CASE last = 0 /\ ~(status = "sending" /\ \A c \in Callers : call'[c].at = "idle")
  <2>1. Before'
    <3>1. status' = "sending" => \E c \in Callers : call'[c].at \in {"announce", "trigger"}
      <4> SUFFICES ASSUME status = "sending"
                   PROVE  \E c \in Callers : call'[c].at \in {"announce", "trigger"}
        BY <1>1
      <4>1. PICK c \in Callers : call'[c].at # "idle"
        BY <1>3
      <4>2. \A d \in Callers : d = c
        BY DEF Orderly
      <4> QED
        BY <1>1, <1>3, <4>1, <4>2 DEF StrandInv, Before
    <3> QED
      BY <1>1, <1>3, <3>1 DEF StrandInv, Before
  <2>2. After'
    BY <1>1, <1>3 DEF After
  <2> QED
    BY <1>1, <1>3, <2>1, <2>2, CallStep
<1>4. CASE last # 0
  <2>1. last > 0
    BY <1>4, Shapes
  <2>2. Before' /\ After'
    BY <1>1, <2>1 DEF StrandInv, Before, After
  <2> QED
    BY <1>1, <2>2, KilledCalls, CallStep
<1> QED
  BY <1>2, <1>3, <1>4

\* The end of a handler, acked or killed.
LEMMA EndOfHandler ==
  ASSUME Orderly, faults' = 0, TypeOK, TypeOK', StrandInv, NEW w \in Workers,
         Ack(w) \/ Killed(w), run[w].at # "idle"
  PROVE  StrandInv'
<1> DEFINE j == run[w].msg
<1>0. j \in MsgIds /\ j \in 1 .. last /\ last > 0
  BY Shapes
<1>1. /\ UNCHANGED <<row, status, msg, last, num, recent>>
      /\ run' = [run EXCEPT ![w] = NoRun]
      /\ \/ run[w].at = "ack" /\ queue' = [queue EXCEPT ![j] = "acked"]
         \/ queue' = queue
      /\ \A c \in Callers : call'[c].at = "idle" \/ call'[c] = call[c]
      /\ \/ status' # "sending" \/ cut'
         \/ cut' = cut /\ \A r \in Recipients : Listed(r) => Listed(r)'
  <2>1. CASE Ack(w)
    <3>1. UNCHANGED call
      BY <2>1 DEF Ack
    <3>2. \A r \in Recipients : Listed(r) => Listed(r)'
      BY <3>1 DEF Listed
    <3> QED
      BY <2>1, <3>1, <3>2, NothingFails DEF Ack, campaign
  <2>2. CASE Killed(w)
    BY <2>2, KilledCalls DEF broker
  <2> QED
    BY <2>1, <2>2
<1>2. \A v \in Workers : run'[v].at = "idle"
  BY <1>0, <1>1, AloneAt DEF NoRun, Run, TypeOK, RunType
<1> HIDE DEF j
<1>3. \A i \in 1 .. last : i \in MsgIds /\ (queue'[i] = queue[i] \/ (i = j /\ queue'[i] = "acked"))
  BY <1>1, Shapes DEF TypeOK, BrokerType
<1>4. Before' /\ After'
  BY <1>0, <1>1 DEF StrandInv, Before, After
<1>5. Numbered' /\ SameBatches'
  BY <1>1, StreamKept DEF StrandInv, Numbered
<1>6. OneHandler' /\ Stages' /\ Cutting'
  BY <1>2 DEF OneHandler, Stages, Cutting
<1>7. 1 \in 1 .. last /\ \A i \in 2 .. last : i \in 1 .. last /\ i # 1
  BY <1>0, Shapes
<1>8. StartFirst'
  <2> SUFFICES ASSUME StartOpen' PROVE \A i \in 2 .. last : queue'[i] = "ready"
    BY <1>1, <1>2 DEF StartFirst
  <2>1. queue'[1] # "acked"
    BY <1>2 DEF StartOpen
  <2>2. queue'[1] = queue[1] /\ StartOpen
    BY <1>1, <1>2, <1>3, <1>7, <2>1 DEF StartOpen
  <2>3. j = 1 /\ \A i \in 2 .. last : queue[i] = "ready"
    BY <1>0, <2>2 DEF StrandInv, StartFirst, j
  <2> QED
    BY <1>3, <1>7, <2>3
<1>9. Rows'
  BY <1>1, <1>2 DEF StrandInv, Rows
<1>10. Promises'
  <2> SUFFICES ASSUME Dealt', status' = "sending", ~cut', NEW r \in Recipients, row'[r] = "pending"
               PROVE  Promised(r)'
    BY DEF Promises
  <2>1. queue'[1] = "acked"
    BY <1>2 DEF Dealt
  <2>2. Dealt
    BY <1>0, <1>1, <1>3, <1>7, <2>1 DEF Dealt, j
  <2>3. Promised(r)
    BY <1>1, <2>2 DEF StrandInv, Promises
  <2>4. CASE Listed(r)
    <3>1. Listed(r)'
      BY <1>1, <2>4 DEF Listed
    <3> QED
      BY <3>1 DEF Promised
  <2>5. ASSUME NEW i \in 2 .. last, InBatch(r, i) PROVE Promised(r)'
    <3>1. queue'[i] = queue[i]
      <4>1. CASE run[w].at = "ack"
        BY <1>0, <1>3, <1>7, <2>5, <4>1 DEF InBatch, j
      <4>2. CASE run[w].at # "ack"
        BY <1>1, <4>2
      <4> QED
        BY <4>1, <4>2
    <3>2. InBatch(r, i)'
      BY <1>1, <1>2, <2>5, <3>1 DEF InBatch
    <3> QED
      BY <1>1, <3>2 DEF Promised
  <2> QED
    BY <2>3, <2>4, <2>5 DEF Promised
<1> QED
  BY <1>4, <1>5, <1>6, <1>8, <1>9, <1>10 DEF StrandInv

-----------------------------------------------------------------------------
(* Batches of the start task.                                              *)

\* Batch n + 1 is already in the stream, so a rerun's copy of it is dropped.
LEMMA CutAgain ==
  ASSUME TypeOK, SameBatches, NEW n \in Nat, NEW i \in 1 .. last, msg[i].id = n + 1
  PROVE  Ahead(n + 1) = Ahead(n) \ NextBatch(Ahead(n)) /\ Published(n + 1)
<1>1. \A x \in 1 .. last : msg[x].id = n + 1 => msg[x].to = NextBatch(Ahead(n))
  <2> TAKE x \in 1 .. last
  <2>1. n + 1 >= 1 /\ (n + 1) - 1 = n
    OBVIOUS
  <2>2. msg[x].id = n + 1 => msg[x].to = NextBatch(Ahead((n + 1) - 1))
    BY <2>1 DEF SameBatches
  <2> QED
    BY <2>1, <2>2
<1>2. msg[i].to = NextBatch(Ahead(n))
  BY <1>1
<1>3. \A x \in 1 .. last : msg[x].id \in 1 .. n + 1 <=> (msg[x].id \in 1 .. n \/ msg[x].id = n + 1)
  BY Shapes
<1>4. Published(n + 1)
  <2>1. msg[i].id >= 1
    OBVIOUS
  <2>2. Published(msg[i].id)
    BY <2>1 DEF SameBatches
  <2> QED
    BY <2>2
<1>5. \A r \in Audience : r \in Ahead(n + 1) <=> r \in Ahead(n) /\ r \notin NextBatch(Ahead(n))
  <2> HIDE DEF NextBatch
  <2> TAKE r \in Audience
  <2> DEFINE b == NextBatch(Ahead(n))
  <2>1. (msg[i].id \in 1 .. n + 1 /\ msg[i].to = b) /\ \A x \in 1 .. last : msg[x].id = n + 1 => msg[x].to = b
    BY <1>1, <1>2
  <2> HIDE DEF b
  <2>2. r \in Ahead(n + 1) <=> r \in Ahead(n) /\ r \notin b
    BY <1>3, <2>1 DEF Ahead
  <2> QED
    BY <2>2 DEF b
<1>6. Ahead(n + 1) \subseteq Audience /\ Ahead(n) \subseteq Audience
  BY DEF Ahead
<1> QED
  BY <1>4, <1>5, <1>6

\* Batch n + 1 enters the stream.  Later batches there imply an earlier copy
\* of it, so they are cut as before.
LEMMA CutFirst ==
  ASSUME TypeOK, SameBatches, NEW n \in Nat, Published(n), last' = last + 1,
         msg'[last + 1].id = n + 1, msg'[last + 1].to = NextBatch(Ahead(n)),
         \A i \in 1 .. last : msg'[i] = msg[i]
  PROVE  SameBatches' /\ Ahead(n + 1)' = Ahead(n) \ NextBatch(Ahead(n)) /\ Published(n + 1)'
<1> DEFINE b == NextBatch(Ahead(n))
<1> HIDE DEF b
<1>0. /\ last \in Nat /\ \A i \in 1 .. last : msg[i].id \in Nat \cup {-1} /\ i \in 1 .. last'
      /\ \A i \in 1 .. last' : i \in 1 .. last \/ i = last + 1
      /\ last + 1 \in 1 .. last' /\ msg'[last + 1].to = b
  BY Shapes DEF b
<1>1. \A k \in Nat : Published(k) => Published(k)'
  BY <1>0 DEF Published
<1>2. Published(n + 1)'
  <2>1. \A m \in 1 .. n + 1 : m \in 1 .. n \/ m = n + 1
    OBVIOUS
  <2> QED
    BY <1>0, <1>1, <2>1 DEF Published
<1>3. \A k \in 0 .. n : Ahead(k)' = Ahead(k)
  <2> TAKE k \in 0 .. n
  <2>1. n + 1 \notin 1 .. k
    OBVIOUS
  <2> QED
    BY <1>0, <2>1 DEF Ahead
<1>4. \A k \in Nat : k >= n + 1 => Ahead(k)' = Ahead(k) \ b
  <2> TAKE k \in Nat
  <2> HAVE k >= n + 1
  <2>1. n + 1 \in 1 .. k
    OBVIOUS
  <2> QED
    BY <1>0, <2>1 DEF Ahead
<1>5. Ahead(n + 1)' = Ahead(n) \ b
  <2>1. \A i \in 1 .. last' : msg'[i].id \in 1 .. n + 1 <=> msg'[i].id \in 1 .. n \/ msg'[i].id = n + 1
    BY <1>0
  <2>2. CASE \E i \in 1 .. last : msg[i].id = n + 1
    <3>1. Ahead(n + 1) = Ahead(n) \ b
      BY <2>2, CutAgain DEF b
    <3>2. Ahead(n + 1)' = Ahead(n + 1) \ b
      BY <1>4
    <3> QED
      BY <3>1, <3>2
  <2>3. CASE \A i \in 1 .. last : msg[i].id # n + 1
    <3>1. Ahead(n + 1) = Ahead(n)
      <4>1. \A i \in 1 .. last : msg[i].id \in 1 .. n + 1 <=> msg[i].id \in 1 .. n
        BY <1>0, <2>3
      <4> QED
        BY <4>1 DEF Ahead
    <3>2. Ahead(n + 1)' = Ahead(n + 1) \ b
      BY <1>4
    <3> QED
      BY <3>1, <3>2
  <2> QED
    BY <2>2, <2>3
<1>6. SameBatches'
  <2> SUFFICES ASSUME NEW i \in 1 .. last', msg'[i].id >= 1
               PROVE  msg'[i].to = NextBatch(Ahead(msg[i].id - 1)') /\ Published(msg[i].id)'
    BY DEF SameBatches
  <2>1. CASE i = last + 1
    <3>1. (n + 1) - 1 = n /\ n \in 0 .. n
      OBVIOUS
    <3>2. msg'[i].id = n + 1 /\ msg'[i].to = b
      BY <1>0, <2>1
    <3>3. b = NextBatch(Ahead(n)')
      BY <1>3, <3>1 DEF b
    <3> QED
      BY <1>2, <3>1, <3>2, <3>3
  <2>2. CASE i \in 1 .. last
    <3>1. msg'[i] = msg[i] /\ msg[i].id \in Nat /\ msg[i].id >= 1 /\ msg[i].id - 1 \in Nat
      BY <1>0, <2>2
    <3>2. msg[i].to = NextBatch(Ahead(msg[i].id - 1)) /\ Published(msg[i].id)
      BY <2>2, <3>1 DEF SameBatches
    <3>3. CASE msg[i].id <= n + 1
      <4>1. msg[i].id - 1 \in 0 .. n
        BY <3>1, <3>3
      <4> QED
        BY <1>1, <1>3, <3>1, <3>2, <4>1
    <3>4. CASE msg[i].id > n + 1
      <4>0. PICK k \in Nat : k = msg[i].id - 1
        BY <3>1
      <4>1. k >= n + 1
        BY <3>1, <3>4, <4>0
      <4>2. PICK x \in 1 .. last : msg[x].id = n + 1
        BY <3>1, <3>2, <3>4 DEF Published
      <4>3. Ahead(n + 1) = Ahead(n) \ b
        BY <4>2, CutAgain DEF b
      <4>4. Ahead(k) \subseteq Ahead(n + 1)
        <5>1. \A y \in 1 .. n + 1 : y \in 1 .. k
          BY <4>1
        <5> QED
          BY <5>1 DEF Ahead
      <4>5. Ahead(k)' = Ahead(k)
        <5>1. Ahead(k)' = Ahead(k) \ b
          BY <1>4, <4>1
        <5>2. \A r \in Ahead(k) : r \notin b
          BY <4>3, <4>4
        <5> QED
          BY <5>1, <5>2
      <4> QED
        BY <1>1, <3>1, <3>2, <4>0, <4>5
    <3> QED
      BY <3>1, <3>3, <3>4
  <2> QED
    BY <1>0, <2>1, <2>2
<1> QED
  BY <1>2, <1>5, <1>6 DEF b

LEMMA PublishStrands ==
  ASSUME Orderly, faults' = 0, TypeOK, TypeOK', StrandInv, NEW w \in Workers, PublishBatch(w)
  PROVE  StrandInv'
<1>0. PICK n \in Nat : n = run[w].n
  BY Shapes
<1> DEFINE b == NextBatch(Ahead(n))
<1>1. /\ run[w].at = "batches" /\ run[w].msg = 1 /\ last > 0 /\ last \in Nat
      /\ run[w].todo = Ahead(n) /\ Published(n)
  <2>1. run[w].at = "batches"
    BY DEF PublishBatch
  <2> QED
    BY <1>0, <2>1, Shapes DEF StrandInv, Stages, Cutting
<1>2. /\ UNCHANGED <<row, status, cut, call>>
      /\ Stored(n + 1, b)
      /\ run' = [run EXCEPT ![w] = Run(IF Ahead(n) = b THEN "ack" ELSE "batches", 1, Ahead(n) \ b, n + 1)]
  <2>1. run[w].msg = 1
    BY <1>1
  <2> QED
    BY <1>0, <1>1, NothingFails DEF PublishBatch, campaign
<1> HIDE DEF b
<1>3. /\ run'[w].at = IF Ahead(n) = b THEN "ack" ELSE "batches"
      /\ run'[w].msg = 1 /\ run'[w].todo = Ahead(n) \ b /\ run'[w].n = n + 1
      /\ \A v \in Workers : v # w => run'[v] = run[v] /\ run[v].at = "idle"
  <2>1. \A v \in Workers : v # w => run[v].at = "idle"
    BY <1>1, AloneAt
  <2> QED
    BY <1>2, <2>1 DEF Run, TypeOK, RunType
\* The stream afterwards: as it was, or one batch longer.
<1>4. /\ last' \in Nat /\ last' >= last /\ num' = num
      /\ \A i \in 1 .. last : msg'[i] = msg[i] /\ queue'[i] = queue[i] /\ i \in 1 .. last'
      /\ \A i \in 1 .. last' : i \in 1 .. last \/ (queue'[i] = "ready" /\ msg'[i].id = n + 1)
      /\ \A id \in recent' : id \in recent \/ \E i \in 1 .. last' : msg'[i].id = id
      /\ SameBatches' /\ Ahead(n + 1)' = Ahead(n) \ b /\ Published(n + 1)'
  <2>1. CASE n + 1 \in recent
    <3>1. UNCHANGED <<msg, last, queue, num, recent>>
      BY <1>2, <2>1 DEF Stored, broker
    <3>2. PICK i \in 1 .. last : msg[i].id = n + 1
      BY <2>1 DEF StrandInv, Numbered
    <3>3. Ahead(n + 1) = Ahead(n) \ b /\ Published(n + 1)
      BY <3>2, CutAgain DEF StrandInv, b
    <3>4. Ahead(n + 1)' = Ahead(n + 1) /\ Published(n + 1)'
      BY <3>1, <3>3 DEF Ahead, Published
    <3> QED
      BY <1>1, <3>1, <3>3, <3>4, StreamKept DEF StrandInv
  <2>2. CASE n + 1 \notin recent
    <3>1. /\ last' = last + 1 /\ last + 1 \in MsgIds /\ num' = num
          /\ msg' = [msg EXCEPT ![last + 1] = [id |-> n + 1, to |-> b]]
          /\ queue' = [queue EXCEPT ![last + 1] = "ready"]
          /\ recent' \subseteq recent \cup {n + 1}
      BY <1>1, <1>2, <2>2 DEF Stored, MsgIds, Fresh
    <3>2. \A i \in 1 .. last : i \in MsgIds /\ i # last + 1 /\ i \in 1 .. last'
      BY <1>1, <3>1, Shapes
    <3>3. /\ msg'[last + 1].id = n + 1 /\ msg'[last + 1].to = b /\ queue'[last + 1] = "ready"
          /\ \A i \in 1 .. last : msg'[i] = msg[i] /\ queue'[i] = queue[i]
      BY <3>1, <3>2 DEF TypeOK, BrokerType
    <3>4. last + 1 \in 1 .. last' /\ \A i \in 1 .. last' : i \in 1 .. last \/ i = last + 1
      BY <1>1, <3>1
    <3>5. SameBatches' /\ Ahead(n + 1)' = Ahead(n) \ b /\ Published(n + 1)'
      BY <1>1, <3>1, <3>3, CutFirst DEF StrandInv, b
    <3> QED
      BY <1>1, <3>1, <3>2, <3>3, <3>4, <3>5
  <2> QED
    BY <2>1, <2>2
<1>5. Before' /\ After'
  BY <1>1, <1>2, <1>4 DEF StrandInv, Before, After
<1>6. Numbered'
  <2>1. \A i \in 1 .. last' : msg'[i].id = StartId <=> i = 1
    <3>1. 1 \in 1 .. last
      BY <1>1
    <3> QED
      BY <1>4, <3>1 DEF StrandInv, Numbered, StartId
  <2>2. \A id \in recent' : \E i \in 1 .. last' : msg'[i].id = id
    BY <1>4 DEF StrandInv, Numbered
  <2> QED
    BY <2>1, <2>2 DEF Numbered
<1>7. 1 \in 1 .. last /\ queue'[1] = queue[1]
  BY <1>1, <1>4
<1>8. OneHandler' /\ Stages'
  <2>1. OneHandler'
    BY <1>1, <1>3, <1>7 DEF StrandInv, OneHandler
  <2>2. Stages'
    BY <1>3 DEF Stages
  <2> QED
    BY <2>1, <2>2
<1>9. StartOpen /\ \A i \in 2 .. last' : queue'[i] = "ready"
  <2>1. StartOpen
    BY <1>1 DEF StartOpen
  <2>2. \A i \in 2 .. last : queue[i] = "ready"
    BY <2>1 DEF StrandInv, StartFirst
  <2>3. \A i \in 2 .. last' : i \in 1 .. last' /\ (i \in 1 .. last => i \in 2 .. last)
    BY <1>1, <1>4
  <2> QED
    BY <1>4, <2>1, <2>2, <2>3
<1>10. StartFirst'
  BY <1>3, <1>9 DEF StartFirst
<1>11. Cutting'
  <2>1. \A v \in Workers : run'[v].at \in {"mark", "batches"} => v = w
    BY <1>3
  <2>2. (run[w].todo)' = Ahead(n + 1)' /\ (run[w].n)' = n + 1
    BY <1>3, <1>4
  <2>3. run'[w].at # "mark"
    BY <1>3
  <2> QED
    BY <1>4, <2>1, <2>2, <2>3 DEF Cutting
<1>12. Rows'
  <2>1. \A v \in Workers : run'[v].at # "count"
    BY <1>3
  <2> QED
    BY <1>2, <2>1 DEF StrandInv, Rows
<1>13. Promises'
  <2> SUFFICES ASSUME Dealt', NEW r \in Recipients, row'[r] = "pending"
               PROVE  Promised(r)'
    BY DEF Promises
  <2>1. queue'[1] # "acked"
    BY <1>1, <1>7 DEF StrandInv, OneHandler
  <2>2. run'[w].at = "ack"
    BY <1>3, <2>1 DEF Dealt
  <2>3. r \in Audience /\ r \notin Ahead(n + 1)'
    BY <1>2, <1>3, <1>4, <2>2 DEF StrandInv, Rows
  <2>4. PICK i \in 1 .. last' : msg'[i].id \in 1 .. n + 1 /\ r \in msg'[i].to
    BY <2>3 DEF Ahead
  <2>5. i # 1 /\ i \in 2 .. last'
    BY <1>4, <1>6, <2>4 DEF Numbered, StartId
  <2>6. InBatch(r, i)'
    BY <1>3, <1>9, <2>4, <2>5 DEF InBatch
  <2> QED
    BY <2>5, <2>6 DEF Promised
<1> QED
  BY <1>4, <1>5, <1>6, <1>8, <1>10, <1>11, <1>12, <1>13 DEF StrandInv

-----------------------------------------------------------------------------
(* The theorem.                                                            *)

LEMMA InitStrands == Init => StrandInv
<1> SUFFICES ASSUME Init PROVE StrandInv
  OBVIOUS
<1>1. /\ last = 0 /\ recent = {} /\ status \in {"draft", "scheduled"}
      /\ \A r \in Recipients : row[r] = "none"
      /\ \A c \in Callers : call[c].at = "idle"
      /\ \A w \in Workers : run[w].at = "idle"
  BY DEF Init, NoCall, Call, NoRun, Run
<1>2. Before /\ After /\ Numbered
  <2>1. Before
    BY <1>1 DEF Before
  <2>2. After
    BY <1>1 DEF After
  <2>3. Numbered
    BY <1>1 DEF Numbered
  <2> QED
    BY <2>1, <2>2, <2>3
<1>3. OneHandler /\ Stages /\ StartFirst /\ SameBatches /\ Cutting
  BY <1>1 DEF OneHandler, Stages, StartFirst, StartOpen, SameBatches, Cutting
<1>4. Rows /\ Promises
  BY <1>1 DEF Rows, Promises
<1> QED
  BY <1>2, <1>3, <1>4 DEF StrandInv

LEMMA NextStrands ==
  ASSUME Orderly, faults' = 0, TypeOK, TypeOK', StrandInv, [Next]_vars
  PROVE  StrandInv' \/ Startless'
<1>1. CASE UNCHANGED vars
  <2>1. UNCHANGED <<broker, run, row, status, cut, last, call>>
    BY <1>1 DEF vars, campaign, broker
  <2>2. Before' /\ After' /\ \A r \in Recipients : Listed(r)' <=> Listed(r)
    BY <2>1, CallsKept DEF Listed
  <2> QED
    BY <2>1, <2>2, CallStep DEF SameRuns
<1>2. ASSUME NEW w \in Workers, Handle(w) \/ Stop(w) PROVE StrandInv'
  <2>1. CASE Ack(w)
    <3>1. run[w].at # "idle"
      BY <2>1 DEF Ack
    <3> QED
      BY <2>1, <3>1, EndOfHandler
  <2> QED
    BY <1>2, <2>1, StartTaskStrands, PublishStrands, BatchTaskStrands, StopStrands DEF Handle
<1>3. ASSUME NEW w \in Workers, Killed(w) PROVE StrandInv' \/ Startless'
  BY <1>3, EndOfHandler, IdleKilled
<1>4. CASE Next
  BY <1>2, <1>3, <1>4, CallsStrandNobody, AckWaitStrands, TakeStrands, WindowStrands DEF Next, Killed
<1> QED
  BY <1>1, <1>4

\* A campaign without its start task stays without, and has no rows.
LEMMA StartlessCalls ==
  ASSUME TypeOK, Startless, NEW c \in Callers,
         ClaimDue(c) \/ Continue(c) \/ \E verb \in Verbs : Request(c, verb)
  PROVE  Startless'
<1>1. call[c].at \in {"idle", "pause", "resume", "cancel", "list", "publish", "complete"}
      /\ status \notin {"draft", "scheduled"}
  BY DEF Startless
<1>2. UNCHANGED run /\ (row' = row \/ row' = [r \in Recipients |-> "none"])
  BY DEF ClaimDue, Continue, Request, Start, Announce, Restore, Pause, Cancel, Delete, Resume,
         ListPending, Complete, Republish, CallFails
<1>3. /\ ~ClaimDue(c) /\ ~Start(c) /\ ~Announce(c) /\ ~Restore(c) /\ ~Delete(c)
      /\ status' \notin {"draft", "scheduled"}
  <2>1. ~ClaimDue(c) /\ ~Start(c) /\ ~Announce(c) /\ ~Restore(c) /\ ~Delete(c)
    BY <1>1 DEF ClaimDue, Start, Announce, Restore, Delete
  <2>2. UNCHANGED campaign \/ \E x \in {"sending", "paused", "cancelled", "completed", "deleted"} : UpdateStatus(x)
    BY <2>1 DEF Continue, Request, Pause, Cancel, Resume, ListPending, Complete, Republish, CallFails, Target
  <2> QED
    BY <1>1, <2>1, <2>2, StatusSet DEF campaign
<1>4. \A i \in 1 .. last' : msg'[i].id # StartId
  <2>1. CASE UNCHANGED <<msg, last>>
    BY <2>1 DEF Startless
  <2>2. CASE Republish(c)
    <3>1. \/ UNCHANGED <<msg, last>>
          \/ /\ last' = last + 1 /\ last + 1 \in MsgIds
             /\ msg' = [msg EXCEPT ![last + 1] = [id |-> Fresh, to |-> NextBatch(call[c].todo)]]
      BY <2>2 DEF Republish, Lost, Stored, broker, TypeOK, BrokerType, MsgIds
    <3>2. \A i \in 1 .. last : i \in MsgIds
      BY Shapes
    <3>3. \A i \in 1 .. last + 1 : i \in 1 .. last \/ i = last + 1
      BY Shapes
    <3> QED
      BY <2>1, <3>1, <3>2, <3>3 DEF Startless, StartId, Fresh, TypeOK, BrokerType
  <2> QED
    BY <1>3, <2>1, <2>2 DEF Continue, Request, Pause, Cancel, Resume, ListPending, Complete, CallFails, broker
<1>5. \A d \in Callers :
        call'[d].at \in {"idle", "pause", "resume", "cancel", "list", "publish", "complete"}
  <2>1. \A d \in Callers : d # c => call'[d] = call[d]
    BY <1>3 DEF Continue, Request, Pause, Cancel, Resume, ListPending, Complete, Republish, CallFails,
                Goto, Return, TypeOK, CallType
  <2>2. call'[c].at \in {"idle", "pause", "resume", "cancel", "list", "publish", "complete"}
    <3>1. ASSUME NEW verb \in Verbs, Request(c, verb)
          PROVE  call'[c].at \in {"pause", "resume", "cancel"}
      <4>1. verb \in {"pause", "resume", "cancel"}
        BY <1>1, <3>1 DEF Request, Legal, Verbs
      <4> QED
        BY <3>1, <4>1 DEF Request, Call, TypeOK, CallType
    <3>2. CASE Continue(c)
      BY <1>1, <1>3, <3>2 DEF Continue, Pause, Cancel, Resume, ListPending, Complete, Republish,
            CallFails, Goto, Return, NoCall, Call, TypeOK, CallType
    <3> QED
      BY <1>3, <3>1, <3>2
  <2> QED
    BY <2>1, <2>2 DEF Startless
<1> QED
  BY <1>2, <1>3, <1>4, <1>5 DEF Startless

LEMMA StartlessTasks ==
  ASSUME TypeOK, Startless, NEW w \in Workers, Handle(w) \/ Stop(w) \/ Killed(w)
  PROVE  Startless'
<1>1. run[w].at \notin {"start", "resolve", "mark", "batches"}
  BY DEF Startless
<1>2. ~ReadStart(w) /\ ~Resolve(w) /\ ~MarkSending(w) /\ ~PublishBatch(w)
  BY <1>1 DEF ReadStart, Resolve, MarkSending, PublishBatch
<1>3. UNCHANGED <<msg, last>>
  BY <1>2 DEF Handle, Begin, Recheck, Ingest, Record, Count, CompleteIfDone, Ack, Stop, Killed, Crash, broker
<1>4. status' \notin {"draft", "scheduled"}
  <2>1. status' = status \/ UpdateStatus("completed")
    BY <1>2 DEF Handle, Begin, Recheck, Ingest, Record, Count, CompleteIfDone, Ack, Stop, Killed, Crash, campaign
  <2> QED
    BY <2>1, StatusSet DEF Startless
<1>5. \A r \in Recipients : row'[r] = "none"
  <2>1. CASE UNCHANGED row
    BY <2>1 DEF Startless
  <2>2. CASE Record(w)
    BY <2>2 DEF Record, Startless, TypeOK, CampaignType
  <2> QED
    BY <1>2, <2>1, <2>2 DEF Handle, Begin, Recheck, Ingest, Count, CompleteIfDone, Ack, Stop, Killed, Crash
<1>6. \A c \in Callers : call'[c] = call[c] \/ call'[c].at = "idle"
  BY <1>2 DEF Handle, Begin, Recheck, Ingest, Record, Count, CompleteIfDone, Ack, Stop, Killed, Crash,
              NoCall, Call
<1>7. \A v \in Workers : run'[v] = run[v] \/ run'[v].at \notin {"start", "resolve", "mark", "batches"}
  <2>1. CASE Begin(w) \/ Recheck(w) \/ Ingest(w) \/ CompleteIfDone(w) \/ Stop(w)
    BY <2>1 DEF Begin, Recheck, Ingest, CompleteIfDone, Stop, Step, TypeOK, RunType
  <2>2. CASE Record(w) \/ Count(w) \/ Ack(w) \/ Killed(w)
    BY <2>2 DEF Record, Count, Ack, Killed, Crash, NoRun, Run, TypeOK, RunType
  <2> QED
    BY <1>2, <2>1, <2>2 DEF Handle
<1> QED
  BY <1>3, <1>4, <1>5, <1>6, <1>7 DEF Startless

LEMMA StartlessStays ==
  ASSUME TypeOK, Startless, [Next]_vars
  PROVE  Startless'
<1>1. CASE UNCHANGED vars
  BY <1>1 DEF vars, campaign, broker, Startless
<1>2. ASSUME NEW j \in MsgIds, NEW w \in Workers, Take(w, j) PROVE Startless'
  <2>1. UNCHANGED <<status, row, msg, last, call>> /\ j \in 1 .. last
    BY <1>2, Shapes DEF Take, Ready, campaign
  <2>2. \A v \in Workers : run'[v] = run[v] \/ run'[v].at = "begin"
    BY <1>2, <2>1 DEF Take, Startless, Run, TypeOK, RunType
  <2> QED
    BY <2>1, <2>2 DEF Startless
<1>3. ASSUME (\E j \in MsgIds : AckWait(j)) \/ \E id \in recent : WindowPasses(id) PROVE Startless'
  BY <1>3 DEF AckWait, WindowPasses, campaign, Startless
<1>4. CASE Next
  BY <1>2, <1>3, <1>4, StartlessCalls, StartlessTasks DEF Next, Killed
<1> QED
  BY <1>1, <1>4

LEMMA NobodyIsStranded ==
  ASSUME TypeOK, StrandInv
  PROVE  NobodyStranded
<1> SUFFICES ASSUME status = "sending", ~cut, NEW r \in Recipients, row[r] = "pending"
             PROVE  Covered(r)
  BY DEF NobodyStranded
<1>1. last \in Nat /\ last # 0 /\ 1 \in 1 .. last
  BY Shapes DEF StrandInv, Before
<1>2. CASE queue[1] # "acked"
  BY <1>1, <1>2 DEF StrandInv, Numbered, Covered
<1>3. CASE queue[1] = "acked"
  <2>0. Dealt
    BY <1>1, <1>3 DEF Dealt
  <2>1. Promised(r)
    BY <2>0 DEF StrandInv, Promises
  <2>2. \A i \in 2 .. last : i \in 1 .. last
    BY <1>1
  <2> QED
    BY <2>1, <2>2 DEF Promised, Listed, InBatch, Covered
<1> QED
  BY <1>2, <1>3

\* While an orderly campaign is sending and no statement has failed, every
\* pending recipient is in a task that is not acked or in a list about to be
\* published, for any audience, batch size, number of processes, pauses,
\* resumes, redeliveries, killed and stopped processes; except after a kill
\* inside a Start, TriggerDue or Resume, or a stop inside a task, and then
\* only until the campaign is paused and resumed (ProcessStartTask,
\* ProcessBatchTask, Resume).
THEOREM StrandedCorrect ==
  ASSUME Orderly
  PROVE  Spec => []NobodyStranded
<1> DEFINE Inv == faults = 0 => StrandInv \/ Startless
<1>1. Init => Inv
  BY InitStrands
<1>2. TypeOK /\ TypeOK' /\ Inv /\ [Next]_vars => Inv'
  <2> SUFFICES ASSUME TypeOK, TypeOK', Inv, [Next]_vars, faults' = 0
               PROVE  StrandInv' \/ Startless'
    OBVIOUS
  <2>1. faults = 0
    <3>1. faults \in Nat /\ (faults' = faults \/ Fault)
      <4>1. faults \in Nat
        BY DEF TypeOK, BoundsType
      <4>2. CASE UNCHANGED vars
        BY <4>2 DEF vars, bounds
      <4>3. ASSUME NEW c \in Callers, ClaimDue(c) \/ Continue(c) \/ \E verb \in Verbs : Request(c, verb)
            PROVE  faults' = faults \/ Fault
        BY <4>3 DEF ClaimDue, Continue, Request, Start, Announce, Restore, Pause, Cancel, Delete, Resume,
             ListPending, Complete, Republish, CallFails, bounds
      <4>4. ASSUME NEW w \in Workers, Handle(w) \/ Stop(w) \/ Killed(w) PROVE faults' = faults \/ Fault
        BY <4>4 DEF Handle, ReadStart, Resolve, MarkSending, PublishBatch, Begin, Recheck, Ingest, Record,
             Count, CompleteIfDone, Ack, Stop, Killed, Crash, bounds
      <4>5. ASSUME \/ \E j \in MsgIds : AckWait(j) \/ \E v \in Workers : Take(v, j)
                   \/ \E id \in recent : WindowPasses(id)
            PROVE  faults' = faults
        BY <4>5 DEF AckWait, Take, WindowPasses, bounds
      <4> QED
        BY <4>1, <4>2, <4>3, <4>4, <4>5 DEF Next, Killed
    <3> QED
      BY <3>1, NothingFails
  <2> QED
    BY <2>1, NextStrands, StartlessStays
<1>3. TypeOK /\ Inv => NobodyStranded
  <2> SUFFICES ASSUME TypeOK, Inv, faults = 0 PROVE NobodyStranded
    BY DEF NobodyStranded
  <2> QED
    BY NobodyIsStranded DEF Startless, NobodyStranded
<1> QED
  BY <1>1, <1>2, <1>3, TypeCorrect, PTL DEF Spec
=============================================================================
