------------------------------ MODULE Inbound ------------------------------
(***************************************************************************)
(* The inbound path of one chat: InboundProcessor.Process with its dedup    *)
(* row and its Chat Activity transaction, the debounce buffer that several  *)
(* replicas share in Redis, their in-memory timers, and the human handoff.  *)
(*                                                                          *)
(* A handler is one call of Process, a callback one run of checkAndFlush,   *)
(* an operator one call of Recorder.Outbound or Recorder.SetAI.  Each call  *)
(* to Postgres, Redis or the broker and each section under the debouncer's  *)
(* mutex is a step of its own.                                              *)
(*                                                                          *)
(* Abstracted: real time (a timer fires, the window key expires and a pause *)
(* lapses at any moment after they are set); the order of the Redis list,   *)
(* since Flush sorts what it takes; media, audit and routing.               *)
(***************************************************************************)
EXTENDS Naturals

CONSTANTS
  Procs,        \* server replicas
  Messages,     \* messages of the customer, named by their provider id
  Handlers, Callbacks, Operators,   \* bounds on concurrent calls
  None,
  MaxDeliver,   \* deliveries by the providers, repeated ones included
  MaxChanges,   \* calls of operators
  MaxFaults     \* failed calls to Postgres, Redis or the broker, and restarts

ASSUME InboundAssumption ==
  /\ None \notin Procs \cup Messages
  /\ {MaxDeliver, MaxChanges, MaxFaults} \subseteq Nat

VARIABLES
  arrivals,  \* deliveries so far
  dedup,     \* rows of inbound_dedups
  recorded,  \* inbound rows of chat_messages
  told,      \* publications of each message on inbound.events
  ai,        \* ai_mode of the chat; "lapsed" is paused with its time over
  buffer,    \* the Redis list: how often it holds each message
  window,    \* the timer key is alive
  timer,     \* timers[mapKey] of each replica
  stray,     \* running timers that left the map without being stopped
  hpc, hproc, hmsg, hgate,     \* handlers; hgate: receipt.AIMayAct()
  cpc, cproc, cbatch, ccold,   \* callbacks; cbatch: what the script returned;
                               \* ccold: no AI engagement since it did
  opc, oproc,                  \* operators
  turned,    \* publications of each message in a coalesced turn
  orphan,    \* a fault has left the buffer without its timer
  changes, faults

hvars == <<hpc, hproc, hmsg, hgate>>
cvars == <<cpc, cproc, cbatch, ccold>>
ovars == <<opc, oproc>>
chat == <<arrivals, dedup, recorded, ai>>
redis == <<buffer, window, orphan>>
timers == <<timer, stray>>
output == <<told, turned>>
bounds == <<changes, faults>>

vars == <<hvars, cvars, ovars, chat, redis, timers, output, bounds>>

Modes == {"active", "paused", "lapsed", "off"}
HStages == {"idle", "dedup", "record", "tell", "push", "set", "arm"}
CStages == {"idle", "check", "resched", "delete", "stop", "script", "snapshot", "publish"}
OStages == {"idle", "cancel", "del"}

Nothing == [m \in Messages |-> 0]

Engaged == ai \in {"active", "lapsed"}

Held == {m \in Messages : buffer[m] > 0}

Init ==
  /\ arrivals = 0 /\ dedup = {} /\ recorded = {} /\ told = Nothing
  /\ ai = "active"
  /\ buffer = Nothing /\ window = FALSE /\ orphan = FALSE
  /\ timer = [p \in Procs |-> "none"] /\ stray = [p \in Procs |-> 0]
  /\ hpc = [h \in Handlers |-> "idle"] /\ hproc = [h \in Handlers |-> None]
  /\ hmsg = [h \in Handlers |-> None] /\ hgate = [h \in Handlers |-> FALSE]
  /\ cpc = [c \in Callbacks |-> "idle"] /\ cproc = [c \in Callbacks |-> None]
  /\ cbatch = [c \in Callbacks |-> Nothing] /\ ccold = [c \in Callbacks |-> FALSE]
  /\ opc = [o \in Operators |-> "idle"] /\ oproc = [o \in Operators |-> None]
  /\ turned = Nothing
  /\ changes = 0 /\ faults = 0

-----------------------------------------------------------------------------
(* Handlers: InboundProcessor.Process.                                      *)

HStep(h, from, to) ==
  /\ hpc[h] = from
  /\ hpc' = [hpc EXCEPT ![h] = to]
  /\ UNCHANGED <<hproc, hmsg, hgate>>

HReturn(h, from) ==
  /\ hpc[h] = from
  /\ hpc' = [hpc EXCEPT ![h] = "idle"]
  /\ hproc' = [hproc EXCEPT ![h] = None]
  /\ hmsg' = [hmsg EXCEPT ![h] = None]
  /\ hgate' = [hgate EXCEPT ![h] = FALSE]

(* The provider delivers a message, for the first time or once more. *)
Arrive(h, p, m) ==
  /\ hpc[h] = "idle" /\ h = CHOOSE k \in Handlers : hpc[k] = "idle"
  /\ arrivals < MaxDeliver
  /\ arrivals' = arrivals + 1
  /\ hpc' = [hpc EXCEPT ![h] = "dedup"]
  /\ hproc' = [hproc EXCEPT ![h] = p]
  /\ hmsg' = [hmsg EXCEPT ![h] = m]
  /\ UNCHANGED <<hgate, cvars, ovars, dedup, recorded, ai, redis, timers, output, bounds>>

(* InsertAndCheck: only the delivery that inserts the row goes on. *)
Deduplicate(h) ==
  /\ \/ hmsg[h] \in dedup /\ HReturn(h, "dedup")
     \/ hmsg[h] \notin dedup /\ HStep(h, "dedup", "record")
  /\ dedup' = dedup \cup {hmsg[h]}
  /\ UNCHANGED <<cvars, ovars, arrivals, recorded, ai, redis, timers, output, bounds>>

\* Mutant of Record: the receipt comes without the row.
RecordSkipped(h) ==
  /\ hpc[h] = "record"
  /\ hpc' = [hpc EXCEPT ![h] = "tell"]
  /\ hgate' = [hgate EXCEPT ![h] = Engaged]
  /\ UNCHANGED <<hproc, hmsg, cvars, ovars, chat, redis, timers, output, bounds>>

(* Recorder.Inbound: one transaction under the lock of the chat.  The AI's
   state is judged at the time the message carries, so a pause that is over
   by now may still have applied to it.                                     *)
Record(h) ==
  /\ hpc[h] = "record"
  /\ recorded' = recorded \cup {hmsg[h]}
  /\ IF hmsg[h] \in recorded
       THEN HReturn(h, "record")
       ELSE /\ hpc' = [hpc EXCEPT ![h] = "tell"]
            /\ \E gate \in (IF ai = "lapsed" THEN BOOLEAN ELSE {ai = "active"}) :
                 hgate' = [hgate EXCEPT ![h] = gate]
            /\ UNCHANGED <<hproc, hmsg>>
  /\ UNCHANGED <<cvars, ovars, arrivals, dedup, ai, redis, timers, output, bounds>>

\* Mutant of Tell: the debounce gate is not asked.
TellNoGate(h) ==
  /\ HStep(h, "tell", "push")
  /\ told' = [told EXCEPT ![hmsg[h]] = @ + 1]
  /\ UNCHANGED <<cvars, ovars, chat, redis, timers, turned, bounds>>

(* The event for inbound.events, unless the message has no content to
   publish; then the debounce gate.                                         *)
Tell(h) ==
  /\ hpc[h] = "tell"
  /\ \/ HReturn(h, "tell") /\ UNCHANGED told
     \/ /\ told' = [told EXCEPT ![hmsg[h]] = @ + 1]
        /\ \/ hgate[h] /\ HStep(h, "tell", "push")
           \/ ~hgate[h] /\ HReturn(h, "tell")
  /\ UNCHANGED <<cvars, ovars, chat, redis, timers, turned, bounds>>

(* Enqueue: RPUSH, then SET of the timer key.  They travel in one pipeline,
   which is no transaction: commands of other clients run in between.       *)
Push(h) ==
  /\ HStep(h, "push", "set")
  /\ buffer' = [buffer EXCEPT ![hmsg[h]] = @ + 1]
  /\ UNCHANGED <<cvars, ovars, chat, window, orphan, timers, output, bounds>>

SetWindow(h) ==
  /\ HStep(h, "set", "arm")
  /\ window' = TRUE
  /\ UNCHANGED <<cvars, ovars, chat, buffer, orphan, timers, output, bounds>>

(* Under the mutex: stop the timer of the map and put a new one there. *)
Arm(h) ==
  /\ HReturn(h, "arm")
  /\ timer' = [timer EXCEPT ![hproc[h]] = "armed"]
  /\ UNCHANGED <<stray, cvars, ovars, chat, redis, output, bounds>>

-----------------------------------------------------------------------------
(* Callbacks: checkAndFlush and Flush.                                      *)

CStep(c, from, to) ==
  /\ cpc[c] = from
  /\ cpc' = [cpc EXCEPT ![c] = to]
  /\ UNCHANGED <<cproc, cbatch, ccold>>

CReturn(c, from) ==
  /\ cpc[c] = from
  /\ cpc' = [cpc EXCEPT ![c] = "idle"]
  /\ cproc' = [cproc EXCEPT ![c] = None]
  /\ cbatch' = [cbatch EXCEPT ![c] = Nothing]
  /\ ccold' = [ccold EXCEPT ![c] = FALSE]

(* A timer fires: the one in the map, which stays there, or a stray one. *)
Fire(c, p) ==
  /\ cpc[c] = "idle" /\ c = CHOOSE k \in Callbacks : cpc[k] = "idle"
  /\ \/ /\ timer[p] = "armed"
        /\ timer' = [timer EXCEPT ![p] = "fired"]
        /\ UNCHANGED stray
     \/ /\ stray[p] > 0
        /\ stray' = [stray EXCEPT ![p] = @ - 1]
        /\ UNCHANGED timer
  /\ cpc' = [cpc EXCEPT ![c] = "check"]
  /\ cproc' = [cproc EXCEPT ![c] = p]
  /\ UNCHANGED <<cbatch, ccold, hvars, ovars, chat, redis, output, bounds>>

\* Mutant of Check: any answer of TTL counts as time left.
CheckNeverExpired(c) ==
  /\ CStep(c, "check", "resched")
  /\ UNCHANGED <<hvars, ovars, chat, redis, timers, output, bounds>>

(* TTL of the window.  It is rounded to seconds, so the last half second
   counts as expired like an error does.                                    *)
Check(c) ==
  /\ \/ window /\ CStep(c, "check", "resched")
     \/ CStep(c, "check", "delete")
  /\ UNCHANGED <<hvars, ovars, chat, redis, timers, output, bounds>>

\* Mutant of Reschedule: the callback leaves it to the timer in the map.
RescheduleForgets(c) ==
  /\ CReturn(c, "resched")
  /\ UNCHANGED <<hvars, ovars, chat, redis, timers, output, bounds>>

(* A new timer, if the map has one; that one is overwritten, not stopped. *)
Reschedule(c) ==
  LET p == cproc[c] IN
  /\ CReturn(c, "resched")
  /\ timer' = IF timer[p] = "none" THEN timer ELSE [timer EXCEPT ![p] = "armed"]
  /\ stray' = IF timer[p] = "armed" THEN [stray EXCEPT ![p] = @ + 1] ELSE stray
  /\ UNCHANGED <<hvars, ovars, chat, redis, output, bounds>>

(* The expired window: the map entry is deleted, its timer not stopped. *)
DeleteTimer(c) ==
  LET p == cproc[c] IN
  /\ CStep(c, "delete", "stop")
  /\ timer' = [timer EXCEPT ![p] = "none"]
  /\ stray' = IF timer[p] = "armed" THEN [stray EXCEPT ![p] = @ + 1] ELSE stray
  /\ UNCHANGED <<hvars, ovars, chat, redis, output, bounds>>

(* Flush stops and deletes whatever timer is in the map by then. *)
StopTimer(c) ==
  /\ CStep(c, "stop", "script")
  /\ timer' = [timer EXCEPT ![cproc[c]] = "none"]
  /\ UNCHANGED <<stray, hvars, ovars, chat, redis, output, bounds>>

\* Mutant of TakeAll: the list is read and not deleted.
TakeAllCopies(c) ==
  /\ \/ Held = {} /\ CReturn(c, "script")
     \/ /\ Held # {}
        /\ cpc[c] = "script"
        /\ cpc' = [cpc EXCEPT ![c] = "snapshot"]
        /\ cbatch' = [cbatch EXCEPT ![c] = buffer]
        /\ ccold' = [ccold EXCEPT ![c] = ~Engaged]
        /\ UNCHANGED cproc
  /\ UNCHANGED <<hvars, ovars, chat, redis, timers, output, bounds>>

(* The Lua script takes the whole list and deletes both keys. *)
TakeAll(c) ==
  /\ \/ Held = {} /\ CReturn(c, "script") /\ UNCHANGED redis
     \/ /\ Held # {}
        /\ cpc[c] = "script"
        /\ cpc' = [cpc EXCEPT ![c] = "snapshot"]
        /\ cbatch' = [cbatch EXCEPT ![c] = buffer]
        /\ ccold' = [ccold EXCEPT ![c] = ~Engaged]
        /\ buffer' = Nothing /\ window' = FALSE /\ orphan' = FALSE
        /\ UNCHANGED cproc
  /\ UNCHANGED <<hvars, ovars, chat, timers, output, bounds>>

\* Mutant of Snapshot: the turn goes on whatever the chat says.
SnapshotIgnored(c) ==
  /\ CStep(c, "snapshot", "publish")
  /\ UNCHANGED <<hvars, ovars, chat, redis, timers, output, bounds>>

(* Recorder.Snapshot: the turn is dropped if the AI is not engaged. *)
Snapshot(c) ==
  /\ \/ Engaged /\ CStep(c, "snapshot", "publish")
     \/ ~Engaged /\ CReturn(c, "snapshot")
  /\ UNCHANGED <<hvars, ovars, chat, redis, timers, output, bounds>>

(* The coalesced turn. *)
PublishTurn(c) ==
  /\ CReturn(c, "publish")
  /\ turned' = [m \in Messages |-> turned[m] + cbatch[c][m]]
  /\ UNCHANGED <<told, hvars, ovars, chat, redis, timers, bounds>>

-----------------------------------------------------------------------------
(* Operators: the human handoff and the AI switch.                          *)

(* domain.Apply commits the new mode; not engaged any more, it asks for the
   debounce to be cancelled after the commit.                               *)
CommitAI(o, p, mode, cancel) ==
  /\ opc[o] = "idle" /\ changes < MaxChanges
  /\ changes' = changes + 1
  /\ ai' = mode
  /\ opc' = [opc EXCEPT ![o] = IF cancel THEN "cancel" ELSE "idle"]
  /\ oproc' = [oproc EXCEPT ![o] = IF cancel THEN p ELSE None]
  /\ ccold' = [c \in Callbacks |-> ccold[c] /\ mode # "active"]
  /\ UNCHANGED <<hvars, cpc, cproc, cbatch, arrivals, dedup, recorded, redis, timers,
                 output, faults>>

(* Recorder.Outbound of a human agent: off stays off. *)
HumanReply(o, p) ==
  CommitAI(o, p, IF ai = "off" THEN "off" ELSE "paused", Engaged)

(* Recorder.SetAI: off dominates a pause. *)
SetAI(o, p, mode) ==
  LET next == IF mode = "paused" /\ ai = "off" THEN "off" ELSE mode IN
  CommitAI(o, p, next, next # "active")

(* Cancel: first the timer of this replica, under the mutex, ... *)
CancelTimer(o) ==
  /\ opc[o] = "cancel"
  /\ opc' = [opc EXCEPT ![o] = "del"]
  /\ timer' = [timer EXCEPT ![oproc[o]] = "none"]
  /\ UNCHANGED <<oproc, stray, hvars, cvars, chat, redis, output, bounds>>

OReturn(o) ==
  /\ opc[o] = "del"
  /\ opc' = [opc EXCEPT ![o] = "idle"]
  /\ oproc' = [oproc EXCEPT ![o] = None]

(* ... then the keys. *)
CancelKeys(o) ==
  /\ OReturn(o)
  /\ buffer' = Nothing /\ window' = FALSE /\ orphan' = FALSE
  /\ UNCHANGED <<hvars, cvars, chat, timers, output, bounds>>

-----------------------------------------------------------------------------
(* Time.                                                                    *)

WindowExpires ==
  /\ window
  /\ window' = FALSE
  /\ UNCHANGED <<hvars, cvars, ovars, chat, buffer, orphan, timers, output, bounds>>

PauseLapses ==
  /\ ai = "paused"
  /\ ai' = "lapsed"
  /\ ccold' = [c \in Callbacks |-> FALSE]
  /\ UNCHANGED <<hvars, cpc, cproc, cbatch, ovars, arrivals, dedup, recorded, redis,
                 timers, output, bounds>>

(* The safety TTL of the list, an hour or more: long after its timers. *)
ListExpires ==
  /\ orphan
  /\ buffer' = Nothing /\ orphan' = FALSE
  /\ UNCHANGED <<hvars, cvars, ovars, chat, window, timers, output, bounds>>

-----------------------------------------------------------------------------
(* Faults.                                                                  *)

Leave == orphan' = (Held # {})

(* InsertAndCheck fails: Process returns the error. *)
DedupFails(h) ==
  /\ HReturn(h, "dedup")
  /\ UNCHANGED <<cvars, ovars, chat, redis, timers, output>>

(* No contact, or Recorder.Inbound fails: logged, no receipt. *)
RecordFails(h) ==
  /\ HStep(h, "record", "tell")
  /\ UNCHANGED <<cvars, ovars, chat, redis, timers, output>>

(* The publish on inbound.events fails: Process returns the error. *)
TellFails(h) ==
  /\ HReturn(h, "tell")
  /\ UNCHANGED <<cvars, ovars, chat, redis, timers, output>>

(* The pipeline fails before or after some of its commands: no timer is set. *)
EnqueueFails(h) ==
  /\ \/ HReturn(h, "push") /\ UNCHANGED orphan
     \/ \E from \in {"set", "arm"} : HReturn(h, from) /\ Leave
  /\ UNCHANGED <<cvars, ovars, chat, buffer, window, timers, output>>

(* The script fails: logged, the timer is gone. *)
ScriptFails(c) ==
  /\ CReturn(c, "script") /\ Leave
  /\ UNCHANGED <<hvars, ovars, chat, buffer, window, timers, output>>

(* Snapshot fails: the turn goes on, and nobody knows whether it may. *)
SnapshotFails(c) ==
  /\ cpc[c] = "snapshot"
  /\ cpc' = [cpc EXCEPT ![c] = "publish"]
  /\ ccold' = [ccold EXCEPT ![c] = FALSE]
  /\ UNCHANGED <<cproc, cbatch>>
  /\ UNCHANGED <<hvars, ovars, chat, redis, timers, output>>

(* The publish of the turn fails: the error is ignored. *)
PublishFails(c) ==
  /\ CReturn(c, "publish")
  /\ UNCHANGED <<hvars, ovars, chat, redis, timers, output>>

(* DEL fails: executeIntents logs a warning. *)
CancelFails(o) ==
  /\ OReturn(o) /\ Leave
  /\ UNCHANGED <<hvars, cvars, chat, buffer, window, timers, output>>

(* A replica ends, by Close or by a crash: its calls and timers are gone. *)
Restart(p) ==
  /\ hpc' = [h \in Handlers |-> IF hproc[h] = p THEN "idle" ELSE hpc[h]]
  /\ hproc' = [h \in Handlers |-> IF hproc[h] = p THEN None ELSE hproc[h]]
  /\ hmsg' = [h \in Handlers |-> IF hproc[h] = p THEN None ELSE hmsg[h]]
  /\ hgate' = [h \in Handlers |-> hproc[h] # p /\ hgate[h]]
  /\ cpc' = [c \in Callbacks |-> IF cproc[c] = p THEN "idle" ELSE cpc[c]]
  /\ cproc' = [c \in Callbacks |-> IF cproc[c] = p THEN None ELSE cproc[c]]
  /\ cbatch' = [c \in Callbacks |-> IF cproc[c] = p THEN Nothing ELSE cbatch[c]]
  /\ ccold' = [c \in Callbacks |-> cproc[c] # p /\ ccold[c]]
  /\ opc' = [o \in Operators |-> IF oproc[o] = p THEN "idle" ELSE opc[o]]
  /\ oproc' = [o \in Operators |-> IF oproc[o] = p THEN None ELSE oproc[o]]
  /\ timer' = [timer EXCEPT ![p] = "none"]
  /\ stray' = [stray EXCEPT ![p] = 0]
  /\ Leave
  /\ UNCHANGED <<chat, buffer, window, output>>

Fault ==
  /\ faults < MaxFaults
  /\ faults' = faults + 1
  /\ UNCHANGED changes
  /\ \/ \E h \in Handlers : DedupFails(h) \/ RecordFails(h) \/ TellFails(h) \/ EnqueueFails(h)
     \/ \E c \in Callbacks :  ScriptFails(c) \/ SnapshotFails(c) \/ PublishFails(c)
     \/ \E o \in Operators : CancelFails(o)
     \/ \E p \in Procs : Restart(p)

-----------------------------------------------------------------------------
HandlerStep(h) == \/ Deduplicate(h) \/ Record(h) \/ Tell(h)
                  \/ Push(h) \/ SetWindow(h) \/ Arm(h)

CallbackStep(c) == \/ Check(c) \/ Reschedule(c) \/ DeleteTimer(c) \/ StopTimer(c)
                   \/ TakeAll(c) \/ Snapshot(c) \/ PublishTurn(c)

OperatorStep(o) == CancelTimer(o) \/ CancelKeys(o)

Next ==
  \/ \E h \in Handlers : \/ \E p \in Procs, m \in Messages : Arrive(h, p, m)
                         \/ HandlerStep(h)
  \/ \E c \in Callbacks : (\E p \in Procs : Fire(c, p)) \/ CallbackStep(c)
  \/ \E o \in Operators : \/ \E p \in Procs : \/ HumanReply(o, p)
                                              \/ \E mode \in {"active", "paused", "off"} :
                                                   SetAI(o, p, mode)
                          \/ OperatorStep(o)
  \/ WindowExpires \/ PauseLapses \/ ListExpires
  \/ Fault

Spec == Init /\ [][Next]_vars

(* A replica that has something to do does something, be it always another
   call that makes the step, and the window key expires.                    *)
Progress ==
  \/ \E h \in Handlers : HandlerStep(h)
  \/ \E c \in Callbacks : CallbackStep(c) \/ \E p \in Procs : Fire(c, p)
  \/ \E o \in Operators : OperatorStep(o)

Fairness == WF_vars(Progress) /\ WF_vars(WindowExpires)

FairSpec == Spec /\ Fairness

-----------------------------------------------------------------------------
ChatType ==
  /\ arrivals \in 0..MaxDeliver
  /\ dedup \subseteq Messages /\ recorded \subseteq Messages
  /\ ai \in Modes

RedisType == buffer \in [Messages -> Nat] /\ window \in BOOLEAN /\ orphan \in BOOLEAN

TimerType == timer \in [Procs -> {"none", "armed", "fired"}] /\ stray \in [Procs -> Nat]

HandlerType ==
  /\ hpc \in [Handlers -> HStages] /\ hproc \in [Handlers -> Procs \cup {None}]
  /\ hmsg \in [Handlers -> Messages \cup {None}] /\ hgate \in [Handlers -> BOOLEAN]
  /\ \A h \in Handlers : /\ hpc[h] = "idle" <=> hproc[h] = None
                         /\ hpc[h] = "idle" <=> hmsg[h] = None
                         /\ hpc[h] \in {"push", "set", "arm"} => hgate[h]

CallbackType ==
  /\ cpc \in [Callbacks -> CStages] /\ cproc \in [Callbacks -> Procs \cup {None}]
  /\ cbatch \in [Callbacks -> [Messages -> Nat]] /\ ccold \in [Callbacks -> BOOLEAN]
  /\ \A c \in Callbacks : cpc[c] = "idle" <=> cproc[c] = None

OperatorType ==
  /\ opc \in [Operators -> OStages] /\ oproc \in [Operators -> Procs \cup {None}]
  /\ \A o \in Operators : opc[o] = "idle" <=> oproc[o] = None

OutputType == told \in [Messages -> Nat] /\ turned \in [Messages -> Nat]

BoundsType == changes \in 0..MaxChanges /\ faults \in 0..MaxFaults

(* Every variable holds a value of its kind; a call under way has a replica
   and a message, and only messages the AI may act on are enqueued.         *)
TypeOK == /\ ChatType /\ RedisType /\ TimerType /\ HandlerType /\ CallbackType
          /\ OperatorType /\ OutputType /\ BoundsType

(* Every message is told to the subscribers of inbound.events at most once,
   and is part of at most one coalesced turn, whichever replicas it was
   delivered to and however often, and whichever timers fired together.     *)
OncePerMessage == \A m \in Messages : told[m] <= 1 /\ turned[m] <= 1

(* Who will still empty the buffer: a timer in a map, the callback it is
   running, a Flush or a Cancel on its way to the keys, an Enqueue that has
   pushed and is about to set its timer.                                    *)
Keeper ==
  \/ \E h \in Handlers : hpc[h] \in {"set", "arm"}
  \/ \E p \in Procs : timer[p] = "armed"
  \/ \E c \in Callbacks : \/ cpc[c] \in {"check", "resched"} /\ timer[cproc[c]] = "fired"
                          \/ cpc[c] \in {"delete", "stop", "script"}
  \/ \E o \in Operators : opc[o] \in {"cancel", "del"}

(* Without a fault or a restart no message is left in the buffer with nobody
   to flush it, although timers are stopped, overwritten and deleted by
   calls that run concurrently.                                             *)
NeverForgotten == Held # {} /\ ~orphan => Keeper

(* The safety net of Flush: a batch taken while the chat was already handed
   over, and not given back since, never becomes a turn (unless the
   Snapshot itself failed).                                                 *)
NoColdTurn == \A c \in Callbacks : cpc[c] = "publish" => ~ccold[c]

(* A buffer that holds messages is emptied, by a flush or a cancellation,
   unless a fault takes its timer.                                          *)
BufferDrains == Held # {} /\ ~orphan ~> Held = {} \/ orphan

-----------------------------------------------------------------------------
(* The stage of module Turns a message is in. *)
Fate(m) ==
  CASE turned[m] > 0 -> "turned"
    [] turned[m] = 0 /\ (m \in Held \/ \E c \in Callbacks : cbatch[c][m] > 0) -> "held"
    [] OTHER -> IF m \notin recorded THEN "new"
                ELSE IF \E h \in Handlers : hmsg[h] = m /\ hpc[h] \in {"tell", "push"}
                     THEN "open" ELSE "lost"

T == INSTANCE Turns WITH fate <- [m \in Messages |-> Fate(m)]

(* The inbound path implements module Turns: no message moves backwards or
   skips a stage, whatever Process, the timers, the handoff and the faults
   do to it.                                                                *)
ImplementsTurns == T!Spec
=============================================================================
