--------------------------- MODULE InboundProofs ---------------------------
(***************************************************************************)
(* Proofs about Inbound, for any number of replicas, messages, concurrent   *)
(* calls and faults.                                                        *)
(***************************************************************************)
EXTENDS Inbound, TLAPS

USE InboundAssumption

-----------------------------------------------------------------------------
(* Types.                                                                   *)

LEMMA NothingType == Nothing \in [Messages -> Nat]
BY DEF Nothing

(* What the helpers do to the calls. *)
LEMMA HStepType ==
  ASSUME NEW h \in Handlers, NEW from \in HStages, NEW to \in HStages, HandlerType,
         HStep(h, from, to), from # "idle", to # "idle",
         to \in {"push", "set", "arm"} => hgate[h]
  PROVE  HandlerType'
BY DEF HStep, HandlerType

LEMMA HReturnType ==
  ASSUME NEW h \in Handlers, NEW from \in HStages, HandlerType, HReturn(h, from)
  PROVE  HandlerType'
BY DEF HReturn, HandlerType, HStages

LEMMA CStepType ==
  ASSUME NEW c \in Callbacks, NEW from \in CStages, NEW to \in CStages, CallbackType,
         CStep(c, from, to), from # "idle", to # "idle"
  PROVE  CallbackType'
BY DEF CStep, CallbackType

LEMMA CReturnType ==
  ASSUME NEW c \in Callbacks, NEW from \in CStages, CallbackType, CReturn(c, from)
  PROVE  CallbackType'
BY NothingType DEF CReturn, CallbackType, CStages

LEMMA OReturnType ==
  ASSUME NEW o \in Operators, OperatorType, OReturn(o)
  PROVE  OperatorType'
BY DEF OReturn, OperatorType, OStages

(* The parts of the state an action leaves alone. *)
LEMMA KeptTypes ==
  ASSUME TypeOK
  PROVE  /\ UNCHANGED chat => ChatType'
         /\ UNCHANGED redis => RedisType'
         /\ UNCHANGED timers => TimerType'
         /\ UNCHANGED hvars => HandlerType'
         /\ UNCHANGED cvars => CallbackType'
         /\ UNCHANGED ovars => OperatorType'
         /\ UNCHANGED output => OutputType'
         /\ UNCHANGED bounds => BoundsType'
<1>1. UNCHANGED chat => ChatType'
  BY DEF chat, TypeOK, ChatType
<1>2. UNCHANGED redis => RedisType'
  BY DEF redis, TypeOK, RedisType
<1>3. UNCHANGED timers => TimerType'
  BY DEF timers, TypeOK, TimerType
<1>4. UNCHANGED hvars => HandlerType'
  BY DEF hvars, TypeOK, HandlerType
<1>5. UNCHANGED cvars => CallbackType'
  BY DEF cvars, TypeOK, CallbackType
<1>6. UNCHANGED ovars => OperatorType'
  BY DEF ovars, TypeOK, OperatorType
<1>7. UNCHANGED output => OutputType'
  BY DEF output, TypeOK, OutputType
<1>8. UNCHANGED bounds => BoundsType'
  BY DEF bounds, TypeOK, BoundsType
<1> QED
  BY <1>1, <1>2, <1>3, <1>4, <1>5, <1>6, <1>7, <1>8

LEMMA ArriveType ==
  ASSUME NEW h \in Handlers, NEW p \in Procs, NEW m \in Messages, TypeOK, Arrive(h, p, m)
  PROVE  TypeOK'
<1>1. ChatType'
  BY DEF TypeOK, ChatType, Arrive
<1>2. HandlerType'
  BY DEF TypeOK, HandlerType, Arrive, HStages
<1> QED
  BY <1>1, <1>2, KeptTypes DEF TypeOK, Arrive, bounds, cvars, output, ovars, redis, timers

LEMMA DeduplicateType ==
  ASSUME NEW h \in Handlers, TypeOK, Deduplicate(h)
  PROVE  TypeOK'
<1>1. ChatType'
  BY DEF TypeOK, ChatType, Deduplicate, HStep, HReturn, HandlerType
<1>2. HandlerType'
  BY HStepType, HReturnType DEF TypeOK, HandlerType, Deduplicate, HStages
<1> QED
  BY <1>1, <1>2, KeptTypes DEF TypeOK, Deduplicate, bounds, cvars, output, ovars, redis, timers

LEMMA RecordType ==
  ASSUME NEW h \in Handlers, TypeOK, Record(h)
  PROVE  TypeOK'
<1>1. ChatType'
  BY DEF TypeOK, ChatType, Record, HandlerType
<1>2. HandlerType'
  <2>1. CASE hmsg[h] \in recorded
    BY <2>1, HReturnType DEF TypeOK, Record, HStages
  <2>2. CASE hmsg[h] \notin recorded
    <3>1. PICK gate \in BOOLEAN : hgate' = [hgate EXCEPT ![h] = gate]
      BY <2>2 DEF Record
    <3> QED
      BY <2>2, <3>1 DEF TypeOK, HandlerType, Record, HStages
  <2> QED
    BY <2>1, <2>2
<1> QED
  BY <1>1, <1>2, KeptTypes DEF TypeOK, Record, bounds, cvars, output, ovars, redis, timers

LEMMA TellType ==
  ASSUME NEW h \in Handlers, TypeOK, Tell(h)
  PROVE  TypeOK'
<1>1. HandlerType'
  BY HStepType, HReturnType DEF TypeOK, HandlerType, Tell, HStages
<1>2. OutputType'
  BY DEF TypeOK, OutputType, Tell, HandlerType
<1> QED
  BY <1>1, <1>2, KeptTypes DEF TypeOK, Tell, bounds, chat, cvars, ovars, redis, timers

LEMMA PushType ==
  ASSUME NEW h \in Handlers, TypeOK, Push(h)
  PROVE  TypeOK'
<1>1. HandlerType'
  BY HStepType DEF TypeOK, HandlerType, Push, HStages, HandlerType, HStep
<1>2. RedisType'
  BY DEF TypeOK, RedisType, Push, HandlerType, HStep
<1> QED
  BY <1>1, <1>2, KeptTypes DEF TypeOK, Push, bounds, chat, cvars, output, ovars, timers

LEMMA SetWindowType ==
  ASSUME NEW h \in Handlers, TypeOK, SetWindow(h)
  PROVE  TypeOK'
<1>1. HandlerType'
  BY HStepType DEF TypeOK, HandlerType, SetWindow, HStages, HandlerType, HStep
<1>2. RedisType'
  BY DEF TypeOK, RedisType, SetWindow
<1> QED
  BY <1>1, <1>2, KeptTypes DEF TypeOK, SetWindow, bounds, chat, cvars, output, ovars, timers

LEMMA ArmType ==
  ASSUME NEW h \in Handlers, TypeOK, Arm(h)
  PROVE  TypeOK'
<1>1. HandlerType'
  BY HReturnType DEF TypeOK, HandlerType, Arm, HStages
<1>2. TimerType'
  BY DEF TypeOK, TimerType, Arm, HandlerType, HReturn
<1> QED
  BY <1>1, <1>2, KeptTypes DEF TypeOK, Arm, bounds, chat, cvars, output, ovars, redis

LEMMA FireType ==
  ASSUME NEW c \in Callbacks, NEW p \in Procs, TypeOK, Fire(c, p)
  PROVE  TypeOK'
<1>1. CallbackType'
  BY DEF TypeOK, CallbackType, Fire, CStages
<1>2. TimerType'
  BY DEF TypeOK, TimerType, Fire
<1> QED
  BY <1>1, <1>2, KeptTypes DEF TypeOK, Fire, bounds, chat, hvars, output, ovars, redis

LEMMA CheckType ==
  ASSUME NEW c \in Callbacks, TypeOK, Check(c)
  PROVE  TypeOK'
<1>1. CallbackType'
  BY CStepType DEF TypeOK, CallbackType, Check, CStages
<1> QED
  BY <1>1, KeptTypes DEF TypeOK, Check, bounds, chat, hvars, output, ovars, redis, timers

LEMMA RescheduleType ==
  ASSUME NEW c \in Callbacks, TypeOK, Reschedule(c)
  PROVE  TypeOK'
<1>1. CallbackType'
  BY CReturnType DEF TypeOK, CallbackType, Reschedule, CStages
<1>2. TimerType'
  BY DEF TypeOK, TimerType, Reschedule, CallbackType, CReturn
<1> QED
  BY <1>1, <1>2, KeptTypes DEF TypeOK, Reschedule, bounds, chat, hvars, output, ovars, redis

LEMMA DeleteTimerType ==
  ASSUME NEW c \in Callbacks, TypeOK, DeleteTimer(c)
  PROVE  TypeOK'
<1>1. CallbackType'
  BY CStepType DEF TypeOK, CallbackType, DeleteTimer, CStages
<1>2. TimerType'
  BY DEF TypeOK, TimerType, DeleteTimer, CallbackType, CStep
<1> QED
  BY <1>1, <1>2, KeptTypes DEF TypeOK, DeleteTimer, bounds, chat, hvars, output, ovars, redis

LEMMA StopTimerType ==
  ASSUME NEW c \in Callbacks, TypeOK, StopTimer(c)
  PROVE  TypeOK'
<1>1. CallbackType'
  BY CStepType DEF TypeOK, CallbackType, StopTimer, CStages
<1>2. TimerType'
  BY DEF TypeOK, TimerType, StopTimer, CallbackType, CStep
<1> QED
  BY <1>1, <1>2, KeptTypes DEF TypeOK, StopTimer, bounds, chat, hvars, output, ovars, redis

LEMMA TakeAllType ==
  ASSUME NEW c \in Callbacks, TypeOK, TakeAll(c)
  PROVE  TypeOK'
<1>1. CallbackType'
  BY CReturnType DEF TypeOK, CallbackType, TakeAll, CStages, RedisType
<1>2. RedisType'
  BY NothingType DEF TypeOK, RedisType, TakeAll, redis
<1> QED
  BY <1>1, <1>2, KeptTypes DEF TypeOK, TakeAll, bounds, chat, hvars, output, ovars, timers

LEMMA SnapshotType ==
  ASSUME NEW c \in Callbacks, TypeOK, Snapshot(c)
  PROVE  TypeOK'
<1>1. CallbackType'
  BY CStepType, CReturnType DEF TypeOK, CallbackType, Snapshot, CStages
<1> QED
  BY <1>1, KeptTypes DEF TypeOK, Snapshot, bounds, chat, hvars, output, ovars, redis, timers

LEMMA PublishTurnType ==
  ASSUME NEW c \in Callbacks, TypeOK, PublishTurn(c)
  PROVE  TypeOK'
<1>1. CallbackType'
  BY CReturnType DEF TypeOK, CallbackType, PublishTurn, CStages
<1>2. OutputType'
  BY DEF TypeOK, OutputType, PublishTurn, CallbackType
<1> QED
  BY <1>1, <1>2, KeptTypes DEF TypeOK, PublishTurn, bounds, chat, hvars, ovars, redis, timers

LEMMA CancelTimerType ==
  ASSUME NEW o \in Operators, TypeOK, CancelTimer(o)
  PROVE  TypeOK'
<1>1. OperatorType'
  BY DEF TypeOK, OperatorType, CancelTimer, OStages
<1>2. TimerType'
  BY DEF TypeOK, TimerType, CancelTimer, OperatorType
<1> QED
  BY <1>1, <1>2, KeptTypes DEF TypeOK, CancelTimer, bounds, chat, cvars, hvars, output, redis

LEMMA CancelKeysType ==
  ASSUME NEW o \in Operators, TypeOK, CancelKeys(o)
  PROVE  TypeOK'
<1>1. OperatorType'
  BY OReturnType DEF TypeOK, OperatorType, CancelKeys
<1>2. RedisType'
  BY NothingType DEF TypeOK, RedisType, CancelKeys
<1> QED
  BY <1>1, <1>2, KeptTypes DEF TypeOK, CancelKeys, bounds, chat, cvars, hvars, output, timers

LEMMA WindowExpiresType ==
  ASSUME TypeOK, WindowExpires
  PROVE  TypeOK'
<1>1. RedisType'
  BY DEF TypeOK, RedisType, WindowExpires
<1> QED
  BY <1>1, KeptTypes
  DEF TypeOK, WindowExpires, bounds, chat, cvars, hvars, output, ovars, timers

LEMMA PauseLapsesType ==
  ASSUME TypeOK, PauseLapses
  PROVE  TypeOK'
<1>1. ChatType'
  BY DEF TypeOK, ChatType, PauseLapses, Modes
<1>2. CallbackType'
  BY DEF TypeOK, CallbackType, PauseLapses
<1> QED
  BY <1>1, <1>2, KeptTypes DEF TypeOK, PauseLapses, bounds, hvars, output, ovars, redis, timers

LEMMA ListExpiresType ==
  ASSUME TypeOK, ListExpires
  PROVE  TypeOK'
<1>1. RedisType'
  BY NothingType DEF TypeOK, RedisType, ListExpires
<1> QED
  BY <1>1, KeptTypes DEF TypeOK, ListExpires, bounds, chat, cvars, hvars, output, ovars, timers

LEMMA CommitAIType ==
  ASSUME NEW o \in Operators, NEW p \in Procs, NEW mode \in Modes, NEW cancel \in BOOLEAN,
         TypeOK, CommitAI(o, p, mode, cancel)
  PROVE  TypeOK'
<1>1. ChatType'
  BY DEF TypeOK, ChatType, CommitAI
<1>2. OperatorType'
  BY DEF TypeOK, OperatorType, CommitAI, OStages
<1>3. CallbackType'
  BY DEF TypeOK, CallbackType, CommitAI
<1>4. BoundsType'
  BY DEF TypeOK, BoundsType, CommitAI
<1> QED
  BY <1>1, <1>2, <1>3, <1>4, KeptTypes DEF TypeOK, CommitAI

(* Both operator calls are a CommitAI. *)
LEMMA OperatorCalls ==
  ASSUME TypeOK, NEW o \in Operators, NEW p \in Procs,
         HumanReply(o, p) \/ \E mode \in {"active", "paused", "off"} : SetAI(o, p, mode)
  PROVE  \E mode \in {"active", "paused", "off"}, cancel \in BOOLEAN : CommitAI(o, p, mode, cancel)
<1>1. CASE HumanReply(o, p)
  <2>1. CASE Engaged
    <3>1. CommitAI(o, p, IF ai = "off" THEN "off" ELSE "paused", TRUE)
      BY <1>1, <2>1 DEF HumanReply, CommitAI
    <3> QED
      BY <3>1
  <2>2. CASE ~Engaged
    <3>1. CommitAI(o, p, IF ai = "off" THEN "off" ELSE "paused", FALSE)
      BY <1>1, <2>2 DEF HumanReply, CommitAI
    <3> QED
      BY <3>1
  <2> QED
    BY <2>1, <2>2
<1>2. CASE \E mode \in {"active", "paused", "off"} : SetAI(o, p, mode)
  BY <1>2 DEF SetAI
<1> QED
  BY <1>1, <1>2


LEMMA DedupFailsType ==
  ASSUME NEW h \in Handlers, TypeOK, DedupFails(h), BoundsType'
  PROVE  TypeOK'
<1>1. HandlerType'
  BY HReturnType DEF TypeOK, HandlerType, DedupFails, HStages
<1> QED
  BY <1>1, KeptTypes DEF TypeOK, DedupFails, chat, cvars, output, ovars, redis, timers

LEMMA RecordFailsType ==
  ASSUME NEW h \in Handlers, TypeOK, RecordFails(h), BoundsType'
  PROVE  TypeOK'
<1>1. HandlerType'
  BY HStepType DEF TypeOK, HandlerType, RecordFails, HStages
<1> QED
  BY <1>1, KeptTypes DEF TypeOK, RecordFails, chat, cvars, output, ovars, redis, timers

LEMMA TellFailsType ==
  ASSUME NEW h \in Handlers, TypeOK, TellFails(h), BoundsType'
  PROVE  TypeOK'
<1>1. HandlerType'
  BY HReturnType DEF TypeOK, HandlerType, TellFails, HStages
<1> QED
  BY <1>1, KeptTypes DEF TypeOK, TellFails, chat, cvars, output, ovars, redis, timers

LEMMA EnqueueFailsType ==
  ASSUME NEW h \in Handlers, TypeOK, EnqueueFails(h), BoundsType'
  PROVE  TypeOK'
<1>1. HandlerType'
  BY HReturnType DEF TypeOK, HandlerType, EnqueueFails, HStages
<1>2. RedisType'
  BY DEF TypeOK, RedisType, EnqueueFails, Leave
<1> QED
  BY <1>1, <1>2, KeptTypes DEF TypeOK, EnqueueFails, chat, cvars, output, ovars, timers

LEMMA ScriptFailsType ==
  ASSUME NEW c \in Callbacks, TypeOK, ScriptFails(c), BoundsType'
  PROVE  TypeOK'
<1>1. CallbackType'
  BY CReturnType DEF TypeOK, CallbackType, ScriptFails, CStages
<1>2. RedisType'
  BY DEF TypeOK, RedisType, ScriptFails, Leave
<1> QED
  BY <1>1, <1>2, KeptTypes DEF TypeOK, ScriptFails, chat, hvars, output, ovars, timers

LEMMA SnapshotFailsType ==
  ASSUME NEW c \in Callbacks, TypeOK, SnapshotFails(c), BoundsType'
  PROVE  TypeOK'
<1>1. CallbackType'
  BY DEF TypeOK, CallbackType, SnapshotFails, CStages
<1> QED
  BY <1>1, KeptTypes DEF TypeOK, SnapshotFails, chat, hvars, output, ovars, redis, timers

LEMMA PublishFailsType ==
  ASSUME NEW c \in Callbacks, TypeOK, PublishFails(c), BoundsType'
  PROVE  TypeOK'
<1>1. CallbackType'
  BY CReturnType DEF TypeOK, CallbackType, PublishFails, CStages
<1> QED
  BY <1>1, KeptTypes DEF TypeOK, PublishFails, chat, hvars, output, ovars, redis, timers

LEMMA CancelFailsType ==
  ASSUME NEW o \in Operators, TypeOK, CancelFails(o), BoundsType'
  PROVE  TypeOK'
<1>1. OperatorType'
  BY OReturnType DEF TypeOK, OperatorType, CancelFails
<1>2. RedisType'
  BY DEF TypeOK, RedisType, CancelFails, Leave
<1> QED
  BY <1>1, <1>2, KeptTypes DEF TypeOK, CancelFails, chat, cvars, hvars, output, timers

LEMMA RestartType ==
  ASSUME NEW p \in Procs, TypeOK, Restart(p), BoundsType'
  PROVE  TypeOK'
<1>1. HandlerType'
  BY DEF TypeOK, HandlerType, Restart, HStages
<1>2. CallbackType'
  BY NothingType DEF TypeOK, CallbackType, Restart, CStages
<1>3. OperatorType'
  BY DEF TypeOK, OperatorType, Restart, OStages
<1>4. TimerType'
  BY DEF TypeOK, TimerType, Restart
<1>5. RedisType'
  BY DEF TypeOK, RedisType, Restart, Leave
<1> QED
  BY <1>1, <1>2, <1>3, <1>4, <1>5, KeptTypes DEF TypeOK, Restart, chat, output

LEMMA FaultType ==
  ASSUME TypeOK, Fault
  PROVE  TypeOK'
<1>1. BoundsType'
  BY DEF Fault, TypeOK, BoundsType
<1>2. ASSUME NEW h \in Handlers, DedupFails(h) PROVE TypeOK'
  BY <1>2, <1>1, DedupFailsType
<1>3. ASSUME NEW h \in Handlers, RecordFails(h) PROVE TypeOK'
  BY <1>3, <1>1, RecordFailsType
<1>4. ASSUME NEW h \in Handlers, TellFails(h) PROVE TypeOK'
  BY <1>4, <1>1, TellFailsType
<1>5. ASSUME NEW h \in Handlers, EnqueueFails(h) PROVE TypeOK'
  BY <1>5, <1>1, EnqueueFailsType
<1>6. ASSUME NEW c \in Callbacks, ScriptFails(c) PROVE TypeOK'
  BY <1>6, <1>1, ScriptFailsType
<1>7. ASSUME NEW c \in Callbacks, SnapshotFails(c) PROVE TypeOK'
  BY <1>7, <1>1, SnapshotFailsType
<1>8. ASSUME NEW c \in Callbacks, PublishFails(c) PROVE TypeOK'
  BY <1>8, <1>1, PublishFailsType
<1>9. ASSUME NEW o \in Operators, CancelFails(o) PROVE TypeOK'
  BY <1>9, <1>1, CancelFailsType
<1>10. ASSUME NEW p \in Procs, Restart(p) PROVE TypeOK'
  BY <1>10, <1>1, RestartType
<1> QED
  BY <1>2, <1>3, <1>4, <1>5, <1>6, <1>7, <1>8, <1>9, <1>10 DEF Fault

LEMMA TypeStep ==
  ASSUME TypeOK, [Next]_vars
  PROVE  TypeOK'
<1>1. ASSUME NEW h \in Handlers, NEW p \in Procs, NEW m \in Messages, Arrive(h, p, m)
      PROVE  TypeOK'
  BY <1>1, ArriveType
<1>2. ASSUME NEW h \in Handlers, Deduplicate(h) PROVE TypeOK'
  BY <1>2, DeduplicateType
<1>3. ASSUME NEW h \in Handlers, Record(h) PROVE TypeOK'
  BY <1>3, RecordType
<1>4. ASSUME NEW h \in Handlers, Tell(h) PROVE TypeOK'
  BY <1>4, TellType
<1>5. ASSUME NEW h \in Handlers, Push(h) PROVE TypeOK'
  BY <1>5, PushType
<1>6. ASSUME NEW h \in Handlers, SetWindow(h) PROVE TypeOK'
  BY <1>6, SetWindowType
<1>7. ASSUME NEW h \in Handlers, Arm(h) PROVE TypeOK'
  BY <1>7, ArmType
<1>8. ASSUME NEW c \in Callbacks, NEW p \in Procs, Fire(c, p) PROVE TypeOK'
  BY <1>8, FireType
<1>9. ASSUME NEW c \in Callbacks, Check(c) PROVE TypeOK'
  BY <1>9, CheckType
<1>10. ASSUME NEW c \in Callbacks, Reschedule(c) PROVE TypeOK'
  BY <1>10, RescheduleType
<1>11. ASSUME NEW c \in Callbacks, DeleteTimer(c) PROVE TypeOK'
  BY <1>11, DeleteTimerType
<1>12. ASSUME NEW c \in Callbacks, StopTimer(c) PROVE TypeOK'
  BY <1>12, StopTimerType
<1>13. ASSUME NEW c \in Callbacks, TakeAll(c) PROVE TypeOK'
  BY <1>13, TakeAllType
<1>14. ASSUME NEW c \in Callbacks, Snapshot(c) PROVE TypeOK'
  BY <1>14, SnapshotType
<1>15. ASSUME NEW c \in Callbacks, PublishTurn(c) PROVE TypeOK'
  BY <1>15, PublishTurnType
<1>16. ASSUME NEW o \in Operators, CancelTimer(o) PROVE TypeOK'
  BY <1>16, CancelTimerType
<1>17. ASSUME NEW o \in Operators, CancelKeys(o) PROVE TypeOK'
  BY <1>17, CancelKeysType
<1>18. CASE WindowExpires
  BY <1>18, WindowExpiresType
<1>19. CASE PauseLapses
  BY <1>19, PauseLapsesType
<1>20. CASE ListExpires
  BY <1>20, ListExpiresType
<1>21. ASSUME NEW o \in Operators, NEW p \in Procs,
          HumanReply(o, p) \/ \E mode \in {"active", "paused", "off"} : SetAI(o, p, mode)
   PROVE  TypeOK'
  BY <1>21, OperatorCalls, CommitAIType DEF Modes
<1>22. CASE Fault
  BY <1>22, FaultType
<1>23. CASE UNCHANGED vars
  BY <1>23, KeptTypes DEF vars, TypeOK
<1> QED
  BY <1>1, <1>2, <1>3, <1>4, <1>5, <1>6, <1>7, <1>8, <1>9, <1>10, <1>11, <1>12, <1>13, <1>14,
     <1>15, <1>16, <1>17, <1>18, <1>19, <1>20, <1>21, <1>22, <1>23
  DEF Next, HandlerStep, CallbackStep, OperatorStep

LEMMA TypeInit == Init => TypeOK
<1> SUFFICES ASSUME Init PROVE TypeOK
  OBVIOUS
<1>1. HandlerType
  BY DEF Init, HandlerType, HStages
<1>2. CallbackType
  BY NothingType DEF Init, CallbackType, CStages
<1>3. OperatorType
  BY DEF Init, OperatorType, OStages
<1>4. ChatType /\ BoundsType
  BY DEF Init, ChatType, Modes, BoundsType
<1>5. RedisType /\ OutputType
  BY NothingType DEF Init, RedisType, OutputType
<1>6. TimerType
  BY DEF Init, TimerType
<1> QED
  BY <1>1, <1>2, <1>3, <1>4, <1>5, <1>6 DEF TypeOK

(* The type invariant of Inbound: a call under way keeps its replica and its
   message, and Process enqueues only what the AI may act on.               *)
THEOREM TypeCorrect == Spec => []TypeOK
<1>1. TypeOK /\ [Next]_vars => TypeOK'
  BY TypeStep
<1> QED
  BY <1>1, TypeInit, PTL DEF Spec

-----------------------------------------------------------------------------
(* Nobody is forgotten.                                                     *)

LEMMA KeptStep ==
  ASSUME TypeOK, NeverForgotten, [Next]_vars
  PROVE  NeverForgotten'
<1>1. ASSUME NEW h \in Handlers, NEW p \in Procs, NEW m \in Messages, Arrive(h, p, m)
      PROVE  NeverForgotten'
  BY <1>1
  DEF Arrive, NeverForgotten, Keeper, Held, cvars, ovars, redis, timers, TypeOK, HandlerType,
      CallbackType, OperatorType, TimerType, RedisType
<1>2. ASSUME NEW h \in Handlers, Deduplicate(h) PROVE NeverForgotten'
  BY <1>2
  DEF Deduplicate, HStep, HReturn, NeverForgotten, Keeper, Held, cvars, ovars, redis, timers,
      TypeOK, HandlerType, CallbackType, OperatorType, TimerType, RedisType
<1>3. ASSUME NEW h \in Handlers, Record(h) PROVE NeverForgotten'
  BY <1>3
  DEF Record, HReturn, NeverForgotten, Keeper, Held, cvars, ovars, redis, timers, TypeOK,
      HandlerType, CallbackType, OperatorType, TimerType, RedisType
<1>4. ASSUME NEW h \in Handlers, Tell(h) PROVE NeverForgotten'
  BY <1>4
  DEF Tell, HStep, HReturn, NeverForgotten, Keeper, Held, cvars, ovars, redis, timers, TypeOK,
      HandlerType, CallbackType, OperatorType, TimerType, RedisType
<1>5. ASSUME NEW h \in Handlers, Push(h) PROVE NeverForgotten'
  BY <1>5
  DEF Push, HStep, NeverForgotten, Keeper, Held, cvars, ovars, timers, TypeOK, HandlerType,
      CallbackType, OperatorType, TimerType, RedisType
<1>6. ASSUME NEW h \in Handlers, SetWindow(h) PROVE NeverForgotten'
  BY <1>6
  DEF SetWindow, HStep, NeverForgotten, Keeper, Held, cvars, ovars, timers, TypeOK,
      HandlerType, CallbackType, OperatorType, TimerType, RedisType
<1>7. ASSUME NEW h \in Handlers, Arm(h) PROVE NeverForgotten'
  BY <1>7
  DEF Arm, HReturn, NeverForgotten, Keeper, Held, cvars, ovars, redis, TypeOK, HandlerType,
      CallbackType, OperatorType, TimerType, RedisType
<1>8. ASSUME NEW c \in Callbacks, NEW p \in Procs, Fire(c, p) PROVE NeverForgotten'
  BY <1>8
  DEF Fire, NeverForgotten, Keeper, Held, hvars, ovars, redis, TypeOK, HandlerType,
      CallbackType, OperatorType, TimerType, RedisType
<1>9. ASSUME NEW c \in Callbacks, Check(c) PROVE NeverForgotten'
  BY <1>9
  DEF Check, CStep, NeverForgotten, Keeper, Held, hvars, ovars, redis, timers, TypeOK,
      HandlerType, CallbackType, OperatorType, TimerType, RedisType
<1>10. ASSUME NEW c \in Callbacks, Reschedule(c) PROVE NeverForgotten'
  BY <1>10
  DEF Reschedule, CReturn, NeverForgotten, Keeper, Held, hvars, ovars, redis, TypeOK,
      HandlerType, CallbackType, OperatorType, TimerType, RedisType
<1>11. ASSUME NEW c \in Callbacks, DeleteTimer(c) PROVE NeverForgotten'
  BY <1>11
  DEF DeleteTimer, CStep, NeverForgotten, Keeper, Held, hvars, ovars, redis, TypeOK,
      HandlerType, CallbackType, OperatorType, TimerType, RedisType
<1>12. ASSUME NEW c \in Callbacks, StopTimer(c) PROVE NeverForgotten'
  BY <1>12
  DEF StopTimer, CStep, NeverForgotten, Keeper, Held, hvars, ovars, redis, TypeOK,
      HandlerType, CallbackType, OperatorType, TimerType, RedisType
<1>13. ASSUME NEW c \in Callbacks, TakeAll(c) PROVE NeverForgotten'
  BY <1>13
  DEF TakeAll, CReturn, NeverForgotten, Keeper, Held, hvars, ovars, redis, timers, TypeOK,
      HandlerType, CallbackType, OperatorType, TimerType, RedisType, Nothing
<1>14. ASSUME NEW c \in Callbacks, Snapshot(c) PROVE NeverForgotten'
  BY <1>14
  DEF Snapshot, CStep, CReturn, NeverForgotten, Keeper, Held, hvars, ovars, redis, timers,
      TypeOK, HandlerType, CallbackType, OperatorType, TimerType, RedisType
<1>15. ASSUME NEW c \in Callbacks, PublishTurn(c) PROVE NeverForgotten'
  BY <1>15
  DEF PublishTurn, CReturn, NeverForgotten, Keeper, Held, hvars, ovars, redis, timers, TypeOK,
      HandlerType, CallbackType, OperatorType, TimerType, RedisType
<1>16. ASSUME NEW o \in Operators, CancelTimer(o) PROVE NeverForgotten'
  BY <1>16
  DEF CancelTimer, NeverForgotten, Keeper, Held, hvars, cvars, redis, TypeOK, HandlerType,
      CallbackType, OperatorType, TimerType, RedisType
<1>17. ASSUME NEW o \in Operators, CancelKeys(o) PROVE NeverForgotten'
  BY <1>17
  DEF CancelKeys, OReturn, NeverForgotten, Keeper, Held, hvars, cvars, timers, TypeOK,
      HandlerType, CallbackType, OperatorType, TimerType, RedisType, Nothing
<1>18. CASE WindowExpires
  BY <1>18
  DEF WindowExpires, NeverForgotten, Keeper, Held, hvars, cvars, ovars, timers, TypeOK,
      HandlerType, CallbackType, OperatorType, TimerType, RedisType
<1>19. CASE PauseLapses
  BY <1>19
  DEF PauseLapses, NeverForgotten, Keeper, Held, hvars, ovars, redis, timers, TypeOK,
      HandlerType, CallbackType, OperatorType, TimerType, RedisType
<1>20. CASE ListExpires
  BY <1>20
  DEF ListExpires, NeverForgotten, Keeper, Held, hvars, cvars, ovars, timers, TypeOK,
      HandlerType, CallbackType, OperatorType, TimerType, RedisType, Nothing
<1>21. ASSUME NEW h \in Handlers, DedupFails(h) PROVE NeverForgotten'
  BY <1>21
  DEF DedupFails, HReturn, NeverForgotten, Keeper, Held, cvars, ovars, redis, timers, TypeOK,
      HandlerType, CallbackType, OperatorType, TimerType, RedisType
<1>22. ASSUME NEW h \in Handlers, RecordFails(h) PROVE NeverForgotten'
  BY <1>22
  DEF RecordFails, HStep, NeverForgotten, Keeper, Held, cvars, ovars, redis, timers, TypeOK,
      HandlerType, CallbackType, OperatorType, TimerType, RedisType
<1>23. ASSUME NEW h \in Handlers, TellFails(h) PROVE NeverForgotten'
  BY <1>23
  DEF TellFails, HReturn, NeverForgotten, Keeper, Held, cvars, ovars, redis, timers, TypeOK,
      HandlerType, CallbackType, OperatorType, TimerType, RedisType
<1>24. ASSUME NEW h \in Handlers, EnqueueFails(h) PROVE NeverForgotten'
  BY <1>24
  DEF EnqueueFails, HReturn, Leave, NeverForgotten, Keeper, Held, cvars, ovars, timers,
      TypeOK, HandlerType, CallbackType, OperatorType, TimerType, RedisType
<1>25. ASSUME NEW c \in Callbacks, ScriptFails(c) PROVE NeverForgotten'
  BY <1>25
  DEF ScriptFails, CReturn, Leave, NeverForgotten, Keeper, Held, hvars, ovars, timers, TypeOK,
      HandlerType, CallbackType, OperatorType, TimerType, RedisType
<1>26. ASSUME NEW c \in Callbacks, SnapshotFails(c) PROVE NeverForgotten'
  BY <1>26
  DEF SnapshotFails, NeverForgotten, Keeper, Held, hvars, ovars, redis, timers, TypeOK,
      HandlerType, CallbackType, OperatorType, TimerType, RedisType
<1>27. ASSUME NEW c \in Callbacks, PublishFails(c) PROVE NeverForgotten'
  BY <1>27
  DEF PublishFails, CReturn, NeverForgotten, Keeper, Held, hvars, ovars, redis, timers,
      TypeOK, HandlerType, CallbackType, OperatorType, TimerType, RedisType
<1>28. ASSUME NEW o \in Operators, CancelFails(o) PROVE NeverForgotten'
  BY <1>28
  DEF CancelFails, OReturn, Leave, NeverForgotten, Keeper, Held, hvars, cvars, timers, TypeOK,
      HandlerType, CallbackType, OperatorType, TimerType, RedisType
<1>29. ASSUME NEW p \in Procs, Restart(p) PROVE NeverForgotten'
  BY <1>29
  DEF Restart, Leave, NeverForgotten, Keeper, Held, TypeOK, HandlerType, CallbackType,
      OperatorType, TimerType, RedisType
<1>30. ASSUME NEW o \in Operators, NEW p \in Procs,
          HumanReply(o, p) \/ \E mode \in {"active", "paused", "off"} : SetAI(o, p, mode)
   PROVE  NeverForgotten'
  <2>1. PICK mode \in {"active", "paused", "off"}, cancel \in BOOLEAN : CommitAI(o, p, mode, cancel)
    BY <1>30, OperatorCalls
  <2> QED
    BY <2>1
    DEF CommitAI, NeverForgotten, Keeper, Held, hvars, redis, timers, TypeOK, HandlerType,
        CallbackType, OperatorType, TimerType, RedisType
<1>31. CASE UNCHANGED vars
  BY <1>31
  DEF vars, NeverForgotten, Keeper, Held, hvars, cvars, ovars, redis, timers, TypeOK,
      HandlerType, CallbackType, OperatorType, TimerType, RedisType
<1> QED
  BY <1>1, <1>2, <1>3, <1>4, <1>5, <1>6, <1>7, <1>8, <1>9, <1>10, <1>11, <1>12, <1>13, <1>14,
     <1>15, <1>16, <1>17, <1>18, <1>19, <1>20, <1>21, <1>22, <1>23, <1>24, <1>25, <1>26,
     <1>27, <1>28, <1>29, <1>30, <1>31
  DEF Next, HandlerStep, CallbackStep, OperatorStep, Fault

(* The buffer has a keeper after any interleaving of Enqueue, checkAndFlush,
   Flush and Cancel on any number of replicas, unless a fault took it.      *)
THEOREM KeptForFlush == Spec => []NeverForgotten
<1>1. Init => NeverForgotten
  BY DEF Init, NeverForgotten, Held, Nothing
<1>2. TypeOK /\ NeverForgotten /\ [Next]_vars => NeverForgotten'
  BY KeptStep
<1> QED
  BY <1>1, <1>2, TypeCorrect, PTL DEF Spec

-----------------------------------------------------------------------------
(* No turn for a chat that was handed over before it was taken.             *)

(* A batch counts as cold only while no AI is engaged. *)
ColdInv == NoColdTurn /\ \A c \in Callbacks : ccold[c] => ~Engaged

LEMMA ColdStep ==
  ASSUME TypeOK, ColdInv, [Next]_vars
  PROVE  ColdInv'
<1>1. ASSUME NEW h \in Handlers, NEW p \in Procs, NEW m \in Messages, Arrive(h, p, m)
      PROVE  ColdInv'
  BY <1>1 DEF Arrive, ColdInv, NoColdTurn, Engaged, cvars, TypeOK, CallbackType, ChatType, Modes
<1>2. ASSUME NEW h \in Handlers, Deduplicate(h) PROVE ColdInv'
  BY <1>2
  DEF Deduplicate, HStep, HReturn, ColdInv, NoColdTurn, Engaged, cvars, TypeOK, CallbackType,
      ChatType, Modes
<1>3. ASSUME NEW h \in Handlers, Record(h) PROVE ColdInv'
  BY <1>3
  DEF Record, HReturn, ColdInv, NoColdTurn, Engaged, cvars, TypeOK, CallbackType, ChatType,
      Modes
<1>4. ASSUME NEW h \in Handlers, Tell(h) PROVE ColdInv'
  BY <1>4
  DEF Tell, HStep, HReturn, ColdInv, NoColdTurn, Engaged, cvars, chat, TypeOK, CallbackType,
      ChatType, Modes
<1>5. ASSUME NEW h \in Handlers, Push(h) PROVE ColdInv'
  BY <1>5
  DEF Push, HStep, ColdInv, NoColdTurn, Engaged, cvars, chat, TypeOK, CallbackType, ChatType,
      Modes
<1>6. ASSUME NEW h \in Handlers, SetWindow(h) PROVE ColdInv'
  BY <1>6
  DEF SetWindow, HStep, ColdInv, NoColdTurn, Engaged, cvars, chat, TypeOK, CallbackType,
      ChatType, Modes
<1>7. ASSUME NEW h \in Handlers, Arm(h) PROVE ColdInv'
  BY <1>7
  DEF Arm, HReturn, ColdInv, NoColdTurn, Engaged, cvars, chat, TypeOK, CallbackType, ChatType,
      Modes
<1>8. ASSUME NEW c \in Callbacks, NEW p \in Procs, Fire(c, p) PROVE ColdInv'
  BY <1>8 DEF Fire, ColdInv, NoColdTurn, Engaged, chat, TypeOK, CallbackType, ChatType, Modes
<1>9. ASSUME NEW c \in Callbacks, Check(c) PROVE ColdInv'
  BY <1>9
  DEF Check, CStep, ColdInv, NoColdTurn, Engaged, chat, TypeOK, CallbackType, ChatType, Modes
<1>10. ASSUME NEW c \in Callbacks, Reschedule(c) PROVE ColdInv'
  BY <1>10
  DEF Reschedule, CReturn, ColdInv, NoColdTurn, Engaged, chat, TypeOK, CallbackType, ChatType,
      Modes
<1>11. ASSUME NEW c \in Callbacks, DeleteTimer(c) PROVE ColdInv'
  BY <1>11
  DEF DeleteTimer, CStep, ColdInv, NoColdTurn, Engaged, chat, TypeOK, CallbackType, ChatType,
      Modes
<1>12. ASSUME NEW c \in Callbacks, StopTimer(c) PROVE ColdInv'
  BY <1>12
  DEF StopTimer, CStep, ColdInv, NoColdTurn, Engaged, chat, TypeOK, CallbackType, ChatType,
      Modes
<1>13. ASSUME NEW c \in Callbacks, TakeAll(c) PROVE ColdInv'
  BY <1>13
  DEF TakeAll, CReturn, ColdInv, NoColdTurn, Engaged, chat, TypeOK, CallbackType, ChatType,
      Modes
<1>14. ASSUME NEW c \in Callbacks, Snapshot(c) PROVE ColdInv'
  BY <1>14
  DEF Snapshot, CStep, CReturn, ColdInv, NoColdTurn, Engaged, chat, TypeOK, CallbackType,
      ChatType, Modes
<1>15. ASSUME NEW c \in Callbacks, PublishTurn(c) PROVE ColdInv'
  BY <1>15
  DEF PublishTurn, CReturn, ColdInv, NoColdTurn, Engaged, chat, TypeOK, CallbackType,
      ChatType, Modes
<1>16. ASSUME NEW o \in Operators, CancelTimer(o) PROVE ColdInv'
  BY <1>16
  DEF CancelTimer, ColdInv, NoColdTurn, Engaged, cvars, chat, TypeOK, CallbackType, ChatType,
      Modes
<1>17. ASSUME NEW o \in Operators, CancelKeys(o) PROVE ColdInv'
  BY <1>17
  DEF CancelKeys, OReturn, ColdInv, NoColdTurn, Engaged, cvars, chat, TypeOK, CallbackType,
      ChatType, Modes
<1>18. CASE WindowExpires
  BY <1>18
  DEF WindowExpires, ColdInv, NoColdTurn, Engaged, cvars, chat, TypeOK, CallbackType,
      ChatType, Modes
<1>19. CASE PauseLapses
  BY <1>19 DEF PauseLapses, ColdInv, NoColdTurn, Engaged, TypeOK, CallbackType, ChatType, Modes
<1>20. CASE ListExpires
  BY <1>20
  DEF ListExpires, ColdInv, NoColdTurn, Engaged, cvars, chat, TypeOK, CallbackType, ChatType,
      Modes
<1>21. ASSUME NEW h \in Handlers, DedupFails(h) PROVE ColdInv'
  BY <1>21
  DEF DedupFails, HReturn, ColdInv, NoColdTurn, Engaged, cvars, chat, TypeOK, CallbackType,
      ChatType, Modes
<1>22. ASSUME NEW h \in Handlers, RecordFails(h) PROVE ColdInv'
  BY <1>22
  DEF RecordFails, HStep, ColdInv, NoColdTurn, Engaged, cvars, chat, TypeOK, CallbackType,
      ChatType, Modes
<1>23. ASSUME NEW h \in Handlers, TellFails(h) PROVE ColdInv'
  BY <1>23
  DEF TellFails, HReturn, ColdInv, NoColdTurn, Engaged, cvars, chat, TypeOK, CallbackType,
      ChatType, Modes
<1>24. ASSUME NEW h \in Handlers, EnqueueFails(h) PROVE ColdInv'
  BY <1>24
  DEF EnqueueFails, HReturn, Leave, ColdInv, NoColdTurn, Engaged, cvars, chat, TypeOK,
      CallbackType, ChatType, Modes
<1>25. ASSUME NEW c \in Callbacks, ScriptFails(c) PROVE ColdInv'
  BY <1>25
  DEF ScriptFails, CReturn, Leave, ColdInv, NoColdTurn, Engaged, chat, TypeOK, CallbackType,
      ChatType, Modes
<1>26. ASSUME NEW c \in Callbacks, SnapshotFails(c) PROVE ColdInv'
  BY <1>26
  DEF SnapshotFails, ColdInv, NoColdTurn, Engaged, chat, TypeOK, CallbackType, ChatType, Modes
<1>27. ASSUME NEW c \in Callbacks, PublishFails(c) PROVE ColdInv'
  BY <1>27
  DEF PublishFails, CReturn, ColdInv, NoColdTurn, Engaged, chat, TypeOK, CallbackType,
      ChatType, Modes
<1>28. ASSUME NEW o \in Operators, CancelFails(o) PROVE ColdInv'
  BY <1>28
  DEF CancelFails, OReturn, Leave, ColdInv, NoColdTurn, Engaged, cvars, chat, TypeOK,
      CallbackType, ChatType, Modes
<1>29. ASSUME NEW p \in Procs, Restart(p) PROVE ColdInv'
  BY <1>29
  DEF Restart, Leave, ColdInv, NoColdTurn, Engaged, chat, TypeOK, CallbackType, ChatType,
      Modes
<1>30. ASSUME NEW o \in Operators, NEW p \in Procs,
          HumanReply(o, p) \/ \E mode \in {"active", "paused", "off"} : SetAI(o, p, mode)
   PROVE  ColdInv'
  <2>1. PICK mode \in {"active", "paused", "off"}, cancel \in BOOLEAN : CommitAI(o, p, mode, cancel)
    BY <1>30, OperatorCalls
  <2> QED
    BY <2>1 DEF CommitAI, ColdInv, NoColdTurn, Engaged, TypeOK, CallbackType, ChatType, Modes
<1>31. CASE UNCHANGED vars
  BY <1>31
  DEF vars, ColdInv, NoColdTurn, Engaged, cvars, chat, TypeOK, CallbackType, ChatType, Modes
<1> QED
  BY <1>1, <1>2, <1>3, <1>4, <1>5, <1>6, <1>7, <1>8, <1>9, <1>10, <1>11, <1>12, <1>13, <1>14,
     <1>15, <1>16, <1>17, <1>18, <1>19, <1>20, <1>21, <1>22, <1>23, <1>24, <1>25, <1>26,
     <1>27, <1>28, <1>29, <1>30, <1>31
  DEF Next, HandlerStep, CallbackStep, OperatorStep, Fault

(* The Snapshot that Flush takes after the script keeps every batch that was
   taken after the handoff from the agent.                                  *)
THEOREM HandedOver == Spec => []NoColdTurn
<1>1. Init => ColdInv
  BY DEF Init, ColdInv, NoColdTurn
<1>2. TypeOK /\ ColdInv /\ [Next]_vars => ColdInv'
  BY ColdStep
<1>3. ColdInv => NoColdTurn
  BY DEF ColdInv
<1> QED
  BY <1>1, <1>2, <1>3, TypeCorrect, PTL DEF Spec

-----------------------------------------------------------------------------
(* Once per message.                                                        *)

PastDedup == {"record", "tell", "push", "set", "arm"}

(* Of all deliveries of a message one gets past InsertAndCheck; it meets an
   unrecorded message, and it may enqueue only what it has recorded.        *)
HandlersOnce ==
  /\ recorded \subseteq dedup
  /\ \A h \in Handlers : /\ hpc[h] \in PastDedup => hmsg[h] \in dedup
                         /\ hpc[h] = "record" => hmsg[h] \notin recorded
                         /\ hgate[h] => hmsg[h] \in recorded
  /\ \A h, k \in Handlers :
       hpc[h] \in PastDedup /\ hpc[k] \in PastDedup /\ hmsg[h] = hmsg[k] => h = k

(* A message that was told has no handler that would tell it again. *)
ToldOnce ==
  \A m \in Messages :
    /\ told[m] <= 1
    /\ told[m] = 1 => /\ m \in dedup
                      /\ \A h \in Handlers : hmsg[h] = m => hpc[h] \notin {"record", "tell"}

Spent(m) == buffer[m] > 0 \/ turned[m] > 0 \/ \E c \in Callbacks : cbatch[c][m] > 0

(* A message that was pushed has no handler that would push it again. *)
PushedOnce ==
  \A m \in Messages : Spent(m) =>
    /\ m \in recorded
    /\ \A h \in Handlers : hmsg[h] = m => hpc[h] \notin {"record", "tell", "push"}

(* It is in the buffer, in the batch of one callback or in a turn. *)
OnePlace ==
  \A m \in Messages :
    /\ buffer[m] + turned[m] <= 1
    /\ \A c \in Callbacks : buffer[m] + cbatch[c][m] + turned[m] <= 1
    /\ \A c, d \in Callbacks : c # d => cbatch[c][m] + cbatch[d][m] <= 1

OnceInv == HandlersOnce /\ ToldOnce /\ PushedOnce /\ OnePlace

(* What a callback does to the places of the messages: it drops its batch, or
   the script moves the buffer into it.                                     *)
LEMMA DropsBatch ==
  ASSUME TypeOK, NEW c \in Callbacks, NEW from, CReturn(c, from)
  PROVE  \A d \in Callbacks : cbatch'[d] = IF d = c THEN Nothing ELSE cbatch[d]
BY NothingType DEF CReturn, TypeOK, CallbackType

LEMMA Counts ==
  ASSUME TypeOK
  PROVE  \A m \in Messages : /\ buffer[m] \in Nat /\ turned[m] \in Nat /\ Nothing[m] = 0
                            /\ \A c \in Callbacks : cbatch[c][m] \in Nat
BY DEF TypeOK, RedisType, OutputType, CallbackType, Nothing

LEMMA TakesBuffer ==
  ASSUME TypeOK, NEW c \in Callbacks, TakeAll(c)
  PROVE  \/ /\ buffer' = buffer
            /\ \A d \in Callbacks : cbatch'[d] = IF d = c THEN Nothing ELSE cbatch[d]
         \/ /\ buffer' = Nothing
            /\ \A d \in Callbacks : cbatch'[d] = IF d = c THEN buffer ELSE cbatch[d]
<1>1. CASE CReturn(c, "script") /\ UNCHANGED redis
  BY <1>1, DropsBatch DEF redis
<1>2. CASE cbatch' = [cbatch EXCEPT ![c] = buffer] /\ buffer' = Nothing
  BY <1>2 DEF TypeOK, CallbackType
<1> QED
  BY <1>1, <1>2 DEF TakeAll

LEMMA HandlersOnceStep ==
  ASSUME TypeOK, HandlersOnce, [Next]_vars
  PROVE  HandlersOnce'
<1>1. ASSUME NEW h \in Handlers, NEW p \in Procs, NEW m \in Messages, Arrive(h, p, m)
      PROVE  HandlersOnce'
  BY <1>1 DEF Arrive, HandlersOnce, PastDedup, TypeOK, HandlerType, ChatType
<1>2. ASSUME NEW h \in Handlers, Deduplicate(h) PROVE HandlersOnce'
  BY <1>2
  DEF Deduplicate, HStep, HReturn, HandlersOnce, PastDedup, TypeOK, HandlerType, ChatType
<1>3. ASSUME NEW h \in Handlers, Record(h) PROVE HandlersOnce'
  BY <1>3 DEF Record, HReturn, HandlersOnce, PastDedup, TypeOK, HandlerType, ChatType
<1>4. ASSUME NEW h \in Handlers, Tell(h) PROVE HandlersOnce'
  BY <1>4 DEF Tell, HStep, HReturn, HandlersOnce, PastDedup, chat, TypeOK, HandlerType, ChatType
<1>5. ASSUME NEW h \in Handlers, Push(h) PROVE HandlersOnce'
  BY <1>5 DEF Push, HStep, HandlersOnce, PastDedup, chat, TypeOK, HandlerType, ChatType
<1>6. ASSUME NEW h \in Handlers, SetWindow(h) PROVE HandlersOnce'
  BY <1>6 DEF SetWindow, HStep, HandlersOnce, PastDedup, chat, TypeOK, HandlerType, ChatType
<1>7. ASSUME NEW h \in Handlers, Arm(h) PROVE HandlersOnce'
  BY <1>7 DEF Arm, HReturn, HandlersOnce, PastDedup, chat, TypeOK, HandlerType, ChatType
<1>8. ASSUME NEW c \in Callbacks, NEW p \in Procs, Fire(c, p) PROVE HandlersOnce'
  BY <1>8 DEF Fire, HandlersOnce, PastDedup, hvars, chat, TypeOK, HandlerType, ChatType
<1>9. ASSUME NEW c \in Callbacks, Check(c) PROVE HandlersOnce'
  BY <1>9 DEF Check, CStep, HandlersOnce, PastDedup, hvars, chat, TypeOK, HandlerType, ChatType
<1>10. ASSUME NEW c \in Callbacks, Reschedule(c) PROVE HandlersOnce'
  BY <1>10
  DEF Reschedule, CReturn, HandlersOnce, PastDedup, hvars, chat, TypeOK, HandlerType, ChatType
<1>11. ASSUME NEW c \in Callbacks, DeleteTimer(c) PROVE HandlersOnce'
  BY <1>11
  DEF DeleteTimer, CStep, HandlersOnce, PastDedup, hvars, chat, TypeOK, HandlerType, ChatType
<1>12. ASSUME NEW c \in Callbacks, StopTimer(c) PROVE HandlersOnce'
  BY <1>12
  DEF StopTimer, CStep, HandlersOnce, PastDedup, hvars, chat, TypeOK, HandlerType, ChatType
<1>13. ASSUME NEW c \in Callbacks, TakeAll(c) PROVE HandlersOnce'
  BY <1>13
  DEF TakeAll, CReturn, HandlersOnce, PastDedup, hvars, chat, TypeOK, HandlerType, ChatType
<1>14. ASSUME NEW c \in Callbacks, Snapshot(c) PROVE HandlersOnce'
  BY <1>14
  DEF Snapshot, CStep, CReturn, HandlersOnce, PastDedup, hvars, chat, TypeOK, HandlerType,
      ChatType
<1>15. ASSUME NEW c \in Callbacks, PublishTurn(c) PROVE HandlersOnce'
  BY <1>15
  DEF PublishTurn, CReturn, HandlersOnce, PastDedup, hvars, chat, TypeOK, HandlerType,
      ChatType
<1>16. ASSUME NEW o \in Operators, CancelTimer(o) PROVE HandlersOnce'
  BY <1>16 DEF CancelTimer, HandlersOnce, PastDedup, hvars, chat, TypeOK, HandlerType, ChatType
<1>17. ASSUME NEW o \in Operators, CancelKeys(o) PROVE HandlersOnce'
  BY <1>17
  DEF CancelKeys, OReturn, HandlersOnce, PastDedup, hvars, chat, TypeOK, HandlerType, ChatType
<1>18. CASE WindowExpires
  BY <1>18
  DEF WindowExpires, HandlersOnce, PastDedup, hvars, chat, TypeOK, HandlerType, ChatType
<1>19. CASE PauseLapses
  BY <1>19 DEF PauseLapses, HandlersOnce, PastDedup, hvars, TypeOK, HandlerType, ChatType
<1>20. CASE ListExpires
  BY <1>20 DEF ListExpires, HandlersOnce, PastDedup, hvars, chat, TypeOK, HandlerType, ChatType
<1>21. ASSUME NEW h \in Handlers, DedupFails(h) PROVE HandlersOnce'
  BY <1>21 DEF DedupFails, HReturn, HandlersOnce, PastDedup, chat, TypeOK, HandlerType, ChatType
<1>22. ASSUME NEW h \in Handlers, RecordFails(h) PROVE HandlersOnce'
  BY <1>22 DEF RecordFails, HStep, HandlersOnce, PastDedup, chat, TypeOK, HandlerType, ChatType
<1>23. ASSUME NEW h \in Handlers, TellFails(h) PROVE HandlersOnce'
  BY <1>23 DEF TellFails, HReturn, HandlersOnce, PastDedup, chat, TypeOK, HandlerType, ChatType
<1>24. ASSUME NEW h \in Handlers, EnqueueFails(h) PROVE HandlersOnce'
  BY <1>24
  DEF EnqueueFails, HReturn, Leave, HandlersOnce, PastDedup, chat, TypeOK, HandlerType,
      ChatType
<1>25. ASSUME NEW c \in Callbacks, ScriptFails(c) PROVE HandlersOnce'
  BY <1>25
  DEF ScriptFails, CReturn, Leave, HandlersOnce, PastDedup, hvars, chat, TypeOK, HandlerType,
      ChatType
<1>26. ASSUME NEW c \in Callbacks, SnapshotFails(c) PROVE HandlersOnce'
  BY <1>26
  DEF SnapshotFails, HandlersOnce, PastDedup, hvars, chat, TypeOK, HandlerType, ChatType
<1>27. ASSUME NEW c \in Callbacks, PublishFails(c) PROVE HandlersOnce'
  BY <1>27
  DEF PublishFails, CReturn, HandlersOnce, PastDedup, hvars, chat, TypeOK, HandlerType,
      ChatType
<1>28. ASSUME NEW o \in Operators, CancelFails(o) PROVE HandlersOnce'
  BY <1>28
  DEF CancelFails, OReturn, Leave, HandlersOnce, PastDedup, hvars, chat, TypeOK, HandlerType,
      ChatType
<1>29. ASSUME NEW p \in Procs, Restart(p) PROVE HandlersOnce'
  BY <1>29 DEF Restart, Leave, HandlersOnce, PastDedup, chat, TypeOK, HandlerType, ChatType
<1>30. ASSUME NEW o \in Operators, NEW p \in Procs,
          HumanReply(o, p) \/ \E mode \in {"active", "paused", "off"} : SetAI(o, p, mode)
   PROVE  HandlersOnce'
  <2>1. PICK mode \in {"active", "paused", "off"}, cancel \in BOOLEAN : CommitAI(o, p, mode, cancel)
    BY <1>30, OperatorCalls
  <2> QED
    BY <2>1 DEF CommitAI, HandlersOnce, PastDedup, hvars, TypeOK, HandlerType, ChatType
<1>31. CASE UNCHANGED vars
  BY <1>31 DEF vars, HandlersOnce, PastDedup, hvars, chat, TypeOK, HandlerType, ChatType
<1> QED
  BY <1>1, <1>2, <1>3, <1>4, <1>5, <1>6, <1>7, <1>8, <1>9, <1>10, <1>11, <1>12, <1>13, <1>14,
     <1>15, <1>16, <1>17, <1>18, <1>19, <1>20, <1>21, <1>22, <1>23, <1>24, <1>25, <1>26,
     <1>27, <1>28, <1>29, <1>30, <1>31
  DEF Next, HandlerStep, CallbackStep, OperatorStep, Fault

LEMMA ToldOnceStep ==
  ASSUME TypeOK, HandlersOnce, ToldOnce, [Next]_vars
  PROVE  ToldOnce'
<1>1. ASSUME NEW h \in Handlers, NEW p \in Procs, NEW m \in Messages, Arrive(h, p, m)
      PROVE  ToldOnce'
  BY <1>1
  DEF Arrive, ToldOnce, HandlersOnce, PastDedup, output, OutputType, TypeOK, HandlerType,
      ChatType
<1>2. ASSUME NEW h \in Handlers, Deduplicate(h) PROVE ToldOnce'
  BY <1>2
  DEF Deduplicate, HStep, HReturn, ToldOnce, HandlersOnce, PastDedup, output, OutputType,
      TypeOK, HandlerType, ChatType
<1>3. ASSUME NEW h \in Handlers, Record(h) PROVE ToldOnce'
  BY <1>3
  DEF Record, HReturn, ToldOnce, HandlersOnce, PastDedup, output, OutputType, TypeOK,
      HandlerType, ChatType
<1>4. ASSUME NEW h \in Handlers, Tell(h) PROVE ToldOnce'
  BY <1>4
  DEF Tell, HStep, HReturn, ToldOnce, HandlersOnce, PastDedup, chat, OutputType, TypeOK,
      HandlerType, ChatType
<1>5. ASSUME NEW h \in Handlers, Push(h) PROVE ToldOnce'
  BY <1>5
  DEF Push, HStep, ToldOnce, HandlersOnce, PastDedup, chat, output, OutputType, TypeOK,
      HandlerType, ChatType
<1>6. ASSUME NEW h \in Handlers, SetWindow(h) PROVE ToldOnce'
  BY <1>6
  DEF SetWindow, HStep, ToldOnce, HandlersOnce, PastDedup, chat, output, OutputType, TypeOK,
      HandlerType, ChatType
<1>7. ASSUME NEW h \in Handlers, Arm(h) PROVE ToldOnce'
  BY <1>7
  DEF Arm, HReturn, ToldOnce, HandlersOnce, PastDedup, chat, output, OutputType, TypeOK,
      HandlerType, ChatType
<1>8. ASSUME NEW c \in Callbacks, NEW p \in Procs, Fire(c, p) PROVE ToldOnce'
  BY <1>8
  DEF Fire, ToldOnce, HandlersOnce, PastDedup, hvars, chat, output, OutputType, TypeOK,
      HandlerType, ChatType
<1>9. ASSUME NEW c \in Callbacks, Check(c) PROVE ToldOnce'
  BY <1>9
  DEF Check, CStep, ToldOnce, HandlersOnce, PastDedup, hvars, chat, output, OutputType,
      TypeOK, HandlerType, ChatType
<1>10. ASSUME NEW c \in Callbacks, Reschedule(c) PROVE ToldOnce'
  BY <1>10
  DEF Reschedule, CReturn, ToldOnce, HandlersOnce, PastDedup, hvars, chat, output, OutputType,
      TypeOK, HandlerType, ChatType
<1>11. ASSUME NEW c \in Callbacks, DeleteTimer(c) PROVE ToldOnce'
  BY <1>11
  DEF DeleteTimer, CStep, ToldOnce, HandlersOnce, PastDedup, hvars, chat, output, OutputType,
      TypeOK, HandlerType, ChatType
<1>12. ASSUME NEW c \in Callbacks, StopTimer(c) PROVE ToldOnce'
  BY <1>12
  DEF StopTimer, CStep, ToldOnce, HandlersOnce, PastDedup, hvars, chat, output, OutputType,
      TypeOK, HandlerType, ChatType
<1>13. ASSUME NEW c \in Callbacks, TakeAll(c) PROVE ToldOnce'
  BY <1>13
  DEF TakeAll, CReturn, ToldOnce, HandlersOnce, PastDedup, hvars, chat, output, OutputType,
      TypeOK, HandlerType, ChatType
<1>14. ASSUME NEW c \in Callbacks, Snapshot(c) PROVE ToldOnce'
  BY <1>14
  DEF Snapshot, CStep, CReturn, ToldOnce, HandlersOnce, PastDedup, hvars, chat, output,
      OutputType, TypeOK, HandlerType, ChatType
<1>15. ASSUME NEW c \in Callbacks, PublishTurn(c) PROVE ToldOnce'
  BY <1>15
  DEF PublishTurn, CReturn, ToldOnce, HandlersOnce, PastDedup, hvars, chat, OutputType,
      TypeOK, HandlerType, ChatType
<1>16. ASSUME NEW o \in Operators, CancelTimer(o) PROVE ToldOnce'
  BY <1>16
  DEF CancelTimer, ToldOnce, HandlersOnce, PastDedup, hvars, chat, output, OutputType, TypeOK,
      HandlerType, ChatType
<1>17. ASSUME NEW o \in Operators, CancelKeys(o) PROVE ToldOnce'
  BY <1>17
  DEF CancelKeys, OReturn, ToldOnce, HandlersOnce, PastDedup, hvars, chat, output, OutputType,
      TypeOK, HandlerType, ChatType
<1>18. CASE WindowExpires
  BY <1>18
  DEF WindowExpires, ToldOnce, HandlersOnce, PastDedup, hvars, chat, output, OutputType,
      TypeOK, HandlerType, ChatType
<1>19. CASE PauseLapses
  BY <1>19
  DEF PauseLapses, ToldOnce, HandlersOnce, PastDedup, hvars, output, OutputType, TypeOK,
      HandlerType, ChatType
<1>20. CASE ListExpires
  BY <1>20
  DEF ListExpires, ToldOnce, HandlersOnce, PastDedup, hvars, chat, output, OutputType, TypeOK,
      HandlerType, ChatType
<1>21. ASSUME NEW h \in Handlers, DedupFails(h) PROVE ToldOnce'
  BY <1>21
  DEF DedupFails, HReturn, ToldOnce, HandlersOnce, PastDedup, chat, output, OutputType,
      TypeOK, HandlerType, ChatType
<1>22. ASSUME NEW h \in Handlers, RecordFails(h) PROVE ToldOnce'
  BY <1>22
  DEF RecordFails, HStep, ToldOnce, HandlersOnce, PastDedup, chat, output, OutputType, TypeOK,
      HandlerType, ChatType
<1>23. ASSUME NEW h \in Handlers, TellFails(h) PROVE ToldOnce'
  BY <1>23
  DEF TellFails, HReturn, ToldOnce, HandlersOnce, PastDedup, chat, output, OutputType, TypeOK,
      HandlerType, ChatType
<1>24. ASSUME NEW h \in Handlers, EnqueueFails(h) PROVE ToldOnce'
  BY <1>24
  DEF EnqueueFails, HReturn, Leave, ToldOnce, HandlersOnce, PastDedup, chat, output,
      OutputType, TypeOK, HandlerType, ChatType
<1>25. ASSUME NEW c \in Callbacks, ScriptFails(c) PROVE ToldOnce'
  BY <1>25
  DEF ScriptFails, CReturn, Leave, ToldOnce, HandlersOnce, PastDedup, hvars, chat, output,
      OutputType, TypeOK, HandlerType, ChatType
<1>26. ASSUME NEW c \in Callbacks, SnapshotFails(c) PROVE ToldOnce'
  BY <1>26
  DEF SnapshotFails, ToldOnce, HandlersOnce, PastDedup, hvars, chat, output, OutputType,
      TypeOK, HandlerType, ChatType
<1>27. ASSUME NEW c \in Callbacks, PublishFails(c) PROVE ToldOnce'
  BY <1>27
  DEF PublishFails, CReturn, ToldOnce, HandlersOnce, PastDedup, hvars, chat, output,
      OutputType, TypeOK, HandlerType, ChatType
<1>28. ASSUME NEW o \in Operators, CancelFails(o) PROVE ToldOnce'
  BY <1>28
  DEF CancelFails, OReturn, Leave, ToldOnce, HandlersOnce, PastDedup, hvars, chat, output,
      OutputType, TypeOK, HandlerType, ChatType
<1>29. ASSUME NEW p \in Procs, Restart(p) PROVE ToldOnce'
  BY <1>29
  DEF Restart, Leave, ToldOnce, HandlersOnce, PastDedup, chat, output, OutputType, TypeOK,
      HandlerType, ChatType
<1>30. ASSUME NEW o \in Operators, NEW p \in Procs,
          HumanReply(o, p) \/ \E mode \in {"active", "paused", "off"} : SetAI(o, p, mode)
   PROVE  ToldOnce'
  <2>1. PICK mode \in {"active", "paused", "off"}, cancel \in BOOLEAN : CommitAI(o, p, mode, cancel)
    BY <1>30, OperatorCalls
  <2> QED
    BY <2>1
    DEF CommitAI, ToldOnce, HandlersOnce, PastDedup, hvars, output, OutputType, TypeOK,
        HandlerType, ChatType
<1>31. CASE UNCHANGED vars
  BY <1>31
  DEF vars, ToldOnce, HandlersOnce, PastDedup, hvars, chat, output, OutputType, TypeOK,
      HandlerType, ChatType
<1> QED
  BY <1>1, <1>2, <1>3, <1>4, <1>5, <1>6, <1>7, <1>8, <1>9, <1>10, <1>11, <1>12, <1>13, <1>14,
     <1>15, <1>16, <1>17, <1>18, <1>19, <1>20, <1>21, <1>22, <1>23, <1>24, <1>25, <1>26,
     <1>27, <1>28, <1>29, <1>30, <1>31
  DEF Next, HandlerStep, CallbackStep, OperatorStep, Fault

LEMMA PushedOnceStep ==
  ASSUME TypeOK, HandlersOnce, PushedOnce, [Next]_vars
  PROVE  PushedOnce'
<1>1. ASSUME NEW h \in Handlers, NEW p \in Procs, NEW m \in Messages, Arrive(h, p, m)
      PROVE  PushedOnce'
  BY <1>1
  DEF Arrive, PushedOnce, Spent, HandlersOnce, PastDedup, cvars, redis, output, OutputType,
      RedisType, CallbackType, TypeOK, HandlerType, ChatType
<1>2. ASSUME NEW h \in Handlers, Deduplicate(h) PROVE PushedOnce'
  BY <1>2
  DEF Deduplicate, HStep, HReturn, PushedOnce, Spent, HandlersOnce, PastDedup, cvars, redis,
      output, OutputType, RedisType, CallbackType, TypeOK, HandlerType, ChatType
<1>3. ASSUME NEW h \in Handlers, Record(h) PROVE PushedOnce'
  BY <1>3
  DEF Record, HReturn, PushedOnce, Spent, HandlersOnce, PastDedup, cvars, redis, output,
      OutputType, RedisType, CallbackType, TypeOK, HandlerType, ChatType
<1>4. ASSUME NEW h \in Handlers, Tell(h) PROVE PushedOnce'
  BY <1>4
  DEF Tell, HStep, HReturn, PushedOnce, Spent, HandlersOnce, PastDedup, cvars, chat, redis,
      OutputType, RedisType, CallbackType, TypeOK, HandlerType, ChatType
<1>5. ASSUME NEW h \in Handlers, Push(h) PROVE PushedOnce'
  BY <1>5
  DEF Push, HStep, PushedOnce, Spent, HandlersOnce, PastDedup, cvars, chat, output,
      OutputType, RedisType, CallbackType, TypeOK, HandlerType, ChatType
<1>6. ASSUME NEW h \in Handlers, SetWindow(h) PROVE PushedOnce'
  BY <1>6
  DEF SetWindow, HStep, PushedOnce, Spent, HandlersOnce, PastDedup, cvars, chat, output,
      OutputType, RedisType, CallbackType, TypeOK, HandlerType, ChatType
<1>7. ASSUME NEW h \in Handlers, Arm(h) PROVE PushedOnce'
  BY <1>7
  DEF Arm, HReturn, PushedOnce, Spent, HandlersOnce, PastDedup, cvars, chat, redis, output,
      OutputType, RedisType, CallbackType, TypeOK, HandlerType, ChatType
<1>8. ASSUME NEW c \in Callbacks, NEW p \in Procs, Fire(c, p) PROVE PushedOnce'
  BY <1>8
  DEF Fire, PushedOnce, Spent, HandlersOnce, PastDedup, hvars, chat, redis, output,
      OutputType, RedisType, CallbackType, TypeOK, HandlerType, ChatType
<1>9. ASSUME NEW c \in Callbacks, Check(c) PROVE PushedOnce'
  BY <1>9
  DEF Check, CStep, PushedOnce, Spent, HandlersOnce, PastDedup, hvars, chat, redis, output,
      OutputType, RedisType, CallbackType, TypeOK, HandlerType, ChatType
<1>10. ASSUME NEW c \in Callbacks, Reschedule(c) PROVE PushedOnce'
  BY <1>10
  DEF Reschedule, CReturn, PushedOnce, Spent, HandlersOnce, PastDedup, hvars, chat, redis,
      output, OutputType, RedisType, CallbackType, TypeOK, HandlerType, ChatType, Nothing
<1>11. ASSUME NEW c \in Callbacks, DeleteTimer(c) PROVE PushedOnce'
  BY <1>11
  DEF DeleteTimer, CStep, PushedOnce, Spent, HandlersOnce, PastDedup, hvars, chat, redis,
      output, OutputType, RedisType, CallbackType, TypeOK, HandlerType, ChatType
<1>12. ASSUME NEW c \in Callbacks, StopTimer(c) PROVE PushedOnce'
  BY <1>12
  DEF StopTimer, CStep, PushedOnce, Spent, HandlersOnce, PastDedup, hvars, chat, redis,
      output, OutputType, RedisType, CallbackType, TypeOK, HandlerType, ChatType
<1>13. ASSUME NEW c \in Callbacks, TakeAll(c) PROVE PushedOnce'
  <2>1. UNCHANGED <<hpc, hmsg, recorded, turned>>
    BY <1>13 DEF TakeAll, hvars, chat, output
  <2>2. \A m \in Messages : Spent(m)' => Spent(m)
    BY <2>1, <1>13, TakesBuffer DEF Spent, Nothing
  <2> QED
    BY <2>1, <2>2 DEF PushedOnce
<1>14. ASSUME NEW c \in Callbacks, Snapshot(c) PROVE PushedOnce'
  BY <1>14
  DEF Snapshot, CStep, CReturn, PushedOnce, Spent, HandlersOnce, PastDedup, hvars, chat,
      redis, output, OutputType, RedisType, CallbackType, TypeOK, HandlerType, ChatType,
      Nothing
<1>15. ASSUME NEW c \in Callbacks, PublishTurn(c) PROVE PushedOnce'
  BY <1>15
  DEF PublishTurn, CReturn, PushedOnce, Spent, HandlersOnce, PastDedup, hvars, chat, redis,
      OutputType, RedisType, CallbackType, TypeOK, HandlerType, ChatType, Nothing
<1>16. ASSUME NEW o \in Operators, CancelTimer(o) PROVE PushedOnce'
  BY <1>16
  DEF CancelTimer, PushedOnce, Spent, HandlersOnce, PastDedup, hvars, cvars, chat, redis,
      output, OutputType, RedisType, CallbackType, TypeOK, HandlerType, ChatType
<1>17. ASSUME NEW o \in Operators, CancelKeys(o) PROVE PushedOnce'
  BY <1>17
  DEF CancelKeys, OReturn, PushedOnce, Spent, HandlersOnce, PastDedup, hvars, cvars, chat,
      output, OutputType, RedisType, CallbackType, TypeOK, HandlerType, ChatType, Nothing
<1>18. CASE WindowExpires
  BY <1>18
  DEF WindowExpires, PushedOnce, Spent, HandlersOnce, PastDedup, hvars, cvars, chat, output,
      OutputType, RedisType, CallbackType, TypeOK, HandlerType, ChatType
<1>19. CASE PauseLapses
  BY <1>19
  DEF PauseLapses, PushedOnce, Spent, HandlersOnce, PastDedup, hvars, redis, output,
      OutputType, RedisType, CallbackType, TypeOK, HandlerType, ChatType
<1>20. CASE ListExpires
  BY <1>20
  DEF ListExpires, PushedOnce, Spent, HandlersOnce, PastDedup, hvars, cvars, chat, output,
      OutputType, RedisType, CallbackType, TypeOK, HandlerType, ChatType, Nothing
<1>21. ASSUME NEW h \in Handlers, DedupFails(h) PROVE PushedOnce'
  BY <1>21
  DEF DedupFails, HReturn, PushedOnce, Spent, HandlersOnce, PastDedup, cvars, chat, redis,
      output, OutputType, RedisType, CallbackType, TypeOK, HandlerType, ChatType
<1>22. ASSUME NEW h \in Handlers, RecordFails(h) PROVE PushedOnce'
  BY <1>22
  DEF RecordFails, HStep, PushedOnce, Spent, HandlersOnce, PastDedup, cvars, chat, redis,
      output, OutputType, RedisType, CallbackType, TypeOK, HandlerType, ChatType
<1>23. ASSUME NEW h \in Handlers, TellFails(h) PROVE PushedOnce'
  BY <1>23
  DEF TellFails, HReturn, PushedOnce, Spent, HandlersOnce, PastDedup, cvars, chat, redis,
      output, OutputType, RedisType, CallbackType, TypeOK, HandlerType, ChatType
<1>24. ASSUME NEW h \in Handlers, EnqueueFails(h) PROVE PushedOnce'
  BY <1>24
  DEF EnqueueFails, HReturn, Leave, PushedOnce, Spent, HandlersOnce, PastDedup, cvars, chat,
      output, OutputType, RedisType, CallbackType, TypeOK, HandlerType, ChatType
<1>25. ASSUME NEW c \in Callbacks, ScriptFails(c) PROVE PushedOnce'
  BY <1>25
  DEF ScriptFails, CReturn, Leave, PushedOnce, Spent, HandlersOnce, PastDedup, hvars, chat,
      output, OutputType, RedisType, CallbackType, TypeOK, HandlerType, ChatType, Nothing
<1>26. ASSUME NEW c \in Callbacks, SnapshotFails(c) PROVE PushedOnce'
  BY <1>26
  DEF SnapshotFails, PushedOnce, Spent, HandlersOnce, PastDedup, hvars, chat, redis, output,
      OutputType, RedisType, CallbackType, TypeOK, HandlerType, ChatType
<1>27. ASSUME NEW c \in Callbacks, PublishFails(c) PROVE PushedOnce'
  BY <1>27
  DEF PublishFails, CReturn, PushedOnce, Spent, HandlersOnce, PastDedup, hvars, chat, redis,
      output, OutputType, RedisType, CallbackType, TypeOK, HandlerType, ChatType, Nothing
<1>28. ASSUME NEW o \in Operators, CancelFails(o) PROVE PushedOnce'
  BY <1>28
  DEF CancelFails, OReturn, Leave, PushedOnce, Spent, HandlersOnce, PastDedup, hvars, cvars,
      chat, output, OutputType, RedisType, CallbackType, TypeOK, HandlerType, ChatType
<1>29. ASSUME NEW p \in Procs, Restart(p) PROVE PushedOnce'
  BY <1>29
  DEF Restart, Leave, PushedOnce, Spent, HandlersOnce, PastDedup, chat, output, OutputType,
      RedisType, CallbackType, TypeOK, HandlerType, ChatType, Nothing
<1>30. ASSUME NEW o \in Operators, NEW p \in Procs,
          HumanReply(o, p) \/ \E mode \in {"active", "paused", "off"} : SetAI(o, p, mode)
   PROVE  PushedOnce'
  <2>1. PICK mode \in {"active", "paused", "off"}, cancel \in BOOLEAN : CommitAI(o, p, mode, cancel)
    BY <1>30, OperatorCalls
  <2> QED
    BY <2>1
    DEF CommitAI, PushedOnce, Spent, HandlersOnce, PastDedup, hvars, redis, output,
        OutputType, RedisType, CallbackType, TypeOK, HandlerType, ChatType
<1>31. CASE UNCHANGED vars
  BY <1>31
  DEF vars, PushedOnce, Spent, HandlersOnce, PastDedup, hvars, cvars, chat, redis, output,
      OutputType, RedisType, CallbackType, TypeOK, HandlerType, ChatType
<1> QED
  BY <1>1, <1>2, <1>3, <1>4, <1>5, <1>6, <1>7, <1>8, <1>9, <1>10, <1>11, <1>12, <1>13, <1>14,
     <1>15, <1>16, <1>17, <1>18, <1>19, <1>20, <1>21, <1>22, <1>23, <1>24, <1>25, <1>26,
     <1>27, <1>28, <1>29, <1>30, <1>31
  DEF Next, HandlerStep, CallbackStep, OperatorStep, Fault

LEMMA OnePlaceStep ==
  ASSUME TypeOK, PushedOnce, OnePlace, [Next]_vars
  PROVE  OnePlace'
<1>1. ASSUME NEW h \in Handlers, NEW p \in Procs, NEW m \in Messages, Arrive(h, p, m)
      PROVE  OnePlace'
  BY <1>1
  DEF Arrive, OnePlace, cvars, redis, output, OutputType, RedisType, CallbackType, TypeOK
<1>2. ASSUME NEW h \in Handlers, Deduplicate(h) PROVE OnePlace'
  BY <1>2
  DEF Deduplicate, HStep, HReturn, OnePlace, cvars, redis, output, OutputType, RedisType,
      CallbackType, TypeOK
<1>3. ASSUME NEW h \in Handlers, Record(h) PROVE OnePlace'
  BY <1>3
  DEF Record, HReturn, OnePlace, cvars, redis, output, OutputType, RedisType, CallbackType,
      TypeOK
<1>4. ASSUME NEW h \in Handlers, Tell(h) PROVE OnePlace'
  BY <1>4
  DEF Tell, HStep, HReturn, OnePlace, cvars, redis, OutputType, RedisType, CallbackType,
      TypeOK
<1>5. ASSUME NEW h \in Handlers, Push(h) PROVE OnePlace'
  BY <1>5
  DEF Push, HStep, OnePlace, cvars, output, OutputType, RedisType, CallbackType, TypeOK,
      PushedOnce, Spent, HandlerType
<1>6. ASSUME NEW h \in Handlers, SetWindow(h) PROVE OnePlace'
  BY <1>6
  DEF SetWindow, HStep, OnePlace, cvars, output, OutputType, RedisType, CallbackType, TypeOK
<1>7. ASSUME NEW h \in Handlers, Arm(h) PROVE OnePlace'
  BY <1>7
  DEF Arm, HReturn, OnePlace, cvars, redis, output, OutputType, RedisType, CallbackType,
      TypeOK
<1>8. ASSUME NEW c \in Callbacks, NEW p \in Procs, Fire(c, p) PROVE OnePlace'
  BY <1>8 DEF Fire, OnePlace, redis, output, OutputType, RedisType, CallbackType, TypeOK
<1>9. ASSUME NEW c \in Callbacks, Check(c) PROVE OnePlace'
  BY <1>9 DEF Check, CStep, OnePlace, redis, output, OutputType, RedisType, CallbackType, TypeOK
<1>10. ASSUME NEW c \in Callbacks, Reschedule(c) PROVE OnePlace'
  BY <1>10
  DEF Reschedule, CReturn, OnePlace, redis, output, OutputType, RedisType, CallbackType,
      TypeOK, Nothing
<1>11. ASSUME NEW c \in Callbacks, DeleteTimer(c) PROVE OnePlace'
  BY <1>11
  DEF DeleteTimer, CStep, OnePlace, redis, output, OutputType, RedisType, CallbackType, TypeOK
<1>12. ASSUME NEW c \in Callbacks, StopTimer(c) PROVE OnePlace'
  BY <1>12
  DEF StopTimer, CStep, OnePlace, redis, output, OutputType, RedisType, CallbackType, TypeOK
<1>13. ASSUME NEW c \in Callbacks, TakeAll(c) PROVE OnePlace'
  <2>1. UNCHANGED turned
    BY <1>13 DEF TakeAll, output
  <2> QED
    <3>1. CASE /\ buffer' = buffer
               /\ \A d \in Callbacks : cbatch'[d] = IF d = c THEN Nothing ELSE cbatch[d]
      BY <2>1, <3>1, Counts DEF OnePlace
    <3>2. CASE /\ buffer' = Nothing
               /\ \A d \in Callbacks : cbatch'[d] = IF d = c THEN buffer ELSE cbatch[d]
      BY <2>1, <3>2, Counts DEF OnePlace
    <3> QED
      BY <3>1, <3>2, <1>13, TakesBuffer
<1>14. ASSUME NEW c \in Callbacks, Snapshot(c) PROVE OnePlace'
  <2>1. UNCHANGED <<buffer, turned>>
    BY <1>14 DEF Snapshot, redis, output
  <2>2. CASE CStep(c, "snapshot", "publish")
    BY <2>1, <2>2 DEF CStep, OnePlace
  <2>3. CASE CReturn(c, "snapshot")
    BY <2>1, <2>3, DropsBatch, Counts DEF OnePlace
  <2> QED
    BY <1>14, <2>2, <2>3 DEF Snapshot
<1>15. ASSUME NEW c \in Callbacks, PublishTurn(c) PROVE OnePlace'
  BY <1>15
  DEF PublishTurn, CReturn, OnePlace, redis, OutputType, RedisType, CallbackType, TypeOK,
      Nothing
<1>16. ASSUME NEW o \in Operators, CancelTimer(o) PROVE OnePlace'
  BY <1>16
  DEF CancelTimer, OnePlace, cvars, redis, output, OutputType, RedisType, CallbackType, TypeOK
<1>17. ASSUME NEW o \in Operators, CancelKeys(o) PROVE OnePlace'
  BY <1>17
  DEF CancelKeys, OReturn, OnePlace, cvars, output, OutputType, RedisType, CallbackType,
      TypeOK, Nothing
<1>18. CASE WindowExpires
  BY <1>18
  DEF WindowExpires, OnePlace, cvars, output, OutputType, RedisType, CallbackType, TypeOK
<1>19. CASE PauseLapses
  BY <1>19 DEF PauseLapses, OnePlace, redis, output, OutputType, RedisType, CallbackType, TypeOK
<1>20. CASE ListExpires
  BY <1>20
  DEF ListExpires, OnePlace, cvars, output, OutputType, RedisType, CallbackType, TypeOK,
      Nothing
<1>21. ASSUME NEW h \in Handlers, DedupFails(h) PROVE OnePlace'
  BY <1>21
  DEF DedupFails, HReturn, OnePlace, cvars, redis, output, OutputType, RedisType,
      CallbackType, TypeOK
<1>22. ASSUME NEW h \in Handlers, RecordFails(h) PROVE OnePlace'
  BY <1>22
  DEF RecordFails, HStep, OnePlace, cvars, redis, output, OutputType, RedisType, CallbackType,
      TypeOK
<1>23. ASSUME NEW h \in Handlers, TellFails(h) PROVE OnePlace'
  BY <1>23
  DEF TellFails, HReturn, OnePlace, cvars, redis, output, OutputType, RedisType, CallbackType,
      TypeOK
<1>24. ASSUME NEW h \in Handlers, EnqueueFails(h) PROVE OnePlace'
  BY <1>24
  DEF EnqueueFails, HReturn, Leave, OnePlace, cvars, output, OutputType, RedisType,
      CallbackType, TypeOK
<1>25. ASSUME NEW c \in Callbacks, ScriptFails(c) PROVE OnePlace'
  BY <1>25
  DEF ScriptFails, CReturn, Leave, OnePlace, output, OutputType, RedisType, CallbackType,
      TypeOK, Nothing
<1>26. ASSUME NEW c \in Callbacks, SnapshotFails(c) PROVE OnePlace'
  BY <1>26
  DEF SnapshotFails, OnePlace, redis, output, OutputType, RedisType, CallbackType, TypeOK
<1>27. ASSUME NEW c \in Callbacks, PublishFails(c) PROVE OnePlace'
  BY <1>27
  DEF PublishFails, CReturn, OnePlace, redis, output, OutputType, RedisType, CallbackType,
      TypeOK, Nothing
<1>28. ASSUME NEW o \in Operators, CancelFails(o) PROVE OnePlace'
  BY <1>28
  DEF CancelFails, OReturn, Leave, OnePlace, cvars, output, OutputType, RedisType,
      CallbackType, TypeOK
<1>29. ASSUME NEW p \in Procs, Restart(p) PROVE OnePlace'
  BY <1>29
  DEF Restart, Leave, OnePlace, output, OutputType, RedisType, CallbackType, TypeOK, Nothing
<1>30. ASSUME NEW o \in Operators, NEW p \in Procs,
          HumanReply(o, p) \/ \E mode \in {"active", "paused", "off"} : SetAI(o, p, mode)
   PROVE  OnePlace'
  <2>1. PICK mode \in {"active", "paused", "off"}, cancel \in BOOLEAN : CommitAI(o, p, mode, cancel)
    BY <1>30, OperatorCalls
  <2> QED
    BY <2>1 DEF CommitAI, OnePlace, redis, output, OutputType, RedisType, CallbackType, TypeOK
<1>31. CASE UNCHANGED vars
  BY <1>31 DEF vars, OnePlace, cvars, redis, output, OutputType, RedisType, CallbackType, TypeOK
<1> QED
  BY <1>1, <1>2, <1>3, <1>4, <1>5, <1>6, <1>7, <1>8, <1>9, <1>10, <1>11, <1>12, <1>13, <1>14,
     <1>15, <1>16, <1>17, <1>18, <1>19, <1>20, <1>21, <1>22, <1>23, <1>24, <1>25, <1>26,
     <1>27, <1>28, <1>29, <1>30, <1>31
  DEF Next, HandlerStep, CallbackStep, OperatorStep, Fault

(* The dedup row, the transaction of the chat and the script that takes the
   whole list together keep a message from being told or handed over twice,
   on any number of replicas.                                               *)
LEMMA OnceInvariant == Spec => []OnceInv
<1>1. Init => OnceInv
  BY DEF Init, OnceInv, HandlersOnce, PastDedup, ToldOnce, PushedOnce, OnePlace, Spent, Nothing
<1>2. TypeOK /\ OnceInv /\ [Next]_vars => OnceInv'
  BY HandlersOnceStep, ToldOnceStep, PushedOnceStep, OnePlaceStep DEF OnceInv
<1> QED
  BY <1>1, <1>2, TypeCorrect, PTL DEF Spec

(* However often and to whichever replicas the providers deliver a message,
   it is told once and part of one turn at most.                            *)
THEOREM ToldAndTurnedOnce == Spec => []OncePerMessage
<1>1. TypeOK /\ OnceInv => OncePerMessage
  BY DEF TypeOK, OutputType, RedisType, OnceInv, ToldOnce, OnePlace, OncePerMessage
<1> QED
  BY <1>1, OnceInvariant, TypeCorrect, PTL

-----------------------------------------------------------------------------
(* Inbound implements Turns.                                                *)

InHand(m) == buffer[m] > 0 \/ \E c \in Callbacks : cbatch[c][m] > 0

Open(m) == m \in recorded /\ \E h \in Handlers : hmsg[h] = m /\ hpc[h] \in {"tell", "push"}

FateOf(m) ==
  IF turned[m] > 0 THEN "turned"
  ELSE IF InHand(m) THEN "held"
  ELSE IF m \notin recorded THEN "new"
  ELSE IF Open(m) THEN "open" ELSE "lost"

LEMMA FateIs ==
  ASSUME TypeOK
  PROVE  \A m \in Messages : Fate(m) = FateOf(m)
BY DEF TypeOK, OutputType, Fate, FateOf, InHand, Open, Held

LEMMA FateIsNext ==
  ASSUME TypeOK'
  PROVE  \A m \in Messages : Fate(m)' = FateOf(m)'
BY DEF TypeOK, OutputType, Fate, FateOf, InHand, Open, Held

(* Fates that move from From to one stage are a step of Turns. *)
LEMMA MovesFates ==
  ASSUME TypeOK, TypeOK', NEW From, NEW to,
         \A m \in Messages : FateOf(m)' = FateOf(m) \/ (FateOf(m) \in From /\ FateOf(m)' = to)
  PROVE  T!Moves(From, to)
<1>1. \A m \in Messages : Fate(m)' = Fate(m) \/ (Fate(m) \in From /\ Fate(m)' = to)
  BY FateIs, FateIsNext
<1>2. \A m \in Messages : Fate(m)' \in T!Fates
  BY FateIsNext DEF FateOf, T!Fates
<1> QED
  BY <1>1, <1>2 DEF T!Moves

(* A step that records and hands over nothing can only lose messages. *)
LEMMA LosesAtMost ==
  ASSUME TypeOK, TypeOK', PushedOnce, UNCHANGED <<turned, recorded>>,
         \A m \in Messages : /\ InHand(m)' => InHand(m)
                             /\ Open(m)' => Open(m)
  PROVE  T!Next
<1>1. \A m \in Messages : InHand(m) => m \in recorded /\ ~Open(m)
  BY DEF InHand, Open, PushedOnce, Spent
<1>2. \A m \in Messages : \/ FateOf(m)' = FateOf(m)
                          \/ FateOf(m) \in {"open", "held"} /\ FateOf(m)' = "lost"
  BY <1>1 DEF FateOf
<1> QED
  BY <1>2, MovesFates DEF T!Next

(* Steps of the handlers that leave the places of the messages alone. *)
LEMMA HandsKept ==
  ASSUME UNCHANGED <<buffer, cbatch>>, NEW m \in Messages
  PROVE  InHand(m)' <=> InHand(m)
BY DEF InHand

LEMMA OpenKept ==
  ASSUME UNCHANGED <<recorded, hpc, hmsg>>, NEW m \in Messages
  PROVE  Open(m)' <=> Open(m)
BY DEF Open

LEMMA TurnsStep ==
  ASSUME TypeOK, TypeOK', OnceInv, [Next]_vars
  PROVE  T!Next \/ UNCHANGED [m \in Messages |-> Fate(m)]
<1>1. ASSUME NEW h \in Handlers, NEW p \in Procs, NEW m \in Messages, Arrive(h, p, m)
      PROVE  T!Next
  <2>1. UNCHANGED <<turned, recorded>>
    BY <1>1 DEF Arrive, cvars, redis, output
  <2>2. \A n \in Messages : InHand(n)' => InHand(n)
    BY <1>1 DEF InHand, Arrive, cvars, redis, output
  <2>3. \A n \in Messages : Open(n)' => Open(n)
    BY <1>1 DEF Open, Arrive, TypeOK, HandlerType, cvars, redis, output
  <2> QED
    BY <2>1, <2>2, <2>3, LosesAtMost DEF OnceInv
<1>2. ASSUME NEW h \in Handlers, Deduplicate(h) PROVE T!Next
  <2>1. UNCHANGED <<turned, recorded>>
    BY <1>2 DEF Deduplicate, cvars, redis, output
  <2>2. \A m \in Messages : InHand(m)' => InHand(m)
    BY <1>2 DEF InHand, Deduplicate, HStep, HReturn, cvars, redis, output
  <2>3. \A m \in Messages : Open(m)' => Open(m)
    BY <1>2 DEF Open, Deduplicate, HStep, HReturn, TypeOK, HandlerType, cvars, redis, output
  <2> QED
    BY <2>1, <2>2, <2>3, LosesAtMost DEF OnceInv
<1>3. ASSUME NEW h \in Handlers, Record(h) PROVE T!Next
  <2>1. hmsg[h] \in Messages /\ hmsg[h] \notin recorded /\ ~Spent(hmsg[h])
    BY <1>3 DEF OnceInv, HandlersOnce, PushedOnce, Record, TypeOK, HandlerType
  <2>2. UNCHANGED <<turned, buffer, cbatch, hmsg>> /\ recorded' = recorded \cup {hmsg[h]}
        /\ hpc' = [hpc EXCEPT ![h] = "tell"]
    BY <1>3, <2>1 DEF Record, cvars, redis, output
  <2>3. \A m \in Messages : InHand(m)' <=> InHand(m)
    BY <2>2, HandsKept
  <2>4. \A m \in Messages \ {hmsg[h]} : Open(m)' <=> Open(m)
    BY <2>2 DEF Open, TypeOK, HandlerType
  <2>5. Open(hmsg[h])'
    BY <2>1, <2>2 DEF Open, TypeOK, HandlerType
  <2>6. \A m \in Messages \ {hmsg[h]} : FateOf(m)' = FateOf(m)
    BY <2>2, <2>3, <2>4 DEF FateOf
  <2>7. FateOf(hmsg[h]) = "new" /\ \A m \in Messages : m = hmsg[h] => FateOf(m)' = "open"
    <3>1. turned[hmsg[h]] = 0 /\ ~InHand(hmsg[h])
      BY <2>1 DEF Spent, InHand, TypeOK, OutputType
    <3> QED
      BY <2>1, <2>2, <2>3, <2>5, <3>1 DEF FateOf
  <2> QED
    BY <2>6, <2>7, MovesFates DEF T!Next
<1>4. ASSUME NEW h \in Handlers, Tell(h) PROVE T!Next
  <2>1. UNCHANGED <<turned, recorded>>
    BY <1>4 DEF Tell, cvars, chat, redis
  <2>2. \A m \in Messages : InHand(m)' => InHand(m)
    BY <1>4 DEF InHand, Tell, HStep, HReturn, cvars, chat, redis
  <2>3. \A m \in Messages : Open(m)' => Open(m)
    BY <1>4 DEF Open, Tell, HStep, HReturn, TypeOK, HandlerType, cvars, chat, redis
  <2> QED
    BY <2>1, <2>2, <2>3, LosesAtMost DEF OnceInv
<1>5. ASSUME NEW h \in Handlers, Push(h) PROVE T!Next
  <2>1. hmsg[h] \in Messages /\ hmsg[h] \in recorded /\ ~Spent(hmsg[h]) /\ Open(hmsg[h])
    BY <1>5 DEF OnceInv, HandlersOnce, PushedOnce, Open, Push, HStep, TypeOK, HandlerType
  <2>2. UNCHANGED <<turned, recorded, cbatch, hmsg>> /\ hpc' = [hpc EXCEPT ![h] = "set"]
        /\ buffer' = [buffer EXCEPT ![hmsg[h]] = @ + 1]
    BY <1>5 DEF Push, HStep, cvars, chat, output
  <2>3. \A m \in Messages \ {hmsg[h]} : InHand(m)' <=> InHand(m)
    BY <2>1, <2>2 DEF InHand, TypeOK, RedisType
  <2>4. \A m \in Messages : m = hmsg[h] => InHand(m)'
    BY <2>1, <2>2 DEF InHand, TypeOK, RedisType
  <2>5. \A m \in Messages \ {hmsg[h]} : Open(m)' <=> Open(m)
    BY <2>2 DEF Open, TypeOK, HandlerType
  <2>6. \A m \in Messages \ {hmsg[h]} : FateOf(m)' = FateOf(m)
    BY <2>2, <2>3, <2>5 DEF FateOf
  <2>7. FateOf(hmsg[h]) = "open" /\ \A m \in Messages : m = hmsg[h] => FateOf(m)' = "held"
    <3>1. turned[hmsg[h]] = 0 /\ ~InHand(hmsg[h])
      BY <2>1 DEF Spent, InHand, TypeOK, OutputType
    <3> QED
      BY <2>1, <2>2, <2>4, <3>1 DEF FateOf
  <2> QED
    BY <2>6, <2>7, MovesFates DEF T!Next
<1>6. ASSUME NEW h \in Handlers, SetWindow(h) PROVE T!Next
  <2>1. UNCHANGED <<turned, recorded>>
    BY <1>6 DEF SetWindow, cvars, chat, output
  <2>2. \A m \in Messages : InHand(m)' => InHand(m)
    BY <1>6 DEF InHand, SetWindow, HStep, cvars, chat, output
  <2>3. \A m \in Messages : Open(m)' => Open(m)
    BY <1>6 DEF Open, SetWindow, HStep, TypeOK, HandlerType, cvars, chat, output
  <2> QED
    BY <2>1, <2>2, <2>3, LosesAtMost DEF OnceInv
<1>7. ASSUME NEW h \in Handlers, Arm(h) PROVE T!Next
  <2>1. UNCHANGED <<turned, recorded>>
    BY <1>7 DEF Arm, cvars, chat, redis, output
  <2>2. \A m \in Messages : InHand(m)' => InHand(m)
    BY <1>7 DEF InHand, Arm, HReturn, cvars, chat, redis, output
  <2>3. \A m \in Messages : Open(m)' => Open(m)
    BY <1>7 DEF Open, Arm, HReturn, TypeOK, HandlerType, cvars, chat, redis, output
  <2> QED
    BY <2>1, <2>2, <2>3, LosesAtMost DEF OnceInv
<1>8. ASSUME NEW c \in Callbacks, NEW p \in Procs, Fire(c, p) PROVE T!Next
  <2>1. UNCHANGED <<turned, recorded>>
    BY <1>8 DEF Fire, hvars, chat, redis, output
  <2>2. \A m \in Messages : InHand(m)' => InHand(m)
    BY <1>8 DEF InHand, Fire, hvars, chat, redis, output
  <2>3. \A m \in Messages : Open(m)' => Open(m)
    BY <1>8 DEF Open, Fire, TypeOK, HandlerType, hvars, chat, redis, output
  <2> QED
    BY <2>1, <2>2, <2>3, LosesAtMost DEF OnceInv
<1>9. ASSUME NEW c \in Callbacks, Check(c) PROVE T!Next
  <2>1. UNCHANGED <<turned, recorded>>
    BY <1>9 DEF Check, hvars, chat, redis, output
  <2>2. \A m \in Messages : InHand(m)' => InHand(m)
    BY <1>9 DEF InHand, Check, CStep, hvars, chat, redis, output
  <2>3. \A m \in Messages : Open(m)' => Open(m)
    BY <1>9 DEF Open, Check, CStep, TypeOK, HandlerType, hvars, chat, redis, output
  <2> QED
    BY <2>1, <2>2, <2>3, LosesAtMost DEF OnceInv
<1>10. ASSUME NEW c \in Callbacks, Reschedule(c) PROVE T!Next
  <2>1. UNCHANGED <<turned, recorded>>
    BY <1>10 DEF Reschedule, hvars, chat, redis, output
  <2>2. \A m \in Messages : InHand(m)' => InHand(m)
    BY <1>10
    DEF InHand, Reschedule, CReturn, TypeOK, CallbackType, Nothing, hvars, chat, redis, output
  <2>3. \A m \in Messages : Open(m)' => Open(m)
    BY <1>10
    DEF Open, Reschedule, CReturn, TypeOK, CallbackType, Nothing, HandlerType, hvars, chat,
        redis, output
  <2> QED
    BY <2>1, <2>2, <2>3, LosesAtMost DEF OnceInv
<1>11. ASSUME NEW c \in Callbacks, DeleteTimer(c) PROVE T!Next
  <2>1. UNCHANGED <<turned, recorded>>
    BY <1>11 DEF DeleteTimer, hvars, chat, redis, output
  <2>2. \A m \in Messages : InHand(m)' => InHand(m)
    BY <1>11 DEF InHand, DeleteTimer, CStep, hvars, chat, redis, output
  <2>3. \A m \in Messages : Open(m)' => Open(m)
    BY <1>11 DEF Open, DeleteTimer, CStep, TypeOK, HandlerType, hvars, chat, redis, output
  <2> QED
    BY <2>1, <2>2, <2>3, LosesAtMost DEF OnceInv
<1>12. ASSUME NEW c \in Callbacks, StopTimer(c) PROVE T!Next
  <2>1. UNCHANGED <<turned, recorded>>
    BY <1>12 DEF StopTimer, hvars, chat, redis, output
  <2>2. \A m \in Messages : InHand(m)' => InHand(m)
    BY <1>12 DEF InHand, StopTimer, CStep, hvars, chat, redis, output
  <2>3. \A m \in Messages : Open(m)' => Open(m)
    BY <1>12 DEF Open, StopTimer, CStep, TypeOK, HandlerType, hvars, chat, redis, output
  <2> QED
    BY <2>1, <2>2, <2>3, LosesAtMost DEF OnceInv
<1>13. ASSUME NEW c \in Callbacks, TakeAll(c) PROVE T!Next
  <2>1. UNCHANGED <<turned, recorded>>
    BY <1>13 DEF TakeAll, hvars, chat, redis, output
  <2>2. \A m \in Messages : InHand(m)' => InHand(m)
    BY <1>13, TakesBuffer DEF InHand, Nothing, hvars, cvars, chat, redis, output
  <2>3. \A m \in Messages : Open(m)' => Open(m)
    BY <1>13 DEF Open, TakeAll, TypeOK, HandlerType, hvars, chat, redis, output
  <2> QED
    BY <2>1, <2>2, <2>3, LosesAtMost DEF OnceInv
<1>14. ASSUME NEW c \in Callbacks, Snapshot(c) PROVE T!Next
  <2>1. UNCHANGED <<turned, recorded>>
    BY <1>14 DEF Snapshot, hvars, chat, redis, output
  <2>2. \A m \in Messages : InHand(m)' => InHand(m)
    BY <1>14
    DEF InHand, Snapshot, CStep, CReturn, TypeOK, CallbackType, Nothing, hvars, chat, redis,
        output
  <2>3. \A m \in Messages : Open(m)' => Open(m)
    BY <1>14
    DEF Open, Snapshot, CStep, CReturn, TypeOK, CallbackType, Nothing, HandlerType, hvars,
        chat, redis, output
  <2> QED
    BY <2>1, <2>2, <2>3, LosesAtMost DEF OnceInv
<1>15. ASSUME NEW c \in Callbacks, PublishTurn(c) PROVE T!Next
  <2>1. /\ UNCHANGED <<buffer, recorded, hpc, hmsg>>
        /\ \A m \in Messages : turned'[m] = turned[m] + cbatch[c][m]
        /\ \A d \in Callbacks : cbatch'[d] = IF d = c THEN Nothing ELSE cbatch[d]
    BY <1>15, DropsBatch DEF PublishTurn, redis, hvars, chat
  <2>2. \A m \in Messages : Open(m)' <=> Open(m)
    BY <2>1, OpenKept
  <2>3. ASSUME NEW m \in Messages, cbatch[c][m] > 0
        PROVE  FateOf(m) = "held" /\ FateOf(m)' = "turned"
    <3>1. turned[m] = 0 /\ InHand(m)
      BY <2>3, Counts DEF OnceInv, OnePlace, InHand
    <3>2. turned'[m] > 0
      BY <2>1, <2>3, Counts
    <3> QED
      BY <3>1, <3>2 DEF FateOf
  <2>4. ASSUME NEW m \in Messages, ~(cbatch[c][m] > 0)
        PROVE  FateOf(m)' = FateOf(m)
    <3>1. cbatch[c][m] = 0
      BY <2>4, Counts
    <3>2. turned'[m] = turned[m] /\ \A d \in Callbacks : cbatch'[d][m] = cbatch[d][m]
      BY <2>1, <3>1, Counts
    <3>3. InHand(m)' <=> InHand(m)
      BY <2>1, <3>2 DEF InHand
    <3> QED
      BY <2>1, <2>2, <3>2, <3>3 DEF FateOf
  <2> QED
    BY <2>3, <2>4, MovesFates DEF T!Next
<1>16. ASSUME NEW o \in Operators, CancelTimer(o) PROVE T!Next
  <2>1. UNCHANGED <<turned, recorded>>
    BY <1>16 DEF CancelTimer, hvars, cvars, chat, redis, output
  <2>2. \A m \in Messages : InHand(m)' => InHand(m)
    BY <1>16 DEF InHand, CancelTimer, hvars, cvars, chat, redis, output
  <2>3. \A m \in Messages : Open(m)' => Open(m)
    BY <1>16 DEF Open, CancelTimer, TypeOK, HandlerType, hvars, cvars, chat, redis, output
  <2> QED
    BY <2>1, <2>2, <2>3, LosesAtMost DEF OnceInv
<1>17. ASSUME NEW o \in Operators, CancelKeys(o) PROVE T!Next
  <2>1. UNCHANGED <<turned, recorded>>
    BY <1>17 DEF CancelKeys, hvars, cvars, chat, output
  <2>2. \A m \in Messages : InHand(m)' => InHand(m)
    BY <1>17 DEF InHand, CancelKeys, OReturn, Nothing, hvars, cvars, chat, output
  <2>3. \A m \in Messages : Open(m)' => Open(m)
    BY <1>17
    DEF Open, CancelKeys, OReturn, Nothing, TypeOK, HandlerType, hvars, cvars, chat, output
  <2> QED
    BY <2>1, <2>2, <2>3, LosesAtMost DEF OnceInv
<1>18. CASE WindowExpires
  <2>1. UNCHANGED <<turned, recorded>>
    BY <1>18 DEF WindowExpires, hvars, cvars, chat, output
  <2>2. \A m \in Messages : InHand(m)' => InHand(m)
    BY <1>18 DEF InHand, WindowExpires, hvars, cvars, chat, output
  <2>3. \A m \in Messages : Open(m)' => Open(m)
    BY <1>18 DEF Open, WindowExpires, TypeOK, HandlerType, hvars, cvars, chat, output
  <2> QED
    BY <2>1, <2>2, <2>3, LosesAtMost DEF OnceInv
<1>19. CASE PauseLapses
  <2>1. UNCHANGED <<turned, recorded>>
    BY <1>19 DEF PauseLapses, hvars, redis, output
  <2>2. \A m \in Messages : InHand(m)' => InHand(m)
    BY <1>19 DEF InHand, PauseLapses, hvars, redis, output
  <2>3. \A m \in Messages : Open(m)' => Open(m)
    BY <1>19 DEF Open, PauseLapses, TypeOK, HandlerType, hvars, redis, output
  <2> QED
    BY <2>1, <2>2, <2>3, LosesAtMost DEF OnceInv
<1>20. CASE ListExpires
  <2>1. UNCHANGED <<turned, recorded>>
    BY <1>20 DEF ListExpires, hvars, cvars, chat, output
  <2>2. \A m \in Messages : InHand(m)' => InHand(m)
    BY <1>20 DEF InHand, ListExpires, Nothing, hvars, cvars, chat, output
  <2>3. \A m \in Messages : Open(m)' => Open(m)
    BY <1>20 DEF Open, ListExpires, Nothing, TypeOK, HandlerType, hvars, cvars, chat, output
  <2> QED
    BY <2>1, <2>2, <2>3, LosesAtMost DEF OnceInv
<1>21. ASSUME NEW h \in Handlers, DedupFails(h) PROVE T!Next
  <2>1. UNCHANGED <<turned, recorded>>
    BY <1>21 DEF DedupFails, cvars, chat, redis, output
  <2>2. \A m \in Messages : InHand(m)' => InHand(m)
    BY <1>21 DEF InHand, DedupFails, HReturn, cvars, chat, redis, output
  <2>3. \A m \in Messages : Open(m)' => Open(m)
    BY <1>21 DEF Open, DedupFails, HReturn, TypeOK, HandlerType, cvars, chat, redis, output
  <2> QED
    BY <2>1, <2>2, <2>3, LosesAtMost DEF OnceInv
<1>22. ASSUME NEW h \in Handlers, RecordFails(h) PROVE T!Next
  <2>1. UNCHANGED <<turned, recorded>>
    BY <1>22 DEF RecordFails, cvars, chat, redis, output
  <2>2. \A m \in Messages : InHand(m)' => InHand(m)
    BY <1>22 DEF InHand, RecordFails, HStep, cvars, chat, redis, output
  <2>3. \A m \in Messages : Open(m)' => Open(m)
    BY <1>22
    DEF OnceInv, HandlersOnce, Open, RecordFails, HStep, TypeOK, HandlerType, cvars, chat,
        redis, output
  <2> QED
    BY <2>1, <2>2, <2>3, LosesAtMost DEF OnceInv
<1>23. ASSUME NEW h \in Handlers, TellFails(h) PROVE T!Next
  <2>1. UNCHANGED <<turned, recorded>>
    BY <1>23 DEF TellFails, cvars, chat, redis, output
  <2>2. \A m \in Messages : InHand(m)' => InHand(m)
    BY <1>23 DEF InHand, TellFails, HReturn, cvars, chat, redis, output
  <2>3. \A m \in Messages : Open(m)' => Open(m)
    BY <1>23 DEF Open, TellFails, HReturn, TypeOK, HandlerType, cvars, chat, redis, output
  <2> QED
    BY <2>1, <2>2, <2>3, LosesAtMost DEF OnceInv
<1>24. ASSUME NEW h \in Handlers, EnqueueFails(h) PROVE T!Next
  <2>1. UNCHANGED <<turned, recorded>>
    BY <1>24 DEF EnqueueFails, cvars, chat, output
  <2>2. \A m \in Messages : InHand(m)' => InHand(m)
    BY <1>24 DEF InHand, EnqueueFails, HReturn, Leave, cvars, chat, output
  <2>3. \A m \in Messages : Open(m)' => Open(m)
    BY <1>24 DEF Open, EnqueueFails, HReturn, Leave, TypeOK, HandlerType, cvars, chat, output
  <2> QED
    BY <2>1, <2>2, <2>3, LosesAtMost DEF OnceInv
<1>25. ASSUME NEW c \in Callbacks, ScriptFails(c) PROVE T!Next
  <2>1. UNCHANGED <<turned, recorded>>
    BY <1>25 DEF ScriptFails, hvars, chat, output
  <2>2. \A m \in Messages : InHand(m)' => InHand(m)
    BY <1>25
    DEF InHand, ScriptFails, CReturn, Leave, TypeOK, CallbackType, Nothing, hvars, chat,
        output
  <2>3. \A m \in Messages : Open(m)' => Open(m)
    BY <1>25
    DEF Open, ScriptFails, CReturn, Leave, TypeOK, CallbackType, Nothing, HandlerType, hvars,
        chat, output
  <2> QED
    BY <2>1, <2>2, <2>3, LosesAtMost DEF OnceInv
<1>26. ASSUME NEW c \in Callbacks, SnapshotFails(c) PROVE T!Next
  <2>1. UNCHANGED <<turned, recorded>>
    BY <1>26 DEF SnapshotFails, hvars, chat, redis, output
  <2>2. \A m \in Messages : InHand(m)' => InHand(m)
    BY <1>26 DEF InHand, SnapshotFails, hvars, chat, redis, output
  <2>3. \A m \in Messages : Open(m)' => Open(m)
    BY <1>26 DEF Open, SnapshotFails, TypeOK, HandlerType, hvars, chat, redis, output
  <2> QED
    BY <2>1, <2>2, <2>3, LosesAtMost DEF OnceInv
<1>27. ASSUME NEW c \in Callbacks, PublishFails(c) PROVE T!Next
  <2>1. UNCHANGED <<turned, recorded>>
    BY <1>27 DEF PublishFails, hvars, chat, redis, output
  <2>2. \A m \in Messages : InHand(m)' => InHand(m)
    BY <1>27
    DEF InHand, PublishFails, CReturn, TypeOK, CallbackType, Nothing, hvars, chat, redis,
        output
  <2>3. \A m \in Messages : Open(m)' => Open(m)
    BY <1>27
    DEF Open, PublishFails, CReturn, TypeOK, CallbackType, Nothing, HandlerType, hvars, chat,
        redis, output
  <2> QED
    BY <2>1, <2>2, <2>3, LosesAtMost DEF OnceInv
<1>28. ASSUME NEW o \in Operators, CancelFails(o) PROVE T!Next
  <2>1. UNCHANGED <<turned, recorded>>
    BY <1>28 DEF CancelFails, hvars, cvars, chat, output
  <2>2. \A m \in Messages : InHand(m)' => InHand(m)
    BY <1>28 DEF InHand, CancelFails, OReturn, Leave, hvars, cvars, chat, output
  <2>3. \A m \in Messages : Open(m)' => Open(m)
    BY <1>28
    DEF Open, CancelFails, OReturn, Leave, TypeOK, HandlerType, hvars, cvars, chat, output
  <2> QED
    BY <2>1, <2>2, <2>3, LosesAtMost DEF OnceInv
<1>29. ASSUME NEW p \in Procs, Restart(p) PROVE T!Next
  <2>1. UNCHANGED <<turned, recorded>>
    BY <1>29 DEF Restart, chat, output
  <2>2. \A m \in Messages : InHand(m)' => InHand(m)
    BY <1>29 DEF InHand, Restart, Leave, TypeOK, CallbackType, Nothing, chat, output
  <2>3. \A m \in Messages : Open(m)' => Open(m)
    BY <1>29 DEF Open, Restart, Leave, TypeOK, CallbackType, Nothing, HandlerType, chat, output
  <2> QED
    BY <2>1, <2>2, <2>3, LosesAtMost DEF OnceInv
<1>30. ASSUME NEW o \in Operators, NEW p \in Procs,
          HumanReply(o, p) \/ \E mode \in {"active", "paused", "off"} : SetAI(o, p, mode)
   PROVE  T!Next \/ UNCHANGED [m \in Messages |-> Fate(m)]
  <2>1. PICK mode \in {"active", "paused", "off"}, cancel \in BOOLEAN : CommitAI(o, p, mode, cancel)
    BY <1>30, OperatorCalls
  <2> QED
    <3>1. UNCHANGED <<turned, recorded, buffer, cbatch, hpc, hmsg>>
      BY <2>1 DEF CommitAI, hvars, redis, output
    <3> QED
      BY <3>1, HandsKept, OpenKept, LosesAtMost DEF OnceInv
<1>31. CASE UNCHANGED vars
  <2>1. UNCHANGED <<turned, recorded, buffer, cbatch, hpc, hmsg>>
    BY <1>31 DEF vars, hvars, cvars, chat, redis, output
  <2> QED
    BY <2>1, HandsKept, OpenKept, LosesAtMost DEF OnceInv
<1> QED
  BY <1>1, <1>2, <1>3, <1>4, <1>5, <1>6, <1>7, <1>8, <1>9, <1>10, <1>11, <1>12, <1>13, <1>14,
     <1>15, <1>16, <1>17, <1>18, <1>19, <1>20, <1>21, <1>22, <1>23, <1>24, <1>25, <1>26,
     <1>27, <1>28, <1>29, <1>30, <1>31
  DEF Next, HandlerStep, CallbackStep, OperatorStep, Fault

(* Whatever the replicas, the timers, the handoff and the faults do, every
   message goes through the stages of Turns once and never backwards.       *)
THEOREM InboundImplementsTurns == Spec => ImplementsTurns
<1>1. Init => T!Init
  <2> SUFFICES ASSUME Init PROVE \A m \in Messages : Fate(m) = "new"
    BY DEF T!Init
  <2>1. TypeOK
    BY TypeInit
  <2> QED
    BY <2>1, FateIs DEF Init, FateOf, InHand, Nothing
<1>2. TypeOK /\ TypeOK' /\ OnceInv /\ [Next]_vars => [T!Next]_[m \in Messages |-> Fate(m)]
  BY TurnsStep
<1> QED
  BY <1>1, <1>2, TypeCorrect, OnceInvariant, PTL DEF Spec, ImplementsTurns, T!Spec

=============================================================================
