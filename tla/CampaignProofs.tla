--------------------------- MODULE CampaignProofs ---------------------------
(***************************************************************************)
(* Proofs about Campaign, for any number of calls, processes, recipients   *)
(* and messages.  Types is inductive by itself; HaltInv and SentInv are    *)
(* the strengthenings that make HaltsPromptly and SentWasIngested so.      *)
(***************************************************************************)
EXTENDS Campaign, WellFoundedInduction, TLAPS

USE CampaignAssumption

(* A non-empty set of recipients has a least member, which Current picks.  *)
LEMMA LeastExists ==
  ASSUME NEW S \in SUBSET Nat, S # {}
  PROVE  \E r \in S : \A x \in S : r <= x
<1> DEFINE R == OpToRel(<, Nat)
<1>0. IsWellFoundedOn(R, Nat)
  BY NatLessThanWellFounded
<1> HIDE DEF R
<1>a. S \subseteq Nat
  OBVIOUS
<1>1. PICK r \in S : \A y \in S : ~(<<y, r>> \in R)
  BY ONLY <1>0, <1>a, S # {}, WFMin, Zenon
<1>2. \A y \in S : ~(y < r)
  BY <1>1 DEF R, OpToRel
<1>3. \A x \in S : x \in Nat
  OBVIOUS
<1>4. \A x \in S : r <= x
  BY <1>2, <1>3
<1> QED
  BY <1>4

LEMMA CurrentIsOne ==
  ASSUME NEW w \in Workers, TypeOK, run[w].todo # {}
  PROVE  Current(w) \in run[w].todo
<1>1. run[w].todo \in SUBSET Nat
  BY DEF TypeOK, RunType
<1>2. \E r \in run[w].todo : \A x \in run[w].todo : r <= x
  BY <1>1, LeastExists
<1> QED
  BY <1>2 DEF Current

-----------------------------------------------------------------------------
(* What the helpers leave behind.                                          *)

CallLabels == Verbs \cup {"idle", "announce", "trigger", "restore", "rollback", "list",
                          "publish", "complete"}
RunLabels  == {"idle", "start", "resolve", "mark", "batches", "begin", "next", "send", "sent",
               "seen", "refused", "count", "ack"}
OnOne      == {"send", "sent", "seen", "refused", "count"}

LEMMA UpdateStatusType ==
  ASSUME NEW s \in Statuses, TypeOK, UpdateStatus(s)
  PROVE  status' \in Statuses /\ over' \in [Workers -> Nat] /\ cut' \in BOOLEAN
BY DEF UpdateStatus, TypeOK, CampaignType, Statuses

LEMMA FaultType ==
  ASSUME TypeOK, Fault
  PROVE  BoundsType'
BY DEF Fault, TypeOK, BoundsType

LEMMA StoredType ==
  ASSUME NEW id \in Nat \cup {Fresh}, NEW to \in SUBSET Recipients, TypeOK, Stored(id, to)
  PROVE  BrokerType' /\ last' >= last
<1>1. CASE id \in recent
  <2>1. UNCHANGED <<msg, last, queue, num, recent>>
    BY <1>1 DEF Stored, broker
  <2> QED
    BY <2>1 DEF TypeOK, BrokerType
<1>2. CASE id \notin recent
  <2>1. /\ last < MaxMsgs /\ last' = last + 1 /\ num' = num
        /\ msg' = [msg EXCEPT ![last + 1] = [id |-> id, to |-> to]]
        /\ queue' = [queue EXCEPT ![last + 1] = "ready"]
        /\ recent' = IF id = Fresh THEN recent ELSE recent \cup {id}
    BY <1>2 DEF Stored
  <2>2. last' \in 0 .. MaxMsgs /\ last' >= last /\ last + 1 \in MsgIds
    BY <2>1 DEF TypeOK, BrokerType, MsgIds
  <2>3. msg' \in [MsgIds -> [id : Nat \cup {Fresh}, to : SUBSET Recipients]]
    BY <2>1 DEF TypeOK, BrokerType
  <2>4. queue' \in [MsgIds -> {"none", "ready", "pending", "acked"}]
    BY <2>1 DEF TypeOK, BrokerType
  <2>5. \A i \in MsgIds : queue'[i] = "none" <=> i > last'
    BY <2>1 DEF TypeOK, BrokerType, MsgIds
  <2>6. recent' \subseteq Nat
    BY <2>1 DEF TypeOK, BrokerType
  <2> QED
    BY <2>1, <2>2, <2>3, <2>4, <2>5, <2>6 DEF TypeOK, BrokerType
<1> QED
  BY <1>1, <1>2

LEMMA LostType ==
  ASSUME NEW id \in Nat \cup {Fresh}, NEW to \in SUBSET Recipients, TypeOK, Lost(id, to)
  PROVE  BrokerType' /\ last' >= last
<1>1. CASE Stored(id, to)
  BY <1>1, StoredType
<1>2. CASE UNCHANGED broker
  BY <1>2 DEF broker, TypeOK, BrokerType
<1> QED
  BY <1>1, <1>2 DEF Lost

LEMMA CallKept ==
  ASSUME TypeOK, UNCHANGED call
  PROVE  CallType'
BY DEF TypeOK, CallType

LEMMA CallMoved ==
  ASSUME NEW c \in Callers, NEW at \in CallLabels, TypeOK, Goto(c, at) \/ Return(c)
  PROVE  CallType'
<1>1. NoCall \in [at : CallLabels, from : Statuses, todo : SUBSET Recipients, sent : Nat]
  BY DEF NoCall, Call, CallLabels, Statuses
<1>2. call' \in [Callers -> [at : CallLabels, from : Statuses, todo : SUBSET Recipients, sent : Nat]]
  BY <1>1 DEF TypeOK, CallType, Goto, Return, CallLabels
<1> QED
  BY <1>2 DEF CallType, CallLabels

LEMMA RunKept ==
  ASSUME TypeOK, UNCHANGED run, last' \in Nat, last' >= last
  PROVE  RunType'
BY DEF TypeOK, RunType, BrokerType

LEMMA RunMoved ==
  ASSUME NEW w \in Workers, NEW at \in RunLabels, TypeOK, Step(w, at), run[w].at # "idle",
         at \in OnOne => run[w].todo # {}, last' \in Nat, last' >= last
  PROVE  RunType'
<1>1. run' = [run EXCEPT ![w].at = at]
  BY DEF Step
<1>2. run' \in [Workers -> [at : RunLabels, msg : 0 .. last', todo : SUBSET Recipients, n : Nat]]
  BY <1>1 DEF TypeOK, RunType, RunLabels, BrokerType
<1>3. \A v \in Workers : run'[v].at \in OnOne => run'[v].todo # {}
  BY <1>1 DEF TypeOK, RunType, OnOne
<1>4. \A v \in Workers : run'[v].at # "idle" => run'[v].msg # 0
  BY <1>1 DEF TypeOK, RunType
<1> QED
  BY <1>2, <1>3, <1>4 DEF RunType, RunLabels, OnOne

\* A handler set to a whole new record.
LEMMA RunReplaced ==
  ASSUME NEW w \in Workers, NEW at \in RunLabels, NEW i \in 0 .. last, NEW todo \in SUBSET Recipients,
         NEW n \in Nat, TypeOK, run' = [run EXCEPT ![w] = Run(at, i, todo, n)],
         at \in OnOne => todo # {}, at # "idle" => i # 0, last' \in Nat, last' >= last
  PROVE  RunType'
<1>1. run' \in [Workers -> [at : RunLabels, msg : 0 .. last', todo : SUBSET Recipients, n : Nat]]
  BY DEF TypeOK, RunType, RunLabels, BrokerType, Run
<1>2. \A v \in Workers : run'[v].at \in OnOne => run'[v].todo # {}
  BY DEF TypeOK, RunType, OnOne, Run
<1>3. \A v \in Workers : run'[v].at # "idle" => run'[v].msg # 0
  BY DEF TypeOK, RunType, Run
<1> QED
  BY <1>1, <1>2, <1>3 DEF RunType, RunLabels, OnOne

-----------------------------------------------------------------------------
(* Types.                                                                  *)

LEMMA InitTypes == Init => TypeOK
<1> SUFFICES ASSUME Init PROVE TypeOK
  OBVIOUS
<1>1. CampaignType
  BY DEF Init, CampaignType, Statuses
<1>2. BrokerType
  BY DEF Init, BrokerType, NoMsg, Fresh, MsgIds
<1>3. CallType
  BY DEF Init, CallType, NoCall, Call, Statuses
<1>4. RunType
  BY DEF Init, RunType, NoRun, Run
<1>5. BoundsType
  BY DEF Init, BoundsType
<1> QED
  BY <1>1, <1>2, <1>3, <1>4, <1>5 DEF TypeOK

LEMMA CallTypes ==
  ASSUME NEW c \in Callers, TypeOK,
         ClaimDue(c) \/ Continue(c) \/ \E verb \in Verbs : Request(c, verb)
  PROVE  TypeOK'
<1>1. CASE ClaimDue(c)
  <2>1. CampaignType'
    BY <1>1, UpdateStatusType, "sending" \in Statuses DEF ClaimDue, TypeOK, CampaignType, Statuses
  <2>2. BrokerType' /\ last' >= last
    BY <1>1 DEF ClaimDue, broker, TypeOK, BrokerType
  <2>3. CallType'
    <3>1. call' = [call EXCEPT ![c] = Call("trigger", "scheduled", {}, sent)]
      BY <1>1 DEF ClaimDue
    <3> QED
      BY <3>1 DEF TypeOK, CallType, CampaignType, Call, Statuses, Verbs
  <2>4. RunType'
    BY <1>1, <2>2, RunKept DEF ClaimDue, TypeOK, BrokerType
  <2>5. BoundsType'
    BY <1>1 DEF ClaimDue, bounds, TypeOK, BoundsType
  <2> QED
    BY <2>1, <2>2, <2>3, <2>4, <2>5 DEF TypeOK
<1>2. ASSUME NEW verb \in Verbs, Request(c, verb)
     PROVE  TypeOK'
  <2>1. CampaignType'
    BY <1>2 DEF Request, campaign, TypeOK, CampaignType
  <2>2. BrokerType' /\ last' >= last
    BY <1>2 DEF Request, broker, TypeOK, BrokerType
  <2>3. CallType'
    <3>1. call' = [call EXCEPT ![c] = Call(verb, status, {}, sent)]
      BY <1>2 DEF Request
    <3> QED
      BY <3>1 DEF TypeOK, CallType, CampaignType, Call, Statuses, Verbs
  <2>4. RunType'
    BY <1>2, <2>2, RunKept DEF Request, TypeOK, BrokerType
  <2>5. BoundsType'
    BY <1>2 DEF Request, bounds, TypeOK, BoundsType
  <2> QED
    BY <2>1, <2>2, <2>3, <2>4, <2>5 DEF TypeOK
<1>3. CASE Start(c)
  <2>1. CampaignType'
    BY <1>3, UpdateStatusType, "sending" \in Statuses DEF Start, TypeOK, CampaignType, Statuses
  <2>2. BrokerType' /\ last' >= last
    BY <1>3 DEF Start, broker, TypeOK, BrokerType
  <2>3. CallType'
    BY <1>3, CallMoved, "announce" \in CallLabels DEF Start, CallLabels, Verbs
  <2>4. RunType'
    BY <1>3, <2>2, RunKept DEF Start, TypeOK, BrokerType
  <2>5. BoundsType'
    BY <1>3 DEF Start, bounds, TypeOK, BoundsType
  <2> QED
    BY <2>1, <2>2, <2>3, <2>4, <2>5 DEF TypeOK
<1>4. CASE Pause(c)
  <2>1. CampaignType'
    BY <1>4, UpdateStatusType, "paused" \in Statuses DEF Pause, TypeOK, CampaignType, Statuses
  <2>2. BrokerType' /\ last' >= last
    BY <1>4 DEF Pause, broker, TypeOK, BrokerType
  <2>3. CallType'
    BY <1>4, CallMoved, "idle" \in CallLabels DEF Pause, CallLabels, Verbs
  <2>4. RunType'
    BY <1>4, <2>2, RunKept DEF Pause, TypeOK, BrokerType
  <2>5. BoundsType'
    BY <1>4 DEF Pause, bounds, TypeOK, BoundsType
  <2> QED
    BY <2>1, <2>2, <2>3, <2>4, <2>5 DEF TypeOK
<1>5. CASE Cancel(c)
  <2>1. CampaignType'
    BY <1>5, UpdateStatusType, "cancelled" \in Statuses DEF Cancel, TypeOK, CampaignType, Statuses
  <2>2. BrokerType' /\ last' >= last
    BY <1>5 DEF Cancel, broker, TypeOK, BrokerType
  <2>3. CallType'
    BY <1>5, CallMoved, "idle" \in CallLabels DEF Cancel, CallLabels, Verbs
  <2>4. RunType'
    BY <1>5, <2>2, RunKept DEF Cancel, TypeOK, BrokerType
  <2>5. BoundsType'
    BY <1>5 DEF Cancel, bounds, TypeOK, BoundsType
  <2> QED
    BY <2>1, <2>2, <2>3, <2>4, <2>5 DEF TypeOK
<1>6. CASE Delete(c)
  <2>1. CampaignType'
    BY <1>6, UpdateStatusType, "deleted" \in Statuses DEF Delete, TypeOK, CampaignType, Statuses
  <2>2. BrokerType' /\ last' >= last
    BY <1>6 DEF Delete, broker, TypeOK, BrokerType
  <2>3. CallType'
    BY <1>6, CallMoved, "idle" \in CallLabels DEF Delete, CallLabels, Verbs
  <2>4. RunType'
    BY <1>6, <2>2, RunKept DEF Delete, TypeOK, BrokerType
  <2>5. BoundsType'
    BY <1>6 DEF Delete, bounds, TypeOK, BoundsType
  <2> QED
    BY <2>1, <2>2, <2>3, <2>4, <2>5 DEF TypeOK
<1>7. CASE Resume(c)
  <2>1. CampaignType'
    BY <1>7, UpdateStatusType, "sending" \in Statuses DEF Resume, TypeOK, CampaignType, Statuses
  <2>2. BrokerType' /\ last' >= last
    BY <1>7 DEF Resume, broker, TypeOK, BrokerType
  <2>3. CallType'
    BY <1>7, CallMoved, "list" \in CallLabels DEF Resume, CallLabels, Verbs
  <2>4. RunType'
    BY <1>7, <2>2, RunKept DEF Resume, TypeOK, BrokerType
  <2>5. BoundsType'
    BY <1>7 DEF Resume, bounds, TypeOK, BoundsType
  <2> QED
    BY <2>1, <2>2, <2>3, <2>4, <2>5 DEF TypeOK
<1>8. CASE Complete(c)
  <2>1. CampaignType'
    BY <1>8, UpdateStatusType, "completed" \in Statuses DEF Complete, TypeOK, CampaignType, Statuses
  <2>2. BrokerType' /\ last' >= last
    BY <1>8 DEF Complete, broker, TypeOK, BrokerType
  <2>3. CallType'
    BY <1>8, CallMoved, "idle" \in CallLabels DEF Complete, CallLabels, Verbs
  <2>4. RunType'
    BY <1>8, <2>2, RunKept DEF Complete, TypeOK, BrokerType
  <2>5. BoundsType'
    BY <1>8 DEF Complete, bounds, TypeOK, BoundsType
  <2> QED
    BY <2>1, <2>2, <2>3, <2>4, <2>5 DEF TypeOK
<1>9. CASE CallFails(c)
  <2>1. CampaignType'
    <3>1. /\ UNCHANGED campaign \/ \E s \in Statuses : UpdateStatus(s)
          /\ row' = row \/ row' = [r \in Recipients |-> "none"]
      BY <1>9 DEF CallFails, Target, Statuses
    <3>2. status' \in Statuses /\ over' \in [Workers -> Nat] /\ cut' \in BOOLEAN
      BY <3>1, UpdateStatusType DEF campaign, TypeOK, CampaignType
    <3> QED
      BY <1>9, <3>1, <3>2 DEF CallFails, TypeOK, CampaignType
  <2>2. BrokerType' /\ last' >= last
    BY <1>9 DEF CallFails, broker, TypeOK, BrokerType
  <2>3. CallType'
    BY <1>9, CallMoved, "idle" \in CallLabels DEF CallFails, CallLabels, Verbs
  <2>4. RunType'
    BY <1>9, <2>2, RunKept DEF CallFails, TypeOK, BrokerType
  <2>5. BoundsType'
    BY <1>9, FaultType DEF CallFails
  <2> QED
    BY <2>1, <2>2, <2>3, <2>4, <2>5 DEF TypeOK
<1>10. CASE Announce(c)
  <2>1. CampaignType'
    BY <1>10 DEF Announce, campaign, TypeOK, CampaignType
  <2>2. BrokerType' /\ last' >= last
    BY <1>10, StoredType, LostType, StartId \in Nat \cup {Fresh}, {} \in SUBSET Recipients DEF Announce, StartId
  <2>3. CallType'
    BY <1>10, CallMoved, "restore" \in CallLabels, "rollback" \in CallLabels DEF Announce, CallLabels
  <2>4. RunType'
    BY <1>10, <2>2, RunKept DEF Announce, TypeOK, BrokerType
  <2>5. BoundsType'
    BY <1>10, FaultType DEF Announce, bounds, TypeOK, BoundsType
  <2> QED
    BY <2>1, <2>2, <2>3, <2>4, <2>5 DEF TypeOK
<1>11. CASE Restore(c)
  <2>1. CampaignType'
    <3>1. call[c].from \in Statuses /\ "scheduled" \in Statuses
      BY DEF TypeOK, CallType, Statuses
    <3> QED
      BY <1>11, <3>1, UpdateStatusType DEF Restore, campaign, TypeOK, CampaignType
  <2>2. BrokerType' /\ last' >= last
    BY <1>11 DEF Restore, broker, TypeOK, BrokerType
  <2>3. CallType'
    BY <1>11, CallMoved, "idle" \in CallLabels DEF Restore, CallLabels, Verbs
  <2>4. RunType'
    BY <1>11, <2>2, RunKept DEF Restore, TypeOK, BrokerType
  <2>5. BoundsType'
    BY <1>11 DEF Restore, bounds, TypeOK, BoundsType
  <2> QED
    BY <2>1, <2>2, <2>3, <2>4, <2>5 DEF TypeOK
<1>12. CASE ListPending(c)
  <2>1. CampaignType'
    BY <1>12 DEF ListPending, campaign, TypeOK, CampaignType
  <2>2. BrokerType' /\ last' >= last
    BY <1>12 DEF ListPending, broker, TypeOK, BrokerType
  <2>3. CallType'
    <3>1. Remaining(c) \in SUBSET Recipients
      <4>1. \A i \in call[c].sent + 1 .. Len(Upload) : Upload[i] \in Recipients
        BY UploadAssumption DEF TypeOK, CallType
      <4> QED
        BY <4>1 DEF Remaining
    <3>2. PICK at \in {"complete", "publish"} :
            call' = [call EXCEPT ![c] = Call(at, call[c].from, Remaining(c), call[c].sent)]
      BY <1>12 DEF ListPending
    <3> QED
      BY <3>1, <3>2 DEF TypeOK, CallType, Call
  <2>4. RunType'
    BY <1>12, <2>2, RunKept DEF ListPending, TypeOK, BrokerType
  <2>5. BoundsType'
    BY <1>12 DEF ListPending, bounds, TypeOK, BoundsType
  <2> QED
    BY <2>1, <2>2, <2>3, <2>4, <2>5 DEF TypeOK
<1>13. CASE Republish(c)
  <2>0. NextBatch(call[c].todo) \in SUBSET Recipients /\ Fresh \in Nat \cup {Fresh}
    BY DEF NextBatch, TypeOK, CallType
  <2>1. CampaignType'
    BY <1>13 DEF Republish, campaign, TypeOK, CampaignType
  <2>2. BrokerType' /\ last' >= last
    BY <1>13, <2>0, StoredType, LostType DEF Republish
  <2>3. CallType'
    <3>1. CASE Return(c)
      BY <3>1, CallMoved, "idle" \in CallLabels DEF CallLabels
    <3>2. CASE call' = [call EXCEPT ![c].todo = @ \ NextBatch(call[c].todo)]
      BY <3>2 DEF TypeOK, CallType
    <3> QED
      BY <1>13, <3>1, <3>2 DEF Republish
  <2>4. RunType'
    BY <1>13, <2>2, RunKept DEF Republish, TypeOK, BrokerType
  <2>5. BoundsType'
    BY <1>13, FaultType DEF Republish, bounds, TypeOK, BoundsType
  <2> QED
    BY <2>1, <2>2, <2>3, <2>4, <2>5 DEF TypeOK
<1> QED
  BY <1>1, <1>2, <1>3, <1>4, <1>5, <1>6, <1>7, <1>8, <1>9, <1>10, <1>11, <1>12, <1>13 DEF Continue

LEMMA BrokerTypes ==
  ASSUME TypeOK,
         \/ \E j \in MsgIds : AckWait(j) \/ \E v \in Workers : Take(v, j)
         \/ \E id \in recent : WindowPasses(id)
  PROVE  TypeOK'
<1>1. ASSUME NEW j \in MsgIds, AckWait(j)
      PROVE  TypeOK'
  <2>1. CampaignType'
    BY <1>1 DEF AckWait, campaign, TypeOK, CampaignType
  <2>2. BrokerType' /\ last' >= last
    <3>1. last' = last /\ UNCHANGED <<msg, num, recent>> /\ last \in Nat
      BY <1>1 DEF AckWait, TypeOK, BrokerType
    <3>2. /\ queue' \in [MsgIds -> {"none", "ready", "pending", "acked"}]
          /\ \A i \in MsgIds : queue'[i] = "none" <=> queue[i] = "none"
      BY <1>1 DEF AckWait, TypeOK, BrokerType
    <3> QED
      BY <3>1, <3>2 DEF TypeOK, BrokerType
  <2>3. CallType'
    BY <1>1, CallKept DEF AckWait
  <2>4. RunType'
    BY <1>1, <2>2, RunKept DEF AckWait, TypeOK, BrokerType
  <2>5. BoundsType'
    BY <1>1 DEF AckWait, bounds, TypeOK, BoundsType
  <2> QED
    BY <2>1, <2>2, <2>3, <2>4, <2>5 DEF TypeOK
<1>2. ASSUME NEW j \in MsgIds, NEW w \in Workers, Take(w, j)
      PROVE  TypeOK'
  <2>1. CampaignType'
    BY <1>2 DEF Take, campaign, TypeOK, CampaignType
  <2>2. BrokerType' /\ last' >= last
    <3>1. queue[j] = "ready" /\ num[j] < MaxDeliver
      BY <1>2 DEF Take, Ready
    <3> QED
      BY <1>2, <3>1 DEF Take, TypeOK, BrokerType, MsgIds
  <2>3. CallType'
    BY <1>2, CallKept DEF Take
  <2>4. RunType'
    <3>1. j \in 0 .. last /\ j # 0
      BY <1>2 DEF Take, Ready, TypeOK, BrokerType, MsgIds
    <3>2. PICK at \in {"start", "begin"} : run' = [run EXCEPT ![w] = Run(at, j, msg[j].to, 0)]
      BY <1>2 DEF Take
    <3>3. msg[j].to \in SUBSET Recipients /\ at \in RunLabels /\ at \notin OnOne /\ last' \in Nat
      BY <2>2 DEF TypeOK, BrokerType, RunLabels, OnOne
    <3>4. last' >= last /\ 0 \in Nat
      BY <2>2
    <3> QED
      BY ONLY <3>1, <3>2, <3>3, <3>4, TypeOK, RunReplaced, Zenon
  <2>5. BoundsType'
    BY <1>2 DEF Take, bounds, TypeOK, BoundsType
  <2> QED
    BY <2>1, <2>2, <2>3, <2>4, <2>5 DEF TypeOK
<1>3. ASSUME NEW id \in recent, WindowPasses(id)
      PROVE  TypeOK'
  <2>1. CampaignType'
    BY <1>3 DEF WindowPasses, campaign, TypeOK, CampaignType
  <2>2. BrokerType' /\ last' >= last
    BY <1>3 DEF WindowPasses, broker, TypeOK, BrokerType
  <2>3. CallType'
    BY <1>3, CallKept DEF WindowPasses
  <2>4. RunType'
    BY <1>3, <2>2, RunKept DEF WindowPasses, TypeOK, BrokerType
  <2>5. BoundsType'
    BY <1>3 DEF WindowPasses, bounds, TypeOK, BoundsType
  <2> QED
    BY <2>1, <2>2, <2>3, <2>4, <2>5 DEF TypeOK
<1> QED
  BY <1>1, <1>2, <1>3

\* The process of w is killed.
Killed(w) == \E killed \in SUBSET Callers : Crash(w, killed)

LEMMA HandleTypes ==
  ASSUME NEW w \in Workers, TypeOK, Handle(w) \/ Killed(w) \/ Stop(w)
  PROVE  TypeOK'
<1>1. CASE ReadStart(w)
  <2>1. CampaignType'
    BY <1>1 DEF ReadStart, campaign, TypeOK, CampaignType
  <2>2. BrokerType' /\ last' >= last
    BY <1>1 DEF ReadStart, broker, TypeOK, BrokerType
  <2>3. CallType'
    BY <1>1, CallKept DEF ReadStart
  <2>4. RunType'
    <3>1. run[w].at # "idle" /\ last' \in Nat
      BY <1>1, <2>2 DEF ReadStart, TypeOK, BrokerType
    <3>2. PICK at \in {"ack", "resolve"} : Step(w, at)
      BY <1>1 DEF ReadStart
    <3>3. at \in RunLabels /\ (at \in OnOne => run[w].todo # {})
      BY <1>1 DEF ReadStart, RunLabels, OnOne, TypeOK, RunType
    <3> QED
      BY <3>1, <3>2, <3>3, <2>2, RunMoved
  <2>5. BoundsType'
    BY <1>1, FaultType DEF ReadStart, bounds, TypeOK, BoundsType
  <2> QED
    BY <2>1, <2>2, <2>3, <2>4, <2>5 DEF TypeOK
<1>2. CASE Resolve(w)
  <2>1. CampaignType'
    <3>1. row' \in [Recipients -> {"none", "pending", "sent", "failed"}]
      BY <1>2 DEF Resolve, AddRecipients, TypeOK, CampaignType
    <3>2. status' \in Statuses /\ over' \in [Workers -> Nat] /\ cut' \in BOOLEAN
      BY <1>2, UpdateStatusType, "completed" \in Statuses, "failed" \in Statuses
         DEF Resolve, campaign, TypeOK, CampaignType, Statuses
    <3> QED
      BY <1>2, <3>1, <3>2 DEF Resolve, TypeOK, CampaignType
  <2>2. BrokerType' /\ last' >= last
    BY <1>2 DEF Resolve, broker, TypeOK, BrokerType
  <2>3. CallType'
    BY <1>2, CallKept DEF Resolve
  <2>4. RunType'
    <3>1. run[w].at = "resolve" /\ last' \in Nat
      BY <1>2, <2>2 DEF Resolve, TypeOK, BrokerType
    <3>2. CASE Step(w, "ack")
      BY <3>1, <3>2, <2>2, RunMoved, "ack" \in RunLabels, "ack" \notin OnOne DEF RunLabels, OnOne
    <3>3. ASSUME NEW to \in Audiences \ {{}}, run' = [run EXCEPT ![w] = Run("mark", run[w].msg, to, 0)]
          PROVE  RunType'
      <4>1. /\ to \in SUBSET Recipients /\ 0 \in Nat /\ last' >= last
            /\ run[w].msg \in 0 .. last /\ run[w].msg # 0
            /\ "mark" \in RunLabels /\ "mark" \notin OnOne
        BY <3>1, <2>2 DEF TypeOK, RunType, RunLabels, OnOne
      <4> QED
        BY ONLY <3>1, <3>3, <4>1, TypeOK, w \in Workers, RunReplaced, Zenon
    <3> QED
      BY <1>2, <3>2, <3>3 DEF Resolve
  <2>5. BoundsType'
    BY <1>2, FaultType DEF Resolve, bounds, TypeOK, BoundsType
  <2> QED
    BY <2>1, <2>2, <2>3, <2>4, <2>5 DEF TypeOK
<1>3. CASE MarkSending(w)
  <2>1. CampaignType'
    BY <1>3, UpdateStatusType, "sending" \in Statuses DEF MarkSending, campaign, TypeOK, CampaignType, Statuses
  <2>2. BrokerType' /\ last' >= last
    BY <1>3 DEF MarkSending, broker, TypeOK, BrokerType
  <2>3. CallType'
    BY <1>3, CallKept DEF MarkSending
  <2>4. RunType'
    <3>1. run[w].at # "idle" /\ last' \in Nat
      BY <1>3, <2>2 DEF MarkSending, TypeOK, BrokerType
    <3>2. PICK at \in {"ack", "batches"} : Step(w, at)
      BY <1>3 DEF MarkSending
    <3>3. at \in RunLabels /\ (at \in OnOne => run[w].todo # {})
      BY <1>3 DEF MarkSending, RunLabels, OnOne, TypeOK, RunType
    <3> QED
      BY <3>1, <3>2, <3>3, <2>2, RunMoved
  <2>5. BoundsType'
    BY <1>3, FaultType DEF MarkSending, bounds, TypeOK, BoundsType
  <2> QED
    BY <2>1, <2>2, <2>3, <2>4, <2>5 DEF TypeOK
<1>4. CASE PublishBatch(w)
  <2>0. /\ NextBatch(run[w].todo) \in SUBSET Recipients
        /\ run[w].n + 1 \in Nat /\ run[w].n + 1 \in Nat \cup {Fresh}
        /\ run[w].msg \in 0 .. last /\ run[w].msg # 0 /\ run[w].at = "batches"
        /\ run[w].todo \ NextBatch(run[w].todo) \in SUBSET Recipients
    BY <1>4 DEF NextBatch, TypeOK, RunType, PublishBatch
  <2>1. CampaignType'
    BY <1>4 DEF PublishBatch, campaign, TypeOK, CampaignType
  <2>2. BrokerType' /\ last' >= last
    BY <1>4, <2>0, StoredType, LostType DEF PublishBatch
  <2>3. CallType'
    BY <1>4, CallKept DEF PublishBatch
  <2>4. RunType'
    <3>1. last' \in Nat /\ {"ack", "batches"} \subseteq RunLabels \ OnOne
      BY <2>2 DEF BrokerType, RunLabels, OnOne
    <3>2. CASE Step(w, "ack")
      BY <3>1, <3>2, <2>0, <2>2, RunMoved
    <3>3. CASE \E at \in {"ack", "batches"} :
                 run' = [run EXCEPT ![w] = Run(at, run[w].msg, run[w].todo \ NextBatch(run[w].todo),
                                               run[w].n + 1)]
      <4>1. PICK at \in {"ack", "batches"} :
              run' = [run EXCEPT ![w] = Run(at, run[w].msg, run[w].todo \ NextBatch(run[w].todo),
                                            run[w].n + 1)]
        BY <3>3
      <4>2. last' >= last /\ at \in RunLabels /\ at \notin OnOne
        BY <2>2, <3>1
      <4> QED
        BY ONLY <3>1, <4>1, <4>2, <2>0, TypeOK, w \in Workers, RunReplaced, Zenon
    <3> QED
      BY <1>4, <3>2, <3>3 DEF PublishBatch
  <2>5. BoundsType'
    BY <1>4, FaultType DEF PublishBatch, bounds, TypeOK, BoundsType
  <2> QED
    BY <2>1, <2>2, <2>3, <2>4, <2>5 DEF TypeOK
<1>5. CASE Begin(w)
  <2>1. CampaignType'
    BY <1>5 DEF Begin, campaign, TypeOK, CampaignType
  <2>2. BrokerType' /\ last' >= last
    BY <1>5 DEF Begin, broker, TypeOK, BrokerType
  <2>3. CallType'
    BY <1>5, CallKept DEF Begin
  <2>4. RunType'
    <3>1. run[w].at # "idle" /\ last' \in Nat
      BY <1>5, <2>2 DEF Begin, TypeOK, BrokerType
    <3>2. PICK at \in {"ack", "next"} : Step(w, at)
      BY <1>5 DEF Begin
    <3>3. at \in RunLabels /\ (at \in OnOne => run[w].todo # {})
      BY <1>5 DEF Begin, RunLabels, OnOne, TypeOK, RunType
    <3> QED
      BY <3>1, <3>2, <3>3, <2>2, RunMoved
  <2>5. BoundsType'
    BY <1>5, FaultType DEF Begin, bounds, TypeOK, BoundsType
  <2> QED
    BY <2>1, <2>2, <2>3, <2>4, <2>5 DEF TypeOK
<1>6. CASE Recheck(w)
  <2>1. CampaignType'
    BY <1>6 DEF Recheck, campaign, TypeOK, CampaignType
  <2>2. BrokerType' /\ last' >= last
    BY <1>6 DEF Recheck, broker, TypeOK, BrokerType
  <2>3. CallType'
    BY <1>6, CallKept DEF Recheck
  <2>4. RunType'
    <3>1. run[w].at # "idle" /\ last' \in Nat
      BY <1>6, <2>2 DEF Recheck, TypeOK, BrokerType
    <3>2. PICK at \in {"ack", "send"} : Step(w, at)
      BY <1>6 DEF Recheck
    <3>3. at \in RunLabels /\ (at \in OnOne => run[w].todo # {})
      BY <1>6 DEF Recheck, RunLabels, OnOne, TypeOK, RunType
    <3> QED
      BY <3>1, <3>2, <3>3, <2>2, RunMoved
  <2>5. BoundsType'
    BY <1>6, FaultType DEF Recheck, bounds, TypeOK, BoundsType
  <2> QED
    BY <2>1, <2>2, <2>3, <2>4, <2>5 DEF TypeOK
<1>7. CASE Ingest(w)
  <2>1. CampaignType'
    <3>1. Current(w) \in Recipients
      BY <1>7, CurrentIsOne DEF Ingest, TypeOK, RunType
    <3>2. ingested' \subseteq Recipients
      BY <1>7, <3>1 DEF Ingest, TypeOK, CampaignType
    <3>3. over' \in [Workers -> Nat]
      BY <1>7 DEF Ingest, TypeOK, CampaignType
    <3> QED
      BY <1>7, <3>2, <3>3 DEF Ingest, TypeOK, CampaignType
  <2>2. BrokerType' /\ last' >= last
    BY <1>7 DEF Ingest, broker, TypeOK, BrokerType
  <2>3. CallType'
    BY <1>7, CallKept DEF Ingest
  <2>4. RunType'
    <3>1. run[w].at # "idle" /\ last' \in Nat
      BY <1>7, <2>2 DEF Ingest, TypeOK, BrokerType
    <3>2. PICK at \in {"sent", "seen", "refused"} : Step(w, at)
      BY <1>7 DEF Ingest
    <3>3. at \in RunLabels /\ (at \in OnOne => run[w].todo # {})
      BY <1>7 DEF Ingest, RunLabels, OnOne, TypeOK, RunType
    <3> QED
      BY <3>1, <3>2, <3>3, <2>2, RunMoved
  <2>5. BoundsType'
    BY <1>7 DEF Ingest, bounds, TypeOK, BoundsType
  <2> QED
    BY <2>1, <2>2, <2>3, <2>4, <2>5 DEF TypeOK
<1>8. CASE Record(w)
  <2>1. CampaignType'
    BY <1>8 DEF Record, campaign, TypeOK, CampaignType
  <2>2. BrokerType' /\ last' >= last
    BY <1>8 DEF Record, broker, TypeOK, BrokerType
  <2>3. CallType'
    BY <1>8, CallKept DEF Record
  <2>4. RunType'
    <3>0. /\ last' >= last
          /\ "count" \in RunLabels /\ "count" # "idle"
          /\ "next" \in RunLabels /\ "next" \notin OnOne /\ "next" # "idle"
      BY <2>2 DEF RunLabels, OnOne
    <3>1. /\ run[w].msg \in 0 .. last /\ run[w].msg # 0 /\ run[w].n \in Nat /\ run[w].n + 1 \in Nat
          /\ run[w].todo \in SUBSET Recipients /\ run[w].todo \ {Current(w)} \in SUBSET Recipients
          /\ run[w].todo # {} /\ last' \in Nat
      BY <1>8, <2>2 DEF Record, TypeOK, RunType, BrokerType
    <3>2. CASE run[w].at = "sent"
      <4>1. run' = [run EXCEPT ![w] = Run("count", run[w].msg, run[w].todo, run[w].n)]
        BY <1>8, <3>2 DEF Record
      <4> QED
        BY ONLY <3>0, <3>1, <4>1, TypeOK, w \in Workers, RunReplaced, Zenon
    <3>3. CASE run[w].at # "sent"
      <4>1. run' = [run EXCEPT ![w] = Run("next", run[w].msg, run[w].todo \ {Current(w)}, run[w].n + 1)]
        BY <1>8, <3>3 DEF Record
      <4> QED
        BY ONLY <3>0, <3>1, <4>1, TypeOK, w \in Workers, RunReplaced, Zenon
    <3> QED
      BY <3>2, <3>3
  <2>5. BoundsType'
    BY <1>8, FaultType DEF Record, bounds, TypeOK, BoundsType
  <2> QED
    BY <2>1, <2>2, <2>3, <2>4, <2>5 DEF TypeOK
<1>9. CASE Count(w)
  <2>1. CampaignType'
    BY <1>9 DEF Count, campaign, TypeOK, CampaignType
  <2>2. BrokerType' /\ last' >= last
    BY <1>9 DEF Count, broker, TypeOK, BrokerType
  <2>3. CallType'
    BY <1>9, CallKept DEF Count
  <2>4. RunType'
    <3>0. /\ last' >= last
          /\ "count" \in RunLabels /\ "count" # "idle"
          /\ "next" \in RunLabels /\ "next" \notin OnOne /\ "next" # "idle"
      BY <2>2 DEF RunLabels, OnOne
    <3>1. /\ run[w].msg \in 0 .. last /\ run[w].msg # 0 /\ run[w].n \in Nat /\ run[w].n + 1 \in Nat
          /\ run[w].todo \in SUBSET Recipients /\ run[w].todo \ {Current(w)} \in SUBSET Recipients
          /\ run[w].todo # {} /\ last' \in Nat
      BY <1>9, <2>2 DEF Count, TypeOK, RunType, BrokerType
    <3>2. run' = [run EXCEPT ![w] = Run("next", run[w].msg, run[w].todo \ {Current(w)}, run[w].n + 1)]
      BY <1>9 DEF Count
    <3> QED
      BY ONLY <3>0, <3>1, <3>2, TypeOK, w \in Workers, RunReplaced, Zenon
  <2>5. BoundsType'
    BY <1>9, FaultType DEF Count, bounds, TypeOK, BoundsType
  <2> QED
    BY <2>1, <2>2, <2>3, <2>4, <2>5 DEF TypeOK
<1>10. CASE CompleteIfDone(w)
  <2>1. CampaignType'
    BY <1>10, UpdateStatusType, "completed" \in Statuses DEF CompleteIfDone, campaign, TypeOK, CampaignType, Statuses
  <2>2. BrokerType' /\ last' >= last
    BY <1>10 DEF CompleteIfDone, broker, TypeOK, BrokerType
  <2>3. CallType'
    BY <1>10, CallKept DEF CompleteIfDone
  <2>4. RunType'
    <3>1. run[w].at # "idle" /\ last' \in Nat
      BY <1>10, <2>2 DEF CompleteIfDone, TypeOK, BrokerType
    <3>2. PICK at \in {"ack"} : Step(w, at)
      BY <1>10 DEF CompleteIfDone
    <3>3. at \in RunLabels /\ (at \in OnOne => run[w].todo # {})
      BY <1>10 DEF CompleteIfDone, RunLabels, OnOne, TypeOK, RunType
    <3> QED
      BY <3>1, <3>2, <3>3, <2>2, RunMoved
  <2>5. BoundsType'
    BY <1>10, FaultType DEF CompleteIfDone, bounds, TypeOK, BoundsType
  <2> QED
    BY <2>1, <2>2, <2>3, <2>4, <2>5 DEF TypeOK
<1>11. CASE Ack(w)
  <2>1. CampaignType'
    BY <1>11 DEF Ack, campaign, TypeOK, CampaignType
  <2>2. BrokerType' /\ last' >= last
    <3>1. run[w].msg \in 1 .. last
      BY <1>11 DEF Ack, TypeOK, RunType, BrokerType
    <3>2. queue' \in {queue, [queue EXCEPT ![run[w].msg] = "acked"]}
      BY <1>11 DEF Ack
    <3>3. queue' \in [MsgIds -> {"none", "ready", "pending", "acked"}]
      BY <3>2 DEF TypeOK, BrokerType
    <3>4. \A j \in MsgIds : queue'[j] = "none" <=> j > last
      BY <3>1, <3>2 DEF TypeOK, BrokerType, MsgIds
    <3> QED
      BY <1>11, <3>3, <3>4 DEF Ack, TypeOK, BrokerType
  <2>3. CallType'
    BY <1>11, CallKept DEF Ack
  <2>4. RunType'
    <3>1. run' = [run EXCEPT ![w] = Run("idle", 0, {}, 0)]
      BY <1>11 DEF Ack, NoRun
    <3>2. 0 \in 0 .. last /\ {} \in SUBSET Recipients /\ last' \in Nat
      BY <2>2 DEF TypeOK, BrokerType
    <3> QED
      BY <3>1, <3>2, <2>2, RunReplaced, "idle" \in RunLabels \ OnOne DEF RunLabels, OnOne
  <2>5. BoundsType'
    BY <1>11, FaultType DEF Ack, bounds, TypeOK, BoundsType
  <2> QED
    BY <2>1, <2>2, <2>3, <2>4, <2>5 DEF TypeOK
<1>12. CASE Killed(w)
  <2>1. CampaignType'
    BY <1>12 DEF Killed, Crash, campaign, TypeOK, CampaignType
  <2>2. BrokerType' /\ last' >= last
    BY <1>12 DEF Killed, Crash, broker, TypeOK, BrokerType
  <2>3. CallType'
    <3>1. NoCall \in [at : CallLabels, from : Statuses, todo : SUBSET Recipients, sent : Nat]
      BY DEF NoCall, Call, CallLabels, Statuses
    <3>2. PICK killed \in SUBSET Callers :
            call' = [c \in Callers |-> IF c \in killed THEN NoCall ELSE call[c]]
      BY <1>12 DEF Killed, Crash
    <3> QED
      BY <3>1, <3>2 DEF TypeOK, CallType, CallLabels
  <2>4. RunType'
    <3>1. run' = [run EXCEPT ![w] = Run("idle", 0, {}, 0)]
      BY <1>12 DEF Killed, Crash, NoRun
    <3>2. 0 \in 0 .. last /\ {} \in SUBSET Recipients /\ last' \in Nat
      BY <2>2 DEF TypeOK, BrokerType
    <3> QED
      BY <3>1, <3>2, <2>2, RunReplaced, "idle" \in RunLabels \ OnOne DEF RunLabels, OnOne
  <2>5. BoundsType'
    BY <1>12 DEF Killed, Crash, bounds, TypeOK, BoundsType
  <2> QED
    BY <2>1, <2>2, <2>3, <2>4, <2>5 DEF TypeOK
<1>13. CASE Stop(w)
  <2>1. CampaignType'
    BY <1>13 DEF Stop, campaign, TypeOK, CampaignType
  <2>2. BrokerType' /\ last' >= last
    BY <1>13 DEF Stop, broker, TypeOK, BrokerType
  <2>3. CallType'
    BY <1>13, CallKept DEF Stop
  <2>4. RunType'
    <3>1. run[w].at # "idle" /\ last' \in Nat
      BY <1>13, <2>2 DEF Stop, TypeOK, BrokerType
    <3>2. PICK at \in {"ack"} : Step(w, at)
      BY <1>13 DEF Stop
    <3>3. at \in RunLabels /\ (at \in OnOne => run[w].todo # {})
      BY <1>13 DEF Stop, RunLabels, OnOne, TypeOK, RunType
    <3> QED
      BY <3>1, <3>2, <3>3, <2>2, RunMoved
  <2>5. BoundsType'
    BY <1>13 DEF Stop, bounds, TypeOK, BoundsType
  <2> QED
    BY <2>1, <2>2, <2>3, <2>4, <2>5 DEF TypeOK
<1> QED
  BY <1>1, <1>2, <1>3, <1>4, <1>5, <1>6, <1>7, <1>8, <1>9, <1>10, <1>11, <1>12, <1>13 DEF Handle

LEMMA NextTypes ==
  ASSUME TypeOK, [Next]_vars
  PROVE  TypeOK'
<1>1. CASE UNCHANGED vars
  BY <1>1 DEF vars, campaign, broker, bounds, TypeOK, CampaignType, BrokerType, CallType,
              RunType, BoundsType
<1>2. CASE Next
  BY <1>2, CallTypes, BrokerTypes, HandleTypes DEF Next, Killed
<1> QED
  BY <1>1, <1>2

\* Every value in the campaign, its rows, its messages, calls and handlers
\* has its type, whatever fails, is killed or is delivered twice.
THEOREM TypeCorrect == Spec => []TypeOK
<1>1. TypeOK /\ [Next]_vars => TypeOK'
  BY NextTypes
<1> QED
  BY InitTypes, <1>1, PTL DEF Spec

-----------------------------------------------------------------------------
(* Halting.                                                                *)

\* w may ingest a recipient without reading the status again.
Exposed(w) == run[w].at = "send" \/ (run[w].at = "next" /\ run[w].n = 0)

\* What HaltsPromptly needs to be inductive: a process that will not look at
\* the status before its next recipient has room left for it, and nothing is
\* counted while the campaign runs.
HaltInv ==
  /\ \A w \in Workers : over[w] + (IF Exposed(w) THEN 1 ELSE 0) <= 1 + faults
  /\ status \notin Halted => \A w \in Workers : over[w] = 0

LEMMA StatusHalts ==
  ASSUME NEW s \in Statuses, TypeOK, HaltInv, UpdateStatus(s)
  PROVE  /\ \A w \in Workers : over'[w] <= over[w]
         /\ status' \notin Halted => \A w \in Workers : over'[w] = 0
BY DEF UpdateStatus, TypeOK, CampaignType, HaltInv

\* A step after which nobody is newly exposed and nothing new is counted.
LEMMA Quieter ==
  ASSUME TypeOK, TypeOK', HaltInv, faults' >= faults,
         \A w \in Workers : over'[w] <= over[w] /\ (Exposed(w)' => Exposed(w)),
         status' \notin Halted => \A w \in Workers : over'[w] = 0
  PROVE  HaltInv'
BY DEF HaltInv, TypeOK, CampaignType, BoundsType

\* Steps that do not touch status and counts.
LEMMA Unmoved ==
  ASSUME TypeOK, HaltInv, UNCHANGED <<status, over>>
  PROVE  /\ \A w \in Workers : over'[w] <= over[w]
         /\ status' \notin Halted => \A w \in Workers : over'[w] = 0
BY DEF HaltInv, TypeOK, CampaignType

LEMMA FaultsGrow ==
  ASSUME TypeOK, Fault \/ UNCHANGED bounds \/ UNCHANGED faults
  PROVE  faults' >= faults
BY DEF Fault, bounds, TypeOK, BoundsType

LEMMA CallsHalt ==
  ASSUME NEW c \in Callers, TypeOK, TypeOK', HaltInv,
         ClaimDue(c) \/ Continue(c) \/ \E verb \in Verbs : Request(c, verb)
  PROVE  HaltInv'
<1>1. UNCHANGED run
  BY DEF ClaimDue, Continue, Request, Start, Announce, Restore, Pause, Cancel, Delete, Resume,
         ListPending, Complete, Republish, CallFails
<1>2. faults' >= faults
  BY FaultsGrow DEF ClaimDue, Continue, Request, Start, Announce, Restore, Pause, Cancel, Delete,
         Resume, ListPending, Complete, Republish, CallFails
<1>3. UNCHANGED campaign \/ \E s \in Statuses : UpdateStatus(s)
  <2>1. /\ {"sending", "scheduled", "paused", "cancelled", "deleted", "completed"} \subseteq Statuses
        /\ call[c].from \in Statuses
    BY DEF Statuses, TypeOK, CallType
  <2> QED
    BY <2>1 DEF ClaimDue, Continue, Request, Start, Announce, Restore, Pause, Cancel, Delete,
         Resume, ListPending, Complete, Republish, CallFails, Target
<1>4. \A w \in Workers : Exposed(w)' => Exposed(w)
  BY <1>1 DEF Exposed
<1> QED
  BY <1>2, <1>3, <1>4, StatusHalts, Unmoved, Quieter DEF campaign

LEMMA BrokerHalts ==
  ASSUME TypeOK, TypeOK', HaltInv,
         \/ \E j \in MsgIds : AckWait(j) \/ \E v \in Workers : Take(v, j)
         \/ \E id \in recent : WindowPasses(id)
  PROVE  HaltInv'
<1>1. UNCHANGED campaign /\ UNCHANGED faults
  BY DEF AckWait, Take, WindowPasses, campaign, bounds
<1>2. \A w \in Workers : Exposed(w)' => Exposed(w)
  <2>1. CASE UNCHANGED run
    BY <2>1 DEF Exposed
  <2>2. ASSUME NEW j \in MsgIds, NEW v \in Workers, Take(v, j)
        PROVE  \A w \in Workers : Exposed(w)' => Exposed(w)
    <3>1. PICK at \in {"start", "begin"} : run' = [run EXCEPT ![v] = Run(at, j, msg[j].to, 0)]
      BY <2>2 DEF Take
    <3> QED
      BY <3>1 DEF Exposed, Run, TypeOK, RunType
  <2> QED
    BY <2>1, <2>2 DEF AckWait, WindowPasses
<1> QED
  BY <1>1, <1>2, Unmoved, FaultsGrow, Quieter DEF campaign

\* The handlers' steps that end a status read, an exposure, or neither.
LEMMA HandlersHalt ==
  ASSUME NEW w \in Workers, TypeOK, TypeOK', HaltInv, Handle(w) \/ Killed(w) \/ Stop(w)
  PROVE  HaltInv'
<1>1. CASE Begin(w)
  <2>1. UNCHANGED <<status, over>> /\ run[w].at = "begin"
    BY <1>1 DEF Begin, campaign
  <2>2. faults' >= faults
    BY <1>1, FaultsGrow DEF Begin
  <2>3. CASE Step(w, "ack")
    <3>1. \A v \in Workers : Exposed(v)' => Exposed(v)
      BY <2>3 DEF Step, Exposed, TypeOK, RunType
    <3> QED
      BY <2>1, <2>2, <3>1, Unmoved, Quieter DEF campaign
  <2>4. CASE Step(w, "next") /\ status \notin Halted
    BY <2>1, <2>2, <2>4 DEF Step, HaltInv, Exposed, TypeOK, TypeOK, RunType, CampaignType, BoundsType
  <2> QED
    BY <1>1, <2>3, <2>4 DEF Begin
<1>2. CASE Recheck(w)
  <2>1. UNCHANGED <<status, over>> /\ run[w].at = "next"
    BY <1>2 DEF Recheck, campaign
  <2>2. faults' >= faults
    BY <1>2, FaultsGrow DEF Recheck
  <2>3. CASE Step(w, "ack") \/ (run[w].n = 0 /\ Step(w, "send"))
    <3>1. \A v \in Workers : Exposed(v)' => Exposed(v)
      BY <2>1, <2>3 DEF Step, Exposed, TypeOK, RunType
    <3> QED
      BY <2>1, <2>2, <3>1, Unmoved, Quieter DEF campaign
  <2>4. CASE Step(w, "send") /\ status \notin Halted
    BY <2>1, <2>2, <2>4 DEF Step, HaltInv, Exposed, TypeOK, RunType, CampaignType, BoundsType
  <2>5. CASE Step(w, "send") /\ Fault
    BY <2>1, <2>5 DEF Step, Fault, HaltInv, Exposed, TypeOK, RunType, CampaignType, BoundsType
  <2> QED
    BY <1>2, <2>3, <2>4, <2>5 DEF Recheck
<1>3. CASE Ingest(w)
  <2>1. run[w].at = "send" /\ faults' = faults /\ status' = status
    BY <1>3 DEF Ingest, bounds
  <2>2. \A v \in Workers : Exposed(v)' => Exposed(v) /\ v # w
    BY <1>3 DEF Ingest, Step, Exposed, TypeOK, RunType
  <2>3. /\ \A v \in Workers : v # w => over'[v] = over[v]
        /\ over'[w] <= over[w] + 1
        /\ status \notin Halted => over' = over
    BY <1>3 DEF Ingest, TypeOK, CampaignType
  <2>4. Exposed(w)
    BY <2>1 DEF Exposed
  <2> QED
    BY <2>1, <2>2, <2>3, <2>4 DEF HaltInv, TypeOK, CampaignType, BoundsType
<1>4. CASE ReadStart(w) \/ Resolve(w) \/ MarkSending(w) \/ PublishBatch(w) \/ Record(w) \/ Count(w)
           \/ CompleteIfDone(w) \/ Ack(w) \/ Killed(w) \/ Stop(w)
  <2>1. UNCHANGED <<status, over>> \/ \E s \in Statuses : UpdateStatus(s)
    <3>1. {"sending", "failed", "completed"} \subseteq Statuses
      BY DEF Statuses
    <3> QED
      BY <1>4, <3>1 DEF ReadStart, Resolve, MarkSending, PublishBatch, Record, Count, CompleteIfDone,
                        Ack, Killed, Crash, Stop, campaign
  <2>2. faults' >= faults
    BY <1>4, FaultsGrow DEF ReadStart, Resolve, MarkSending, PublishBatch, Record, Count,
                            CompleteIfDone, Ack, Killed, Crash, Stop
  <2>3. \A v \in Workers : Exposed(v)' => Exposed(v)
    <3>1. \A v \in Workers : v # w => run'[v] = run[v]
      BY <1>4 DEF ReadStart, Resolve, MarkSending, PublishBatch, Record, Count, CompleteIfDone, Ack,
                  Killed, Crash, Stop, Step, TypeOK, RunType
    <3>2. CASE Record(w) \/ Count(w)
      <4>1. \/ run'[w].at = "count"
            \/ run'[w].n = run[w].n + 1
        BY <3>2 DEF Record, Count, Run, TypeOK, RunType
      <4>2. run[w].n \in Nat /\ run[w].at # "send" /\ run'[w].at # "send"
        BY <3>2 DEF Record, Count, Run, TypeOK, RunType
      <4>3. ~Exposed(w)'
        BY <4>1, <4>2 DEF Exposed
      <4> QED
        BY <3>1, <4>3 DEF Exposed
    <3>3. CASE ~(Record(w) \/ Count(w))
      <4>1. run'[w].at \in {"idle", "resolve", "mark", "batches", "ack"}
        BY <1>4, <3>3 DEF ReadStart, Resolve, MarkSending, PublishBatch, CompleteIfDone, Ack, Killed, Crash,
                          Stop, Step, Run, NoRun, TypeOK, RunType
      <4> QED
        BY <3>1, <4>1 DEF Exposed
    <3> QED
      BY <3>2, <3>3
  <2> QED
    BY <2>1, <2>2, <2>3, StatusHalts, Unmoved, Quieter
<1> QED
  BY <1>1, <1>2, <1>3, <1>4 DEF Handle

\* However many processes, calls and batches there are, a paused or cancelled
\* campaign loses at most one more recipient per process, and one more for
\* every failed statement (ProcessBatchTask).
THEOREM HaltCorrect == Spec => []HaltsPromptly
<1>1. Init => HaltInv
  BY DEF Init, HaltInv, Exposed, NoRun, Run
<1>2. TypeOK /\ TypeOK' /\ HaltInv /\ [Next]_vars => HaltInv'
  <2> SUFFICES ASSUME TypeOK, TypeOK', HaltInv, [Next]_vars
               PROVE  HaltInv'
    OBVIOUS
  <2>1. CASE UNCHANGED vars
    BY <2>1 DEF vars, campaign, bounds, HaltInv, Exposed
  <2>2. CASE Next
    BY <2>2, CallsHalt, BrokerHalts, HandlersHalt DEF Next, Killed
  <2> QED
    BY <2>1, <2>2
<1>3. TypeOK /\ HaltInv => HaltsPromptly
  BY DEF HaltInv, HaltsPromptly, TypeOK, CampaignType, BoundsType
<1> QED
  BY <1>1, <1>2, <1>3, TypeCorrect, PTL DEF Spec

-----------------------------------------------------------------------------
(* Rows.                                                                   *)

\* What SentWasIngested needs to be inductive: a handler about to record a
\* recipient as sent knows that its message was taken.
SentInv ==
  /\ SentWasIngested
  /\ \A w \in Workers : run[w].at \in {"sent", "seen"} => Current(w) \in ingested

\* A handler that keeps its list keeps its current recipient.
LEMMA SameCurrent ==
  ASSUME NEW w \in Workers, run'[w].todo = run[w].todo
  PROVE  Current(w)' = Current(w)
BY DEF Current

\* Steps after which no row is newly "sent" and nobody is newly about to
\* record one.
LEMMA NothingRecorded ==
  ASSUME TypeOK, SentInv, ingested \subseteq ingested',
         \A r \in Recipients : row'[r] = "sent" => row[r] = "sent",
         \A w \in Workers : run'[w] = run[w] \/ run'[w].at \notin {"sent", "seen"}
  PROVE  SentInv'
<1>1. SentWasIngested'
  BY DEF SentInv, SentWasIngested
<1>2. ASSUME NEW w \in Workers, run'[w].at \in {"sent", "seen"}
      PROVE  Current(w)' \in ingested'
  <2>1. run'[w] = run[w]
    BY <1>2
  <2>2. Current(w)' = Current(w)
    BY <2>1, SameCurrent
  <2> QED
    BY <1>2, <2>1, <2>2 DEF SentInv
<1> QED
  BY <1>1, <1>2 DEF SentInv

LEMMA CallsRecordNothing ==
  ASSUME NEW c \in Callers, TypeOK, SentInv,
         ClaimDue(c) \/ Continue(c) \/ \E verb \in Verbs : Request(c, verb)
  PROVE  SentInv'
<1>1. UNCHANGED <<run, ingested>>
  BY DEF ClaimDue, Continue, Request, Start, Announce, Restore, Pause, Cancel, Delete, Resume,
         ListPending, Complete, Republish, CallFails
<1>2. row' = row \/ row' = [r \in Recipients |-> "none"]
  BY DEF ClaimDue, Continue, Request, Start, Announce, Restore, Pause, Cancel, Delete, Resume,
         ListPending, Complete, Republish, CallFails
<1> QED
  BY <1>1, <1>2, NothingRecorded

LEMMA BrokerRecordsNothing ==
  ASSUME TypeOK, SentInv,
         \/ \E j \in MsgIds : AckWait(j) \/ \E v \in Workers : Take(v, j)
         \/ \E id \in recent : WindowPasses(id)
  PROVE  SentInv'
<1>1. UNCHANGED <<row, ingested>>
  BY DEF AckWait, Take, WindowPasses
<1>2. \A w \in Workers : run'[w] = run[w] \/ run'[w].at \notin {"sent", "seen"}
  BY DEF AckWait, Take, WindowPasses, Run, TypeOK, RunType
<1> QED
  BY <1>1, <1>2, NothingRecorded

LEMMA HandlersRecordTruly ==
  ASSUME NEW w \in Workers, TypeOK, SentInv, Handle(w) \/ Killed(w) \/ Stop(w)
  PROVE  SentInv'
<1>1. CASE Ingest(w)
  <2>1. UNCHANGED row /\ run' = [run EXCEPT ![w].at = run'[w].at]
    BY <1>1 DEF Ingest, Step, TypeOK, RunType
  <2>2. \A v \in Workers : Current(v)' = Current(v) /\ (v # w => run'[v] = run[v])
    BY <2>1, SameCurrent DEF TypeOK, RunType
  <2>3. ingested \subseteq ingested' /\ (run'[w].at \in {"sent", "seen"} => Current(w) \in ingested')
    BY <1>1 DEF Ingest, Step, TypeOK, RunType
  <2> QED
    BY <2>1, <2>2, <2>3 DEF SentInv, SentWasIngested
<1>2. CASE Record(w)
  <2>1. UNCHANGED ingested
    BY <1>2 DEF Record
  <2>2. \A v \in Workers : run'[v] = run[v] \/ run'[v].at \notin {"sent", "seen"}
    BY <1>2 DEF Record, Run, TypeOK, RunType
  <2>3. ASSUME NEW r \in Recipients, row'[r] = "sent", row[r] # "sent"
        PROVE  r \in ingested
    <3>1. r = Current(w) /\ run[w].at \in {"sent", "seen"}
      BY <1>2, <2>3 DEF Record, TypeOK, CampaignType
    <3> QED
      BY <3>1 DEF SentInv
  <2>4. SentWasIngested'
    BY <2>1, <2>3 DEF SentInv, SentWasIngested
  <2>5. ASSUME NEW v \in Workers, run'[v].at \in {"sent", "seen"}
        PROVE  Current(v)' \in ingested'
    BY <2>1, <2>2, <2>5, SameCurrent DEF SentInv
  <2> QED
    BY <2>4, <2>5 DEF SentInv
<1>3. CASE ReadStart(w) \/ Resolve(w) \/ MarkSending(w) \/ PublishBatch(w) \/ Begin(w) \/ Recheck(w)
           \/ Count(w) \/ CompleteIfDone(w) \/ Ack(w) \/ Killed(w) \/ Stop(w)
  <2>1. UNCHANGED ingested /\ \A r \in Recipients : row'[r] = "sent" => row[r] = "sent"
    BY <1>3 DEF ReadStart, Resolve, AddRecipients, MarkSending, PublishBatch, Begin, Recheck, Count,
                CompleteIfDone, Ack, Killed, Crash, Stop
  <2>2. \A v \in Workers : run'[v] = run[v] \/ run'[v].at \notin {"sent", "seen"}
    BY <1>3 DEF ReadStart, Resolve, MarkSending, PublishBatch, Begin, Recheck, Count,
                CompleteIfDone, Ack, Killed, Crash, Stop, Step, Run, NoRun, TypeOK, RunType
  <2> QED
    BY <2>1, <2>2, NothingRecorded
<1> QED
  BY <1>1, <1>2, <1>3 DEF Handle

\* A recipient recorded as sent was handed to the outbound processor, for any
\* number of redelivered and repeated tasks (ProcessBatchTask).
THEOREM SentCorrect == Spec => []SentWasIngested
<1>1. Init => SentInv
  BY DEF Init, SentInv, SentWasIngested, NoRun, Run
<1>2. TypeOK /\ SentInv /\ [Next]_vars => SentInv'
  <2> SUFFICES ASSUME TypeOK, SentInv, [Next]_vars
               PROVE  SentInv'
    OBVIOUS
  <2>1. CASE UNCHANGED vars
    BY <2>1, NothingRecorded DEF vars
  <2>2. CASE Next
    BY <2>2, CallsRecordNothing, BrokerRecordsNothing, HandlersRecordTruly DEF Next, Killed
  <2> QED
    BY <2>1, <2>2
<1>3. SentInv => SentWasIngested
  BY DEF SentInv
<1> QED
  BY <1>1, <1>2, <1>3, TypeCorrect, PTL DEF Spec
=============================================================================
