---------------------------- MODULE AuditProofs ----------------------------
(***************************************************************************)
(* Proofs about AuditTrail, for any number of events and workers, any       *)
(* capacities, any faults and any moment of the shutdown.                   *)
(***************************************************************************)
EXTENDS AuditTrail, FiniteSetTheorems, TLAPS

USE AuditAssumption DEF noted

-----------------------------------------------------------------------------
(* Types.                                                                   *)

LEMMA CleanupLength == Len(Cleanup) = 6
BY DEF Cleanup

(* The parts of the state an action leaves alone. *)
LEMMA KeptTypes ==
  ASSUME TypeOK
  PROVE  /\ UNCHANGED channel => ChannelType'
         /\ UNCHANGED wvars => WorkerType'
         /\ UNCHANGED <<table, noted>> => TableType'
         /\ UNCHANGED shutdown => ShutdownType'
         /\ UNCHANGED <<rows, pvars, faults>> => PurgerType'
<1>1. UNCHANGED channel => ChannelType'
  BY DEF TypeOK, ChannelType, channel
<1>2. UNCHANGED wvars => WorkerType'
  BY DEF TypeOK, WorkerType, wvars
<1>3. UNCHANGED <<table, noted>> => TableType'
  BY DEF TypeOK, TableType, table
<1>4. UNCHANGED shutdown => ShutdownType'
  BY DEF TypeOK, ShutdownType, shutdown
<1>5. UNCHANGED <<rows, pvars, faults>> => PurgerType'
  BY DEF TypeOK, PurgerType, pvars
<1> QED
  BY <1>1, <1>2, <1>3, <1>4, <1>5

(* A COPY adds rows of the batch only. *)
LEMMA CopyType ==
  ASSUME TypeOK, NEW w \in Workers, Copy(w)
  PROVE  /\ copies' \in Nat /\ rows' \subseteq Events \X (1..copies') /\ rows \subseteq rows'
         /\ Written' = Written \cup batch[w]
<1>1. copies' \in Nat /\ 1..copies \subseteq 1..copies' /\ copies' \in 1..copies'
  BY DEF Copy, TypeOK, TableType
<1>2. batch[w] \subseteq Events
  BY DEF TypeOK, WorkerType
<1>3. rows' \subseteq Events \X (1..copies')
  BY <1>1, <1>2 DEF Copy, TypeOK, TableType
<1>4. Written' = Written \cup batch[w]
  <2>1. {r[1] : r \in batch[w] \X {copies + 1}} = batch[w]
    <3>1. \A r \in batch[w] \X {copies + 1} : r[1] \in batch[w]
      OBVIOUS
    <3>2. ASSUME NEW e \in batch[w]
          PROVE  \E r \in batch[w] \X {copies + 1} : r[1] = e
      <4> WITNESS <<e, copies + 1>> \in batch[w] \X {copies + 1}
      <4> QED
        OBVIOUS
    <3> QED
      BY <3>1, <3>2
  <2> QED
    BY <2>1 DEF Copy, Written
<1> QED
  BY <1>1, <1>3, <1>4 DEF Copy

(* The end of the process empties the channel and the batches. *)
LEMMA DieType ==
  ASSUME TypeOK, NEW end \in {"exited", "panic"}, Die(end), end = "panic" => next \in Events
  PROVE  /\ ch' = {} /\ batch' = [w \in Workers |-> {}] /\ InBatch' = {}
         /\ process' = end
         /\ lost' = ch \cup InBatch \cup (IF end = "panic" THEN {next} ELSE {})
         /\ lost' \subseteq Events
<1>1. InBatch \subseteq Events /\ ch \subseteq Events
  BY DEF InBatch, TypeOK, WorkerType, ChannelType
<1>2. batch' = [w \in Workers |-> {}]
  BY DEF Die
<1>3. InBatch' = {}
  BY <1>2 DEF InBatch
<1> QED
  BY <1>1, <1>2, <1>3 DEF Die

LEMMA TypeStep ==
  ASSUME TypeOK, [Next]_vars
  PROVE  TypeOK'
<1>1. ASSUME NEW source \in Sources, Write(source) PROVE TypeOK'
  <2>1. next \in Events /\ next' \in 1..(NumEvents + 1)
    BY <1>1 DEF TypeOK, ChannelType, Write, Events
  <2>2. /\ UNCHANGED <<closed, wpc, tries, table, fallback, running, stage, expired, flushed,
                       pvars, faults>>
        /\ ch' \subseteq ch \cup {next} /\ dropped' \subseteq dropped \cup {next}
        /\ lost' \subseteq Events /\ batch' \in [Workers -> SUBSET Events]
        /\ process' \in {"up", "exited", "panic"}
    <3>1. CASE Die("panic") /\ UNCHANGED dropped
      BY <1>1, <2>1, <3>1, DieType DEF Write
    <3>2. CASE ch' = ch \cup {next} /\ UNCHANGED <<batch, dropped, lost, process>>
      BY <1>1, <3>2 DEF Write, TypeOK, TableType, WorkerType, ShutdownType
    <3>3. CASE dropped' = dropped \cup {next} /\ UNCHANGED <<ch, batch, lost, process>>
      BY <1>1, <3>3 DEF Write, TypeOK, TableType, WorkerType, ShutdownType
    <3> QED
      BY <1>1, <3>1, <3>2, <3>3 DEF Write
  <2>3. ChannelType'
    BY <2>1, <2>2 DEF TypeOK, ChannelType
  <2>4. WorkerType'
    BY <2>2 DEF TypeOK, WorkerType
  <2>5. TableType'
    BY <2>1, <2>2 DEF TypeOK, TableType, table
  <2>6. ShutdownType'
    BY <2>2 DEF TypeOK, ShutdownType
  <2>7. PurgerType'
    BY <2>2 DEF TypeOK, PurgerType, pvars, table
  <2> QED
    BY <2>3, <2>4, <2>5, <2>6, <2>7 DEF TypeOK
<1>2. ASSUME NEW w \in Workers, Receive(w) PROVE TypeOK'
  <2>1. ChannelType'
    BY <1>2 DEF TypeOK, ChannelType, Receive, Events, pvars, table, shutdown
  <2>2. WorkerType'
    BY <1>2 DEF TypeOK, WorkerType, Receive, ChannelType, pvars, table, shutdown
  <2> QED
    BY <1>2, <2>1, <2>2, KeptTypes DEF TypeOK, Receive, pvars, table, shutdown
<1>3. ASSUME NEW w \in Workers, Tick(w) PROVE TypeOK'
  <2>1. WorkerType'
    BY <1>3 DEF TypeOK, WorkerType, Tick, ChannelType, pvars, table, channel, shutdown
  <2> QED
    BY <1>3, <2>1, KeptTypes DEF TypeOK, Tick, pvars, table, channel, shutdown
<1>4. ASSUME NEW w \in Workers, Drained(w) PROVE TypeOK'
  <2>1. WorkerType'
    BY <1>4 DEF TypeOK, WorkerType, Drained, ChannelType, pvars, table, channel, shutdown
  <2> QED
    BY <1>4, <2>1, KeptTypes DEF TypeOK, Drained, pvars, table, channel, shutdown
<1>5. ASSUME NEW w \in Workers, FlushOk(w) PROVE TypeOK'
  <2>1. WorkerType'
    BY <1>5
    DEF TypeOK, WorkerType, FlushOk, Copy, EndFlush, ChannelType, pvars, channel, shutdown
  <2>2. TableType'
    BY <1>5
    DEF TypeOK, TableType, FlushOk, Copy, EndFlush, WorkerType, ChannelType, Events, pvars,
        channel, shutdown
  <2>3. PurgerType'
    BY <1>5
    DEF TypeOK, PurgerType, FlushOk, Copy, EndFlush, TableType, ChannelType, Events, pvars,
        channel, shutdown
  <2> QED
    BY <1>5, <2>1, <2>2, <2>3, KeptTypes
    DEF TypeOK, FlushOk, Copy, EndFlush, pvars, channel, shutdown
<1>6. ASSUME NEW w \in Workers, FlushFails(w) PROVE TypeOK'
  <2>1. WorkerType'
    BY <1>6
    DEF TypeOK, WorkerType, FlushFails, Retry, EndFlush, ChannelType, pvars, table, channel,
        shutdown
  <2>2. TableType'
    BY <1>6
    DEF TypeOK, TableType, FlushFails, Retry, EndFlush, WorkerType, ChannelType, Events,
        pvars, table, channel, shutdown
  <2> QED
    BY <1>6, <2>1, <2>2, KeptTypes
    DEF TypeOK, FlushFails, Retry, EndFlush, pvars, table, channel, shutdown
<1>7. ASSUME NEW w \in Workers, FlushUnknown(w) PROVE TypeOK'
  <2>1. WorkerType'
    BY <1>7
    DEF TypeOK, WorkerType, FlushUnknown, Copy, Retry, EndFlush, ChannelType, pvars, channel,
        shutdown
  <2>2. TableType'
    <3>1. UNCHANGED dropped /\ fallback' \subseteq fallback \cup batch[w]
      BY <1>7 DEF FlushUnknown, Retry
    <3> QED
      BY <1>7, <3>1, CopyType DEF FlushUnknown, TypeOK, TableType, WorkerType
  <2>3. PurgerType'
    BY <1>7
    DEF TypeOK, PurgerType, FlushUnknown, Copy, Retry, EndFlush, TableType, ChannelType,
        Events, pvars, channel, shutdown
  <2> QED
    BY <1>7, <2>1, <2>2, <2>3, KeptTypes
    DEF TypeOK, FlushUnknown, Copy, Retry, EndFlush, pvars, channel, shutdown
<1>8. CASE Signal
  <2>1. ShutdownType'
    BY <1>8, CleanupLength DEF TypeOK, ShutdownType, Signal, wvars, pvars, table, channel
  <2> QED
    BY <1>8, <2>1, KeptTypes DEF TypeOK, Signal, wvars, pvars, table, channel
<1>9. CASE Deadline
  <2>1. ShutdownType'
    BY <1>9, CleanupLength DEF TypeOK, ShutdownType, Deadline, wvars, pvars, table, channel
  <2> QED
    BY <1>9, <2>1, KeptTypes DEF TypeOK, Deadline, wvars, pvars, table, channel
<1>10. ASSUME NEW source \in Sources, StopSource(source) PROVE TypeOK'
  <2>1. ShutdownType'
    BY <1>10, CleanupLength
    DEF TypeOK, ShutdownType, StopSource, Starts, During, wvars, pvars, table, channel
  <2> QED
    BY <1>10, <2>1, KeptTypes
    DEF TypeOK, StopSource, Starts, During, wvars, pvars, table, channel
<1>11. CASE StopDaemon
  <2>1. ShutdownType'
    BY <1>11, CleanupLength
    DEF TypeOK, ShutdownType, StopDaemon, Starts, During, wvars, pvars, table, channel
  <2> QED
    BY <1>11, <2>1, KeptTypes
    DEF TypeOK, StopDaemon, Starts, During, wvars, pvars, table, channel
<1>12. CASE CloseChannel
  <2>1. ChannelType'
    BY <1>12
    DEF TypeOK, ChannelType, CloseChannel, Starts, During, Events, wvars, pvars, table,
        shutdown
  <2> QED
    BY <1>12, <2>1, KeptTypes
    DEF TypeOK, CloseChannel, Starts, During, wvars, pvars, table, shutdown
<1>13. CASE CloseReturns
  <2>1. ShutdownType'
    BY <1>13, CleanupLength
    DEF TypeOK, ShutdownType, CloseReturns, During, wvars, pvars, table, channel
  <2> QED
    BY <1>13, <2>1, KeptTypes DEF TypeOK, CloseReturns, During, wvars, pvars, table, channel
<1>14. CASE ClosePool
  <2>1. ShutdownType'
    BY <1>14, CleanupLength
    DEF TypeOK, ShutdownType, ClosePool, Starts, During, wvars, pvars, table, channel
  <2> QED
    BY <1>14, <2>1, KeptTypes
    DEF TypeOK, ClosePool, Starts, During, wvars, pvars, table, channel
<1>15. CASE Exit
  <2>1. /\ ch' = {} /\ batch' = [w \in Workers |-> {}] /\ process' = "exited"
        /\ lost' \subseteq Events
    BY <1>15, DieType DEF Exit
  <2>2. UNCHANGED <<next, closed, wpc, tries, table, dropped, fallback, running, stage, expired,
                    flushed, pvars, faults>>
    BY <1>15 DEF Exit
  <2>3. ChannelType'
    BY <2>1, <2>2 DEF TypeOK, ChannelType
  <2>4. WorkerType'
    BY <2>1, <2>2 DEF TypeOK, WorkerType
  <2>5. TableType'
    BY <2>1, <2>2 DEF TypeOK, TableType, table
  <2>6. ShutdownType'
    BY <2>1, <2>2 DEF TypeOK, ShutdownType
  <2>7. PurgerType'
    BY <2>2 DEF TypeOK, PurgerType, pvars, table
  <2> QED
    BY <2>3, <2>4, <2>5, <2>6, <2>7 DEF TypeOK
<1>16. CASE StartPurge
  <2>1. PurgerType'
    BY <1>16
    DEF TypeOK, PurgerType, StartPurge, TableType, ChannelType, Events, wvars, table, channel,
        shutdown
  <2> QED
    BY <1>16, <2>1, KeptTypes DEF TypeOK, StartPurge, wvars, table, channel, shutdown
<1>17. CASE Query
  <2>1. PurgerType'
    <3>1. todo' \subseteq rows /\ full' \in BOOLEAN
      <4>1. CASE todo' \in Oldest /\ full' = (Cardinality(todo') >= PurgeBatch)
        <5>1. todo' \in SUBSET Due
          BY <4>1 DEF Oldest
        <5> QED
          BY <4>1, <5>1 DEF Due
      <4>2. CASE UNCHANGED <<todo, full>>
        BY <4>2 DEF TypeOK, PurgerType
      <4> QED
        BY <1>17, <4>1, <4>2 DEF Query
    <3>2. UNCHANGED <<rows, cutoff, purged, faults>> /\ ppc' \in {"idle", "batch"}
      BY <1>17 DEF Query, table
    <3> QED
      BY <3>1, <3>2 DEF TypeOK, PurgerType
  <2> QED
    BY <1>17, <2>1, KeptTypes DEF TypeOK, Query, Oldest, Due, wvars, table, channel, shutdown
<1>18. CASE PurgeOne
  <2>1. PurgerType'
    BY <1>18 DEF TypeOK, PurgerType, PurgeOne, wvars, table, channel, shutdown
  <2> QED
    BY <1>18, <2>1, KeptTypes DEF TypeOK, PurgeOne, wvars, table, channel, shutdown
<1>19. CASE PurgeFails
  <2>1. PurgerType'
    BY <1>19 DEF TypeOK, PurgerType, PurgeFails, wvars, table, channel, shutdown
  <2> QED
    BY <1>19, <2>1, KeptTypes DEF TypeOK, PurgeFails, wvars, table, channel, shutdown
<1>20. CASE EndBatch
  <2>1. PurgerType'
    BY <1>20 DEF TypeOK, PurgerType, EndBatch, wvars, table, channel, shutdown
  <2> QED
    BY <1>20, <2>1, KeptTypes DEF TypeOK, EndBatch, wvars, table, channel, shutdown
<1>21. CASE QueryFails
  <2>1. PurgerType'
    BY <1>21 DEF TypeOK, PurgerType, QueryFails, wvars, table, channel, shutdown
  <2> QED
    BY <1>21, <2>1, KeptTypes DEF TypeOK, QueryFails, wvars, table, channel, shutdown
<1>22. CASE UNCHANGED vars
  BY <1>22, KeptTypes DEF vars, table, pvars, TypeOK
<1> QED
  BY <1>1, <1>2, <1>3, <1>4, <1>5, <1>6, <1>7, <1>8, <1>9, <1>10, <1>11, <1>12, <1>13, <1>14,
     <1>15, <1>16, <1>17, <1>18, <1>19, <1>20, <1>21, <1>22
  DEF Next, WorkerStep, ShutdownStep, PurgeStep

(* The types of the audit trail. *)
THEOREM TypeCorrect == Spec => []TypeOK
<1>1. Init => TypeOK
  <2> SUFFICES ASSUME Init PROVE TypeOK
    OBVIOUS
  <2>1. NumEvents \in Nat /\ MaxFaults \in Nat
    OBVIOUS
  <2>2. {closed, expired, flushed, full} \subseteq BOOLEAN
    BY Zenon DEF Init
  <2>3. next = 1 /\ stage = 0 /\ cutoff = 0 /\ faults = 0 /\ copies = 0 /\ unknown = 0
    BY DEF Init
  <2>4. /\ ch = {} /\ rows = {} /\ dropped = {} /\ fallback = {} /\ lost = {} /\ todo = {} /\ purged = {}
        /\ running = Sources /\ process = "up" /\ ppc = "idle"
    BY DEF Init
  <2>5. ChannelType /\ TableType
    BY <2>1, <2>2, <2>3, <2>4 DEF ChannelType, TableType, Events
  <2>6. WorkerType
    BY DEF Init, WorkerType
  <2>7. ShutdownType
    BY CleanupLength, <2>2, <2>3, <2>4 DEF ShutdownType
  <2>8. PurgerType
    BY <2>1, <2>2, <2>3, <2>4 DEF PurgerType
  <2> QED
    BY <2>5, <2>6, <2>7, <2>8 DEF TypeOK
<1>2. TypeOK /\ [Next]_vars => TypeOK'
  BY TypeStep
<1> QED
  BY <1>1, <1>2, PTL DEF Spec

-----------------------------------------------------------------------------
(* Every event is accounted for.                                            *)

(* Steps that leave the events where they are. *)
LEMMA AccountedKept ==
  ASSUME Accounted, UNCHANGED <<next, ch, batch, rows, noted, process>>
  PROVE  Accounted'
BY DEF Accounted, InBatch, Settled, Written

(* The end of a flush empties the batch of w and no other. *)
LEMMA OthersBatches ==
  ASSUME TypeOK, Accounted, NEW w \in Workers, batch' = [batch EXCEPT ![w] = {}]
  PROVE  /\ InBatch' = InBatch \ batch[w]
         /\ \A u, v \in Workers : u # v => batch'[u] \cap batch'[v] = {}
<1>1. \A v \in Workers : batch'[v] = IF v = w THEN {} ELSE batch[v]
  BY DEF TypeOK, WorkerType
<1>2. \A v \in Workers : v # w => batch[v] \cap batch[w] = {}
  BY DEF Accounted
<1>3. InBatch' = InBatch \ batch[w]
  <2>1. \A e : e \in InBatch' <=> \E v \in Workers : e \in batch'[v]
    BY DEF InBatch
  <2>2. \A e : e \in InBatch <=> \E v \in Workers : e \in batch[v]
    BY DEF InBatch
  <2> QED
    BY <1>1, <1>2, <2>1, <2>2
<1> QED
  BY <1>1, <1>3 DEF Accounted

LEMMA AccountedStep ==
  ASSUME TypeOK, Accounted, [Next]_vars
  PROVE  Accounted'
<1>1. ASSUME NEW source \in Sources, Write(source) PROVE Accounted'
  <2>1. next \in Events /\ next \in Nat \ {0} /\ UNCHANGED <<rows, fallback>> /\ next' = next + 1
    BY <1>1 DEF Write, table, TypeOK, ChannelType, Events
  <2>2. UNCHANGED Written
    BY <2>1 DEF Written
  <2>3. 1..(next' - 1) = (1..(next - 1)) \cup {next} /\ next \notin 1..(next - 1)
    BY <2>1
  <2>4. /\ 1..(next - 1) = ch \cup InBatch \cup Settled /\ lost = {} /\ process = "up"
        /\ ch \cap (InBatch \cup Settled) = {} /\ InBatch \cap (dropped \cup fallback) = {}
        /\ \A v, w \in Workers : v # w => batch[v] \cap batch[w] = {}
    BY <1>1 DEF Accounted, Write
  <2>5. CASE Die("panic") /\ UNCHANGED dropped
    <3>1. /\ ch' = {} /\ batch' = [w \in Workers |-> {}] /\ InBatch' = {} /\ process' = "panic"
          /\ lost' = ch \cup InBatch \cup {next}
      BY <2>1, <2>5, DieType
    <3>2. UNCHANGED Settled
      BY <2>1, <2>2, <2>5 DEF Settled
    <3> QED
      BY <2>3, <2>4, <3>1, <3>2 DEF Accounted
  <2>6. CASE ch' = ch \cup {next} /\ UNCHANGED <<batch, dropped, lost, process>>
    <3>1. UNCHANGED <<InBatch, Settled>>
      BY <2>1, <2>2, <2>6 DEF InBatch, Settled
    <3> QED
      BY <2>1, <2>3, <2>4, <2>6, <3>1 DEF Accounted
  <2>7. CASE dropped' = dropped \cup {next} /\ UNCHANGED <<ch, batch, lost, process>>
    <3>1. UNCHANGED InBatch /\ Settled' = Settled \cup {next}
      BY <2>1, <2>2, <2>7 DEF InBatch, Settled
    <3> QED
      BY <2>1, <2>3, <2>4, <2>7, <3>1 DEF Accounted
  <2> QED
    BY <1>1, <2>5, <2>6, <2>7 DEF Write
<1>2. ASSUME NEW w \in Workers, Receive(w) PROVE Accounted'
  <2>1. PICK e \in ch : ch' = ch \ {e} /\ batch' = [batch EXCEPT ![w] = batch[w] \cup {e}]
    BY <1>2 DEF Receive
  <2>2. \A v \in Workers : batch'[v] = IF v = w THEN batch[w] \cup {e} ELSE batch[v]
    BY <2>1 DEF TypeOK, WorkerType
  <2>3. UNCHANGED <<next, rows, noted, Written, Settled, process>>
    BY <1>2 DEF Receive, table, shutdown, Written, Settled
  <2>4. InBatch' = InBatch \cup {e}
    <3>1. \A f : f \in InBatch' <=> \E v \in Workers : f \in batch'[v]
      BY DEF InBatch
    <3>2. \A f : f \in InBatch <=> \E v \in Workers : f \in batch[v]
      BY DEF InBatch
    <3> QED
      BY <2>2, <3>1, <3>2
  <2>5. \A v \in Workers : e \notin batch[v]
    BY <2>1 DEF Accounted, InBatch
  <2>6. \A u, v \in Workers : u # v => batch'[u] \cap batch'[v] = {}
    BY <2>2, <2>5 DEF Accounted
  <2>7. e \notin dropped \cup fallback
    BY <2>1 DEF Accounted, Settled
  <2> QED
    BY <2>1, <2>3, <2>4, <2>6, <2>7 DEF Accounted
<1>3. ASSUME NEW w \in Workers, Tick(w) PROVE Accounted'
  BY <1>3, AccountedKept DEF Tick, pvars, table, channel, shutdown
<1>4. ASSUME NEW w \in Workers, Drained(w) PROVE Accounted'
  BY <1>4, AccountedKept DEF Drained, pvars, table, channel, shutdown
<1>5. ASSUME NEW w \in Workers, FlushOk(w) PROVE Accounted'
  <2>1. Written' = Written \cup batch[w] /\ UNCHANGED <<next, ch, noted, process>>
    BY <1>5, CopyType DEF FlushOk, channel, shutdown
  <2>2. /\ InBatch' = InBatch \ batch[w]
        /\ \A u, v \in Workers : u # v => batch'[u] \cap batch'[v] = {}
    BY <1>5, OthersBatches DEF FlushOk, EndFlush
  <2>3. batch[w] \subseteq InBatch
    BY DEF InBatch
  <2> QED
    BY <2>1, <2>2, <2>3 DEF Accounted, Settled
<1>6. ASSUME NEW w \in Workers, FlushFails(w) PROVE Accounted'
  <2>1. /\ Written \subseteq Written' /\ Written' \subseteq Written \cup batch[w]
        /\ UNCHANGED <<next, ch, dropped, lost, process>>
    BY <1>6 DEF FlushFails, Written, channel, table, shutdown
  <2>2. batch[w] \subseteq InBatch
    BY DEF InBatch
  <2>3. CASE UNCHANGED <<batch, fallback>>
    <3>1. UNCHANGED InBatch
      BY <2>3 DEF InBatch
    <3> QED
      BY <2>1, <2>2, <2>3, <3>1 DEF Accounted, Settled
  <2>4. CASE fallback' = fallback \cup batch[w] /\ batch' = [batch EXCEPT ![w] = {}]
    <3>1. /\ InBatch' = InBatch \ batch[w]
          /\ \A u, v \in Workers : u # v => batch'[u] \cap batch'[v] = {}
      BY <2>4, OthersBatches
    <3> QED
      BY <2>1, <2>2, <2>4, <3>1 DEF Accounted, Settled
  <2> QED
    BY <1>6, <2>3, <2>4 DEF FlushFails, Retry, EndFlush
<1>7. ASSUME NEW w \in Workers, FlushUnknown(w) PROVE Accounted'
  <2>1. /\ Written \subseteq Written' /\ Written' \subseteq Written \cup batch[w]
        /\ UNCHANGED <<next, ch, dropped, lost, process>>
    BY <1>7, CopyType DEF FlushUnknown, channel, shutdown
  <2>2. batch[w] \subseteq InBatch
    BY DEF InBatch
  <2>3. CASE UNCHANGED <<batch, fallback>>
    <3>1. UNCHANGED InBatch
      BY <2>3 DEF InBatch
    <3> QED
      BY <2>1, <2>2, <2>3, <3>1 DEF Accounted, Settled
  <2>4. CASE fallback' = fallback \cup batch[w] /\ batch' = [batch EXCEPT ![w] = {}]
    <3>1. /\ InBatch' = InBatch \ batch[w]
          /\ \A u, v \in Workers : u # v => batch'[u] \cap batch'[v] = {}
      BY <2>4, OthersBatches
    <3> QED
      BY <2>1, <2>2, <2>4, <3>1 DEF Accounted, Settled
  <2> QED
    BY <1>7, <2>3, <2>4 DEF FlushUnknown, Retry, EndFlush
<1>8. CASE Signal
  BY <1>8, AccountedKept DEF Signal, wvars, pvars, table, channel
<1>9. CASE Deadline
  BY <1>9, AccountedKept DEF Deadline, wvars, pvars, table, channel
<1>10. ASSUME NEW source \in Sources, StopSource(source) PROVE Accounted'
  BY <1>10, AccountedKept DEF StopSource, wvars, pvars, table, channel
<1>11. CASE StopDaemon
  BY <1>11, AccountedKept DEF StopDaemon, wvars, pvars, table, channel
<1>12. CASE CloseChannel
  BY <1>12, AccountedKept DEF CloseChannel, wvars, pvars, table, shutdown
<1>13. CASE CloseReturns
  BY <1>13, AccountedKept DEF CloseReturns, wvars, pvars, table, channel
<1>14. CASE ClosePool
  BY <1>14, AccountedKept DEF ClosePool, wvars, pvars, table, channel
<1>15. CASE Exit
  <2>1. /\ ch' = {} /\ batch' = [w \in Workers |-> {}] /\ InBatch' = {} /\ process' = "exited"
        /\ lost' = ch \cup InBatch
    BY <1>15, DieType DEF Exit
  <2>2. UNCHANGED <<next, rows, dropped, fallback, Written, Settled>>
    BY <1>15 DEF Exit, table, Written, Settled
  <2> QED
    BY <1>15, <2>1, <2>2 DEF Exit, Accounted
<1>16. CASE StartPurge
  BY <1>16, AccountedKept DEF StartPurge, wvars, table, channel, shutdown
<1>17. CASE Query
  BY <1>17, AccountedKept DEF Query, wvars, table, channel, shutdown
<1>18. CASE PurgeOne
  BY <1>18, AccountedKept DEF PurgeOne, wvars, table, channel, shutdown
<1>19. CASE PurgeFails
  BY <1>19, AccountedKept DEF PurgeFails, wvars, table, channel, shutdown
<1>20. CASE EndBatch
  BY <1>20, AccountedKept DEF EndBatch, wvars, table, channel, shutdown
<1>21. CASE QueryFails
  BY <1>21, AccountedKept DEF QueryFails, wvars, table, channel, shutdown
<1>22. CASE UNCHANGED vars
  BY <1>22, AccountedKept DEF vars, channel, wvars, table, shutdown
<1> QED
  BY <1>1, <1>2, <1>3, <1>4, <1>5, <1>6, <1>7, <1>8, <1>9, <1>10, <1>11, <1>12, <1>13, <1>14,
     <1>15, <1>16, <1>17, <1>18, <1>19, <1>20, <1>21, <1>22
  DEF Next, WorkerStep, ShutdownStep, PurgeStep

(* No event is forgotten while the process is up: it is in the channel, with
   one worker, in the table, or counted; what the end of the process takes
   is what was in the channel and in the batches.                           *)
THEOREM EventsAccounted == Spec => []Accounted
<1>1. Init => Accounted
  BY DEF Init, Accounted, InBatch, Settled, Written
<1>2. TypeOK /\ Accounted /\ [Next]_vars => Accounted'
  BY AccountedStep
<1> QED
  BY <1>1, <1>2, TypeCorrect, PTL DEF Spec

-----------------------------------------------------------------------------
(* A Close without a timeout leaves nothing behind.                         *)

(* A worker ends only when the closed channel is empty, with an empty batch;
   nothing gets into a closed channel, and only the end of the process loses
   what it finds there.                                                     *)
GoneInv ==
  /\ \A w \in Workers : wpc[w] = "gone" => closed /\ ch = {} /\ batch[w] = {}
  /\ flushed => \A w \in Workers : wpc[w] = "gone"
  /\ lost # {} => process = "panic" \/ (process = "exited" /\ ~flushed)

LEMMA GoneStep ==
  ASSUME TypeOK, GoneInv, [Next]_vars
  PROVE  GoneInv'
<1>1. ASSUME NEW source \in Sources, Write(source) PROVE GoneInv'
  <2>1. CASE Die("panic")
    <3>1. ch' = {} /\ batch' = [w \in Workers |-> {}] /\ process' = "panic"
      BY <2>1 DEF Die
    <3>2. UNCHANGED <<wpc, closed, flushed>>
      BY <1>1 DEF Write
    <3> QED
      BY <3>1, <3>2 DEF GoneInv
  <2>2. CASE UNCHANGED <<batch, lost, process>> /\ ~closed
    BY <1>1, <2>2 DEF Write, GoneInv
  <2> QED
    BY <1>1, <2>1, <2>2 DEF Write
<1>2. ASSUME NEW w \in Workers, Receive(w) PROVE GoneInv'
  BY <1>2 DEF Receive, shutdown, GoneInv, TypeOK, WorkerType
<1>3. ASSUME NEW w \in Workers, Tick(w) PROVE GoneInv'
  BY <1>3 DEF Tick, channel, shutdown, GoneInv, TypeOK, WorkerType
<1>4. ASSUME NEW w \in Workers, Drained(w) PROVE GoneInv'
  BY <1>4 DEF Drained, channel, shutdown, GoneInv, TypeOK, WorkerType
<1>5. ASSUME NEW w \in Workers, FlushOk(w) PROVE GoneInv'
  BY <1>5 DEF FlushOk, EndFlush, channel, shutdown, GoneInv, TypeOK, WorkerType
<1>6. ASSUME NEW w \in Workers, FlushFails(w) PROVE GoneInv'
  BY <1>6 DEF FlushFails, Retry, EndFlush, channel, shutdown, GoneInv, TypeOK, WorkerType
<1>7. ASSUME NEW w \in Workers, FlushUnknown(w) PROVE GoneInv'
  BY <1>7 DEF FlushUnknown, Retry, EndFlush, channel, shutdown, GoneInv, TypeOK, WorkerType
<1>8. CASE Signal
  BY <1>8 DEF Signal, wvars, channel, GoneInv, TypeOK, WorkerType
<1>9. CASE Deadline
  BY <1>9 DEF Deadline, wvars, channel, GoneInv, TypeOK, WorkerType
<1>10. ASSUME NEW source \in Sources, StopSource(source) PROVE GoneInv'
  BY <1>10 DEF StopSource, wvars, channel, GoneInv, TypeOK, WorkerType
<1>11. CASE StopDaemon
  BY <1>11 DEF StopDaemon, wvars, channel, GoneInv, TypeOK, WorkerType
<1>12. CASE CloseChannel
  BY <1>12 DEF CloseChannel, wvars, shutdown, GoneInv, TypeOK, WorkerType
<1>13. CASE CloseReturns
  BY <1>13 DEF CloseReturns, wvars, channel, GoneInv, TypeOK, WorkerType
<1>14. CASE ClosePool
  BY <1>14 DEF ClosePool, wvars, channel, GoneInv, TypeOK, WorkerType
<1>15. CASE Exit
  <2>1. /\ ch' = {} /\ batch' = [w \in Workers |-> {}] /\ process' = "exited"
        /\ lost' = ch \cup InBatch
    BY <1>15, DieType DEF Exit
  <2>2. UNCHANGED <<wpc, closed, flushed>>
    BY <1>15 DEF Exit
  <2>3. flushed => lost' = {}
    BY <2>1 DEF GoneInv, InBatch
  <2> QED
    BY <2>1, <2>2, <2>3 DEF GoneInv
<1>16. CASE StartPurge
  BY <1>16 DEF StartPurge, wvars, channel, shutdown, GoneInv, TypeOK, WorkerType
<1>17. CASE Query
  BY <1>17 DEF Query, wvars, channel, shutdown, GoneInv, TypeOK, WorkerType
<1>18. CASE PurgeOne
  BY <1>18 DEF PurgeOne, wvars, channel, shutdown, GoneInv, TypeOK, WorkerType
<1>19. CASE PurgeFails
  BY <1>19 DEF PurgeFails, wvars, channel, shutdown, GoneInv, TypeOK, WorkerType
<1>20. CASE EndBatch
  BY <1>20 DEF EndBatch, wvars, channel, shutdown, GoneInv, TypeOK, WorkerType
<1>21. CASE QueryFails
  BY <1>21 DEF QueryFails, wvars, channel, shutdown, GoneInv, TypeOK, WorkerType
<1>22. CASE UNCHANGED vars
  BY <1>22 DEF vars, channel, wvars, shutdown, GoneInv
<1> QED
  BY <1>1, <1>2, <1>3, <1>4, <1>5, <1>6, <1>7, <1>8, <1>9, <1>10, <1>11, <1>12, <1>13, <1>14,
     <1>15, <1>16, <1>17, <1>18, <1>19, <1>20, <1>21, <1>22
  DEF Next, WorkerStep, ShutdownStep, PurgeStep

(* When Close returns without its timeout, the channel and the batches are
   empty: nothing that was accepted is lost.                                *)
THEOREM CloseLeavesNothing == Spec => []CloseFlushes
<1>1. Init => GoneInv
  BY DEF Init, GoneInv
<1>2. TypeOK /\ GoneInv /\ [Next]_vars => GoneInv'
  BY GoneStep
<1>3. GoneInv => CloseFlushes
  BY DEF GoneInv, CloseFlushes, InBatch
<1> QED
  BY <1>1, <1>2, <1>3, TypeCorrect, PTL DEF Spec

-----------------------------------------------------------------------------
(* One row per event, and one more per COPY whose answer was lost.          *)

RowsOf(e) == {r \in rows : r[1] = e}

(* Nothing has been decided about the event. *)
Waiting(e) == e >= next \/ e \in ch \/ e \in InBatch

(* An event that a worker still holds has no row but those of COPYs that
   reported an error.                                                       *)
RowInv ==
  \A e \in Events :
    /\ IsFiniteSet(RowsOf(e))
    /\ Cardinality(RowsOf(e)) <= unknown + (IF Waiting(e) THEN 0 ELSE 1)

LEMMA InBatchHas ==
  /\ \A e : e \in InBatch <=> \E w \in Workers : e \in batch[w]
  /\ \A e : e \in InBatch' <=> \E w \in Workers : e \in batch'[w]
BY DEF InBatch

(* Steps without a COPY. *)
LEMMA RowsKept ==
  ASSUME TypeOK, RowInv, UNCHANGED <<rows, unknown>>,
         \A e \in Events : Waiting(e)' => Waiting(e)
  PROVE  RowInv'
<1> SUFFICES ASSUME NEW e \in Events
             PROVE  /\ IsFiniteSet(RowsOf(e)')
                    /\ Cardinality(RowsOf(e)') <= unknown' + (IF Waiting(e)' THEN 0 ELSE 1)
  BY DEF RowInv
<1>1. RowsOf(e)' = RowsOf(e)
  BY DEF RowsOf
<1>2. IsFiniteSet(RowsOf(e)) /\ Cardinality(RowsOf(e)) \in Nat /\ unknown \in Nat
  BY FS_CardinalityType DEF RowInv, TypeOK, TableType
<1>3. Cardinality(RowsOf(e)) <= unknown + (IF Waiting(e) THEN 0 ELSE 1)
  BY DEF RowInv
<1> QED
  BY <1>1, <1>2, <1>3

LEMMA WaitingKept ==
  ASSUME UNCHANGED <<next, ch, batch>>
  PROVE  \A e \in Events : Waiting(e)' => Waiting(e)
BY DEF Waiting, InBatch

(* What a COPY adds. *)
LEMMA RowsCopied ==
  ASSUME TypeOK, RowInv, NEW w \in Workers, Copy(w), NEW e \in Events
  PROVE  /\ IsFiniteSet(RowsOf(e)') /\ Cardinality(RowsOf(e)') \in Nat
         /\ e \in batch[w] => Cardinality(RowsOf(e)') <= Cardinality(RowsOf(e)) + 1
         /\ e \notin batch[w] => Cardinality(RowsOf(e)') = Cardinality(RowsOf(e))
<1>1. IsFiniteSet(RowsOf(e)) /\ Cardinality(RowsOf(e)) \in Nat
  BY FS_CardinalityType DEF RowInv
<1>2. CASE e \in batch[w]
  <2>1. RowsOf(e)' = RowsOf(e) \cup {<<e, copies + 1>>}
    BY <1>2 DEF RowsOf, Copy
  <2>2. /\ IsFiniteSet(RowsOf(e) \cup {<<e, copies + 1>>})
        /\ \/ Cardinality(RowsOf(e) \cup {<<e, copies + 1>>}) = Cardinality(RowsOf(e))
           \/ Cardinality(RowsOf(e) \cup {<<e, copies + 1>>}) = Cardinality(RowsOf(e)) + 1
    BY <1>1, FS_AddElement
  <2> QED
    BY <1>1, <1>2, <2>1, <2>2
<1>3. CASE e \notin batch[w]
  <2>1. RowsOf(e)' = RowsOf(e)
    BY <1>3 DEF RowsOf, Copy
  <2> QED
    BY <1>1, <1>3, <2>1
<1> QED
  BY <1>2, <1>3

LEMMA RowStep ==
  ASSUME TypeOK, Accounted, RowInv, [Next]_vars
  PROVE  RowInv'
<1>1. ASSUME NEW source \in Sources, Write(source) PROVE RowInv'
  <2>1. \A e \in Events : Waiting(e)' => Waiting(e)
    <3>1. next \in Nat /\ next' = next + 1 /\ ch' \subseteq ch \cup {next}
      BY <1>1 DEF Write, Die, TypeOK, ChannelType
    <3>2. \A w \in Workers : batch'[w] \subseteq batch[w]
      BY <1>1 DEF Write, Die
    <3> QED
      BY <3>1, <3>2, InBatchHas DEF Waiting, Events
  <2> QED
    BY <1>1, <2>1, RowsKept DEF Write, table
<1>2. ASSUME NEW w \in Workers, Receive(w) PROVE RowInv'
  <2>1. PICK e \in ch : ch' = ch \ {e} /\ batch' = [batch EXCEPT ![w] = batch[w] \cup {e}]
    BY <1>2 DEF Receive
  <2>2. \A f \in Events : Waiting(f)' => Waiting(f)
    <3>1. \A v \in Workers : batch'[v] \subseteq batch[v] \cup {e}
      BY <2>1 DEF TypeOK, WorkerType
    <3>2. UNCHANGED next
      BY <1>2 DEF Receive
    <3> QED
      BY <2>1, <3>1, <3>2, InBatchHas DEF Waiting
  <2> QED
    BY <1>2, <2>2, RowsKept DEF Receive, table
<1>3. ASSUME NEW w \in Workers, Tick(w) PROVE RowInv'
  BY <1>3, WaitingKept, RowsKept DEF Tick, table, channel
<1>4. ASSUME NEW w \in Workers, Drained(w) PROVE RowInv'
  BY <1>4, WaitingKept, RowsKept DEF Drained, table, channel
<1>5. ASSUME NEW w \in Workers, FlushOk(w) PROVE RowInv'
  <2> SUFFICES ASSUME NEW e \in Events
               PROVE  /\ IsFiniteSet(RowsOf(e)')
                      /\ Cardinality(RowsOf(e)') <= unknown' + (IF Waiting(e)' THEN 0 ELSE 1)
    BY DEF RowInv
  <2>1. /\ IsFiniteSet(RowsOf(e)') /\ Cardinality(RowsOf(e)') \in Nat
        /\ e \in batch[w] => Cardinality(RowsOf(e)') <= Cardinality(RowsOf(e)) + 1
        /\ e \notin batch[w] => Cardinality(RowsOf(e)') = Cardinality(RowsOf(e))
    BY <1>5, RowsCopied DEF FlushOk
  <2>2. /\ Cardinality(RowsOf(e)) \in Nat
        /\ Cardinality(RowsOf(e)) <= unknown + (IF Waiting(e) THEN 0 ELSE 1)
    BY FS_CardinalityType DEF RowInv
  <2>3. UNCHANGED <<next, ch, unknown>> /\ unknown \in Nat /\ next \in Nat
    BY <1>5 DEF FlushOk, channel, TypeOK, ChannelType, TableType
  <2>4. InBatch' = InBatch \ batch[w]
    BY <1>5, OthersBatches DEF FlushOk, EndFlush
  <2>5. CASE e \in batch[w]
    <3>1. e \in InBatch
      BY <2>5, InBatchHas
    <3>2. e \in 1..(next - 1) /\ e \notin ch
      BY <1>5, <3>1 DEF Accounted, FlushOk
    <3>3. ~Waiting(e)'
      BY <2>3, <2>4, <2>5, <3>2 DEF Waiting
    <3>4. Waiting(e)
      BY <3>1 DEF Waiting
    <3> QED
      BY <2>1, <2>2, <2>3, <2>5, <3>3, <3>4
  <2>6. CASE e \notin batch[w]
    <3>1. Waiting(e)' => Waiting(e)
      BY <2>3, <2>4 DEF Waiting
    <3> QED
      BY <2>1, <2>2, <2>3, <2>6, <3>1
  <2> QED
    BY <2>5, <2>6
<1>6. ASSUME NEW w \in Workers, FlushFails(w) PROVE RowInv'
  <2>1. \A e \in Events : Waiting(e)' => Waiting(e)
    <3>1. \A v \in Workers : batch'[v] \subseteq batch[v]
      BY <1>6 DEF FlushFails, Retry, EndFlush, TypeOK, WorkerType
    <3>2. UNCHANGED <<next, ch>>
      BY <1>6 DEF FlushFails, channel
    <3> QED
      BY <3>1, <3>2, InBatchHas DEF Waiting
  <2> QED
    BY <1>6, <2>1, RowsKept DEF FlushFails, table
<1>7. ASSUME NEW w \in Workers, FlushUnknown(w) PROVE RowInv'
  <2> SUFFICES ASSUME NEW e \in Events
               PROVE  /\ IsFiniteSet(RowsOf(e)')
                      /\ Cardinality(RowsOf(e)') <= unknown' + (IF Waiting(e)' THEN 0 ELSE 1)
    BY DEF RowInv
  <2>1. /\ IsFiniteSet(RowsOf(e)') /\ Cardinality(RowsOf(e)') \in Nat
        /\ e \in batch[w] => Cardinality(RowsOf(e)') <= Cardinality(RowsOf(e)) + 1
        /\ e \notin batch[w] => Cardinality(RowsOf(e)') = Cardinality(RowsOf(e))
    BY <1>7, RowsCopied DEF FlushUnknown
  <2>2. /\ Cardinality(RowsOf(e)) \in Nat
        /\ Cardinality(RowsOf(e)) <= unknown + (IF Waiting(e) THEN 0 ELSE 1)
    BY FS_CardinalityType DEF RowInv
  <2>3. unknown' = unknown + 1 /\ unknown \in Nat
    BY <1>7 DEF FlushUnknown, TypeOK, TableType
  <2>4. e \in batch[w] => Waiting(e)
    BY InBatchHas DEF Waiting
  <2> QED
    BY <2>1, <2>2, <2>3, <2>4
<1>8. CASE Signal
  BY <1>8, WaitingKept, RowsKept DEF Signal, wvars, table, channel
<1>9. CASE Deadline
  BY <1>9, WaitingKept, RowsKept DEF Deadline, wvars, table, channel
<1>10. ASSUME NEW source \in Sources, StopSource(source) PROVE RowInv'
  BY <1>10, WaitingKept, RowsKept DEF StopSource, wvars, table, channel
<1>11. CASE StopDaemon
  BY <1>11, WaitingKept, RowsKept DEF StopDaemon, wvars, table, channel
<1>12. CASE CloseChannel
  BY <1>12, WaitingKept, RowsKept DEF CloseChannel, wvars, table
<1>13. CASE CloseReturns
  BY <1>13, WaitingKept, RowsKept DEF CloseReturns, wvars, table, channel
<1>14. CASE ClosePool
  BY <1>14, WaitingKept, RowsKept DEF ClosePool, wvars, table, channel
<1>15. CASE Exit
  <2>1. UNCHANGED next /\ ch' = {} /\ InBatch' = {}
    BY <1>15, DieType DEF Exit
  <2>2. \A e \in Events : Waiting(e)' => Waiting(e)
    BY <2>1 DEF Waiting
  <2> QED
    BY <1>15, <2>2, RowsKept DEF Exit, table
<1>16. CASE StartPurge
  BY <1>16, WaitingKept, RowsKept DEF StartPurge, wvars, table, channel
<1>17. CASE Query
  BY <1>17, WaitingKept, RowsKept DEF Query, wvars, table, channel
<1>18. CASE PurgeOne
  BY <1>18, WaitingKept, RowsKept DEF PurgeOne, wvars, table, channel
<1>19. CASE PurgeFails
  BY <1>19, WaitingKept, RowsKept DEF PurgeFails, wvars, table, channel
<1>20. CASE EndBatch
  BY <1>20, WaitingKept, RowsKept DEF EndBatch, wvars, table, channel
<1>21. CASE QueryFails
  BY <1>21, WaitingKept, RowsKept DEF QueryFails, wvars, table, channel
<1>22. CASE UNCHANGED vars
  BY <1>22, WaitingKept, RowsKept DEF vars, channel, wvars, table
<1> QED
  BY <1>1, <1>2, <1>3, <1>4, <1>5, <1>6, <1>7, <1>8, <1>9, <1>10, <1>11, <1>12, <1>13, <1>14,
     <1>15, <1>16, <1>17, <1>18, <1>19, <1>20, <1>21, <1>22
  DEF Next, WorkerStep, ShutdownStep, PurgeStep

(* Two workers, retries and the shutdown never write an event twice, except
   for each COPY that committed and reported an error.                      *)
THEOREM RowsBounded == Spec => []OneRowPerEvent
<1>1. Init => RowInv
  <2> SUFFICES ASSUME Init, NEW e \in Events
               PROVE  /\ IsFiniteSet(RowsOf(e))
                      /\ Cardinality(RowsOf(e)) <= unknown + (IF Waiting(e) THEN 0 ELSE 1)
    BY DEF RowInv
  <2>1. RowsOf(e) = {}
    BY DEF Init, RowsOf
  <2>2. unknown = 0
    BY DEF Init
  <2> QED
    BY <2>1, <2>2, FS_EmptySet
<1>2. TypeOK /\ Accounted /\ RowInv /\ [Next]_vars => RowInv'
  BY RowStep
<1>3. TypeOK /\ RowInv => OneRowPerEvent
  <2> SUFFICES ASSUME TypeOK, RowInv, NEW e \in Events
               PROVE  Cardinality(RowsOf(e)) <= 1 + unknown
    BY DEF OneRowPerEvent, RowsOf
  <2>1. Cardinality(RowsOf(e)) \in Nat /\ unknown \in Nat
    BY FS_CardinalityType DEF RowInv, TypeOK, TableType
  <2>2. Cardinality(RowsOf(e)) <= unknown + (IF Waiting(e) THEN 0 ELSE 1)
    BY DEF RowInv
  <2> QED
    BY <2>1, <2>2
<1> QED
  BY <1>1, <1>2, <1>3, TypeCorrect, EventsAccounted, PTL DEF Spec
=============================================================================
