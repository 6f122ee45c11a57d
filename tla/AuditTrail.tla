----------------------------- MODULE AuditTrail -----------------------------
(***************************************************************************)
(* The life of audit events: the callers of BatchWriter.Write, the bounded  *)
(* channel, the batching workers and their COPYs, the shutdown sequence     *)
(* that closes the writer among the other parts of the process, and the     *)
(* retention purger that later anonymises the rows.                         *)
(*                                                                          *)
(* Abstracted: payloads and time.  Events are numbered in the order of      *)
(* their creation, which is the order of created_at.  Rows carry a serial   *)
(* number, since a COPY that is repeated gives its events new ids.          *)
(***************************************************************************)
EXTENDS Naturals, FiniteSets, Sequences

CONSTANTS
  NumEvents,
  Malformed,    \* events whose payload the purger cannot read
  Workers,      \* audit.NewWriter's workers
  BufSize, BatchSize, MaxTries,
  PurgeBatch,   \* batchSize of the purger
  MaxFaults     \* COPYs that commit but report an error, failed statements of the purger

ASSUME AuditAssumption ==
  /\ {NumEvents, MaxFaults} \subseteq Nat
  /\ {BufSize, BatchSize, MaxTries, PurgeBatch} \subseteq Nat \ {0}
  /\ Malformed \subseteq 1..NumEvents
  /\ Workers # {}

VARIABLES
  next,      \* the next event to be created
  ch,        \* the channel
  closed,    \* it is closed
  wpc, batch, tries,   \* the workers
  rows,      \* audit_logs: pairs of an event and the serial number of its COPY
  copies,    \* number of COPYs that committed
  unknown,   \* how many of them reported an error
  dropped, fallback,   \* events only counted, or only in the log of the process
  lost,      \* events that were in memory when the process ended
  running,   \* the sources of events that have not been stopped
  stage,     \* shutdown step that is next, 0 before the signal
  expired,   \* the deadline of the shutdown has passed
  flushed,   \* Close has seen all workers end
  process,   \* "up", "exited" or "panic"
  cutoff, ppc, todo, full, purged,   \* the purger
  faults

wvars == <<wpc, batch, tries>>
pvars == <<cutoff, ppc, todo, full, purged>>
table == <<rows, copies, unknown>>
noted == <<dropped, fallback, lost>>
channel == <<next, ch, closed>>
shutdown == <<running, stage, expired, flushed, process>>

vars == <<channel, wvars, table, noted, shutdown, pvars, faults>>

Events == 1..NumEvents
Sources == {"http", "sessions", "worker"}

(* The cleanup functions in the order Shutdown runs them, last registered
   first; the ones without an effect on the audit trail are left out.       *)
Cleanup == <<"http", "core", "sessions", "retention", "worker", "pool">>

Init ==
  /\ next = 1 /\ ch = {} /\ closed = FALSE
  /\ wpc = [w \in Workers |-> "wait"]
  /\ batch = [w \in Workers |-> {}] /\ tries = [w \in Workers |-> 0]
  /\ rows = {} /\ copies = 0 /\ unknown = 0
  /\ dropped = {} /\ fallback = {} /\ lost = {}
  /\ running = Sources /\ stage = 0 /\ expired = FALSE /\ flushed = FALSE
  /\ process = "up"
  /\ cutoff = 0 /\ ppc = "idle" /\ todo = {} /\ full = FALSE /\ purged = {}
  /\ faults = 0

InBatch == UNION {batch[w] : w \in Workers}

(* The process ends: what is only in its memory goes with it, neither
   written, nor counted, nor logged.                                        *)
Die(end) ==
  /\ process' = end
  /\ lost' = ch \cup InBatch \cup IF end = "panic" THEN {next} ELSE {}
  /\ ch' = {} /\ batch' = [w \in Workers |-> {}]

-----------------------------------------------------------------------------
(* BatchWriter.                                                             *)

(* Write never blocks: a full channel drops the event.  A send on the closed
   channel panics.                                                          *)
Write(source) ==
  /\ process = "up" /\ source \in running /\ next <= NumEvents
  /\ next' = next + 1
  /\ \/ /\ closed
        /\ Die("panic")
        /\ UNCHANGED dropped
     \/ /\ ~closed /\ Cardinality(ch) < BufSize
        /\ ch' = ch \cup {next}
        /\ UNCHANGED <<batch, dropped, lost, process>>
     \/ /\ ~closed /\ Cardinality(ch) >= BufSize
        /\ dropped' = dropped \cup {next}
        /\ UNCHANGED <<ch, batch, lost, process>>
  /\ UNCHANGED <<closed, wpc, tries, table, fallback, running, stage, expired, flushed,
                 pvars, faults>>

(* worker(): the oldest event of the channel joins the batch. *)
Receive(w) ==
  /\ process = "up" /\ wpc[w] = "wait"
  /\ \E e \in ch :
       /\ \A f \in ch : e <= f
       /\ ch' = ch \ {e}
       /\ batch' = [batch EXCEPT ![w] = @ \cup {e}]
       /\ wpc' = [wpc EXCEPT ![w] = IF Cardinality(batch[w]) + 1 >= BatchSize
                                    THEN "flush" ELSE "wait"]
  /\ UNCHANGED <<next, closed, tries, table, noted, shutdown, pvars, faults>>

\* Mutant of Tick: a flush waits for a full batch.
TickWhenFull(w) ==
  /\ process = "up" /\ wpc[w] = "wait" /\ Cardinality(batch[w]) >= BatchSize
  /\ wpc' = [wpc EXCEPT ![w] = "flush"]
  /\ UNCHANGED <<channel, batch, tries, table, noted, shutdown, pvars, faults>>

(* The ticker, or the end of the closed channel. *)
Tick(w) ==
  /\ process = "up" /\ wpc[w] = "wait" /\ batch[w] # {}
  /\ wpc' = [wpc EXCEPT ![w] = "flush"]
  /\ UNCHANGED <<channel, batch, tries, table, noted, shutdown, pvars, faults>>

Drained(w) ==
  /\ process = "up" /\ wpc[w] = "wait" /\ batch[w] = {} /\ closed /\ ch = {}
  /\ wpc' = [wpc EXCEPT ![w] = "gone"]
  /\ UNCHANGED <<channel, batch, tries, table, noted, shutdown, pvars, faults>>

PoolOpen == stage <= Len(Cleanup)

Copy(w) ==
  /\ rows' = rows \cup (batch[w] \X {copies + 1})
  /\ copies' = copies + 1

\* Mutant of EndFlush: the batch is not emptied.
EndFlushKeeps(w) ==
  /\ wpc' = [wpc EXCEPT ![w] = "wait"]
  /\ tries' = [tries EXCEPT ![w] = 0]
  /\ UNCHANGED batch

EndFlush(w) ==
  /\ wpc' = [wpc EXCEPT ![w] = "wait"]
  /\ batch' = [batch EXCEPT ![w] = {}]
  /\ tries' = [tries EXCEPT ![w] = 0]

FlushOk(w) ==
  /\ process = "up" /\ wpc[w] = "flush" /\ PoolOpen
  /\ Copy(w) /\ EndFlush(w)
  /\ UNCHANGED <<unknown, channel, noted, shutdown, pvars, faults>>

\* Mutant of Retry: the last attempt is counted like the others.
RetryOnceMore(w) ==
  \/ /\ tries[w] + 1 <= MaxTries
     /\ tries' = [tries EXCEPT ![w] = @ + 1]
     /\ UNCHANGED <<wpc, batch, fallback>>
  \/ /\ tries[w] + 1 > MaxTries
     /\ fallback' = fallback \cup batch[w]
     /\ EndFlush(w)

\* Mutant of Retry: no fallback after the last attempt.
RetryGivesUp(w) ==
  \/ /\ tries[w] + 1 < MaxTries
     /\ tries' = [tries EXCEPT ![w] = @ + 1]
     /\ UNCHANGED <<wpc, batch, fallback>>
  \/ /\ tries[w] + 1 >= MaxTries
     /\ EndFlush(w)
     /\ UNCHANGED fallback

(* flushWithRetry: another attempt, or the fallback to the log. *)
Retry(w) ==
  \/ /\ tries[w] + 1 < MaxTries
     /\ tries' = [tries EXCEPT ![w] = @ + 1]
     /\ UNCHANGED <<wpc, batch, fallback>>
  \/ /\ tries[w] + 1 >= MaxTries
     /\ fallback' = fallback \cup batch[w]
     /\ EndFlush(w)

FlushFails(w) ==
  /\ process = "up" /\ wpc[w] = "flush"
  /\ Retry(w)
  /\ UNCHANGED <<channel, table, dropped, lost, shutdown, pvars, faults>>

(* The COPY commits, and the answer is lost or late. *)
FlushUnknown(w) ==
  /\ process = "up" /\ wpc[w] = "flush" /\ PoolOpen /\ faults < MaxFaults
  /\ faults' = faults + 1 /\ unknown' = unknown + 1
  /\ Copy(w) /\ Retry(w)
  /\ UNCHANGED <<channel, dropped, lost, shutdown, pvars>>

-----------------------------------------------------------------------------
(* Shutdown.                                                                *)

Signal ==
  /\ process = "up" /\ stage = 0
  /\ stage' = 1
  /\ UNCHANGED <<channel, wvars, table, noted, running, expired, flushed,
                 process, pvars, faults>>

Deadline ==
  /\ process = "up" /\ stage \in 1..Len(Cleanup) /\ ~expired
  /\ expired' = TRUE
  /\ UNCHANGED <<channel, wvars, table, noted, running, stage, flushed,
                 process, pvars, faults>>

During(step) == stage \in 1..Len(Cleanup) /\ Cleanup[stage] = step

(* Shutdown starts no further function once the deadline has passed. *)
Starts(step) ==
  process = "up" /\ ~expired /\ During(step)

(* srv.Shutdown, StopAll and Worker.Stop: no more events from there. *)
StopSource(source) ==
  /\ Starts(source)
  /\ running' = running \ {source}
  /\ stage' = stage + 1
  /\ UNCHANGED <<channel, wvars, table, noted, expired, flushed, process,
                 pvars, faults>>

(* Retention daemon: no new purge, and a running one is not interrupted. *)
StopDaemon ==
  /\ Starts("retention")
  /\ stage' = stage + 1
  /\ UNCHANGED <<channel, wvars, table, noted, running, expired, flushed,
                 process, pvars, faults>>

(* BatchWriter.Close closes the channel ... *)
CloseChannel ==
  /\ Starts("core") /\ ~closed
  /\ closed' = TRUE
  /\ UNCHANGED <<next, ch, wvars, table, noted, shutdown, pvars, faults>>

\* Mutant of CloseReturns: Close does not wait for the workers.
CloseReturnsAtOnce ==
  /\ process = "up" /\ closed /\ During("core")
  /\ flushed' = TRUE
  /\ stage' = stage + 1
  /\ UNCHANGED <<channel, wvars, table, noted, running, expired, process,
                 pvars, faults>>

(* ... and waits for the workers, ten seconds at most. *)
CloseReturns ==
  /\ process = "up" /\ closed /\ During("core")
  /\ flushed' = (\A w \in Workers : wpc[w] = "gone")
  /\ stage' = stage + 1
  /\ UNCHANGED <<channel, wvars, table, noted, running, expired, process,
                 pvars, faults>>

ClosePool ==
  /\ Starts("pool")
  /\ stage' = stage + 1
  /\ UNCHANGED <<channel, wvars, table, noted, running, expired, flushed,
                 process, pvars, faults>>

(* The last function has returned, or the deadline has passed. *)
Exit ==
  /\ process = "up"
  /\ \/ stage > Len(Cleanup)
     \/ expired /\ ~(closed /\ During("core"))
  /\ Die("exited")
  /\ UNCHANGED <<next, closed, wpc, tries, table, dropped, fallback, running, stage, expired,
                 flushed, pvars, faults>>

-----------------------------------------------------------------------------
(* Retention: Daemon.runPurge and Purger.PurgeWorkspace.                    *)

DaemonUp == \A i \in 1..Len(Cleanup) : Cleanup[i] = "retention" => stage <= i

(* Rows past the retention period that are not anonymised yet. *)
Due == {r \in rows : r[1] <= cutoff /\ r \notin purged}

(* What GetExpiredMessages may return: the oldest due rows, up to the limit. *)
Oldest ==
  {S \in SUBSET Due :
     /\ Cardinality(S) = IF Cardinality(Due) < PurgeBatch THEN Cardinality(Due)
                                                          ELSE PurgeBatch
     /\ \A r \in S, q \in Due \ S : r[1] <= q[1]}

StartPurge ==
  /\ process = "up" /\ DaemonUp /\ ppc = "idle"
  /\ cutoff' \in cutoff..(next - 1)
  /\ ppc' = "query"
  /\ UNCHANGED <<channel, wvars, table, noted, shutdown, todo, full, purged,
                 faults>>

Query ==
  /\ process = "up" /\ ppc = "query"
  /\ \/ /\ PoolOpen /\ Due # {}
        /\ todo' \in Oldest
        /\ full' = (Cardinality(todo') >= PurgeBatch)
        /\ ppc' = "batch"
     \/ /\ ~PoolOpen \/ Due = {}
        /\ ppc' = "idle"
        /\ UNCHANGED <<todo, full>>
  /\ UNCHANGED <<channel, wvars, table, noted, shutdown, cutoff, purged, faults>>

(* A statement fails: the list of retention policies or the SELECT.  The
   purge ends, until the next tick.                                         *)
QueryFails ==
  /\ process = "up" /\ ppc = "query" /\ faults < MaxFaults
  /\ faults' = faults + 1
  /\ ppc' = "idle"
  /\ UNCHANGED <<channel, wvars, table, noted, shutdown, cutoff, todo, full, purged>>

\* Mutant of PurgeOne: an entry that cannot be read ends the batch.
PurgeOneAborts ==
  /\ process = "up" /\ ppc = "batch"
  /\ \E r \in todo :
       /\ todo' = IF r[1] \in Malformed THEN {} ELSE todo \ {r}
       /\ purged' = IF r[1] \in Malformed \/ ~PoolOpen THEN purged ELSE purged \cup {r}
  /\ UNCHANGED <<channel, wvars, table, noted, shutdown, cutoff, ppc, full, faults>>

(* One entry: anonymised, or passed over because it cannot be read. *)
PurgeOne ==
  /\ process = "up" /\ ppc = "batch"
  /\ \E r \in todo :
       /\ todo' = todo \ {r}
       /\ purged' = IF r[1] \in Malformed \/ ~PoolOpen THEN purged ELSE purged \cup {r}
  /\ UNCHANGED <<channel, wvars, table, noted, shutdown, cutoff, ppc, full, faults>>

(* AnonymizeAuditLog fails: counted, the next entry follows. *)
PurgeFails ==
  /\ process = "up" /\ ppc = "batch" /\ faults < MaxFaults
  /\ faults' = faults + 1
  /\ \E r \in todo : todo' = todo \ {r}
  /\ UNCHANGED <<channel, wvars, table, noted, shutdown, cutoff, ppc, full, purged>>

(* A full batch may have left some: query again. *)
EndBatch ==
  /\ process = "up" /\ ppc = "batch" /\ todo = {}
  /\ ppc' = IF full THEN "query" ELSE "idle"
  /\ full' = FALSE
  /\ UNCHANGED <<channel, wvars, table, noted, shutdown, cutoff, todo, purged,
                 faults>>

-----------------------------------------------------------------------------
WorkerStep(w) == \/ Receive(w) \/ Tick(w) \/ Drained(w)
                 \/ FlushOk(w) \/ FlushFails(w) \/ FlushUnknown(w)

PurgeStep == Query \/ QueryFails \/ PurgeOne \/ PurgeFails \/ EndBatch

ShutdownStep ==
  \/ \E source \in Sources : StopSource(source)
  \/ StopDaemon \/ CloseChannel \/ CloseReturns \/ ClosePool \/ Exit

Next ==
  \/ \E source \in Sources : Write(source)
  \/ \E w \in Workers : WorkerStep(w)
  \/ Signal \/ Deadline \/ ShutdownStep
  \/ StartPurge \/ PurgeStep

Spec == Init /\ [][Next]_vars

(* The workers of the writer and a running purge go on, and the daemon's
   ticker fires; nothing is owed by the callers and the operator.           *)
Fairness ==
  /\ \A w \in Workers : WF_vars(WorkerStep(w))
  /\ WF_vars(PurgeStep) /\ WF_vars(StartPurge)

FairSpec == Spec /\ Fairness

-----------------------------------------------------------------------------
Written == {r[1] : r \in rows}
Settled == Written \cup dropped \cup fallback

ChannelType ==
  next \in 1..(NumEvents + 1) /\ ch \subseteq Events /\ closed \in BOOLEAN

WorkerType ==
  /\ wpc \in [Workers -> {"wait", "flush", "gone"}]
  /\ batch \in [Workers -> SUBSET Events] /\ tries \in [Workers -> 0..(MaxTries - 1)]

TableType ==
  /\ copies \in Nat /\ unknown \in Nat /\ rows \subseteq Events \X (1..copies)
  /\ dropped \subseteq Events /\ fallback \subseteq Events /\ lost \subseteq Events

ShutdownType ==
  /\ running \subseteq Sources /\ stage \in 0..(Len(Cleanup) + 1)
  /\ expired \in BOOLEAN /\ flushed \in BOOLEAN
  /\ process \in {"up", "exited", "panic"}

PurgerType ==
  /\ cutoff \in 0..NumEvents /\ ppc \in {"idle", "query", "batch"}
  /\ todo \subseteq rows /\ full \in BOOLEAN /\ purged \subseteq rows
  /\ faults \in 0..MaxFaults

(* Every variable holds a value of its kind; the retries of a batch stay
   below their limit, and the purger only ever holds rows of the table.     *)
TypeOK == ChannelType /\ WorkerType /\ TableType /\ ShutdownType /\ PurgerType

(* As long as the process is up, every event given to Write is in the
   channel, in the batch of exactly one worker, in the table, or counted as
   dropped or fallen back, and an event still in the channel is nowhere else:
   no retry, fallback or handover between workers forgets one.  The end of
   the process adds only what the channel and the batches held, and the
   event whose Write panicked.                                              *)
Accounted ==
  /\ 1..(next - 1) = ch \cup InBatch \cup Settled \cup lost
  /\ process = "up" => lost = {}
  /\ ch \cap (InBatch \cup Settled) = {}
  /\ \A v, w \in Workers : v # w => batch[v] \cap batch[w] = {}
  /\ InBatch \cap (dropped \cup fallback) = {}

(* A Close that returned without a timeout left nothing behind, so that the
   end of the process takes no event with it unless a Write panicked: a
   shutdown loses events only if its deadline passed before Close, or Close
   timed out.                                                               *)
CloseFlushes ==
  flushed => ch = {} /\ InBatch = {} /\ (process # "panic" => lost = {})

(* Only a COPY whose answer was lost gives an event a second row. *)
OneRowPerEvent ==
  \A e \in Events : Cardinality({r \in rows : r[1] = e}) <= 1 + unknown

(* Whatever was accepted is written or falls back while the process lives. *)
Settles ==
  \A e \in Events : e \in ch \cup InBatch ~> e \notin ch \cup InBatch \/ process # "up"

(* Rows past the retention period are anonymised, in spite of entries that
   cannot be, of failed statements, and of rows that arrive meanwhile, as
   long as fewer than PurgeBatch due rows cannot be read.                   *)
PurgeReaches ==
  \A e \in Events \ Malformed :
    (\E r \in Due : r[1] = e) ~> (\A r \in Due : r[1] # e) \/ stage # 0 \/ process # "up"

(* "Register cleanup in reverse order of startup": what still runs finds the
   parts it uses open, so no event is sent on the closed channel.           *)
NoSendOnClosed == process # "panic"
=============================================================================
