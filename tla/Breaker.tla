------------------------------ MODULE Breaker -------------------------------
(***************************************************************************)
(* The per-endpoint circuit breaker of internal/platform/breaker, as the   *)
(* webhook dispatcher uses it: Allow, then one HTTP call, then exactly one *)
(* RecordSuccess or RecordFailure.  Two returns of Dispatch after Allow    *)
(* make no Record, and neither leaves a probe unanswered: a private        *)
(* payload is acked by the worker before it becomes a task                 *)
(* (webhook_worker.go:188), and a URL no request can be built for never    *)
(* had a failure recorded, so its breaker is closed.  Callers are          *)
(* concurrent: the delivery worker, the chat engine and the inbound        *)
(* processor (DispatchReaction).                                           *)
(*                                                                         *)
(* One endpoint is modelled; the breaker keeps no state across endpoints.  *)
(* Each method holds the mutex throughout, so it is one action.  Time is   *)
(* a clock that ticks; an HTTP call ends before its client timeout.        *)
(***************************************************************************)
EXTENDS Integers

CONSTANTS Callers,       \* goroutines that may call the endpoint
          MaxFailures,   \* maxFailures
          ResetTimeout,  \* resetTimeout, in ticks
          CallTimeout,   \* timeout of the HTTP client, in ticks
          MaxTime        \* bound of the model: ticks

ASSUME BreakerAssumption ==
  /\ MaxFailures \in Nat \ {0}
  /\ CallTimeout \in Nat
  /\ ResetTimeout \in Nat
  /\ CallTimeout < ResetTimeout
  /\ MaxTime \in Nat

VARIABLES
  state,        \* "closed" (also: no entry in the map), "open" or "halfOpen"
  failures,     \* consecutiveFailures
  openUntil,    \* openUntil
  now,          \* the clock
  calling,      \* callers between Allow and Record*
  since,        \* since[c]: when c's call was allowed
  lastFailure   \* when the last failure was recorded

vars == <<state, failures, openUntil, now, calling, since, lastFailure>>

\* The zero time.Time: earlier than anything the clock shows.
ZeroTime == 0

\* NewCircuitBreaker: no entry for the endpoint.
Init ==
  /\ state = "closed"
  /\ failures = 0
  /\ openUntil = ZeroTime
  /\ now = 1
  /\ calling = {}
  /\ since = [c \in Callers |-> 0]
  /\ lastFailure = ZeroTime

\* Mutant of Admits: callers pass while a probe is under way.
AdmitsInProbe == state = "closed" \/ now >= openUntil

\* Mutant of Admits: the probe leaves one tick early.
AdmitsEarly == state = "closed" \/ (state = "open" /\ now + 1 >= openUntil)

\* Allow returns nil; otherwise the caller gets ErrCircuitOpen and leaves.
Admits == state = "closed" \/ (state = "open" /\ now >= openUntil)

\* Allow, when it admits: the first caller after openUntil is the probe.
Allow(c) ==
  /\ c \notin calling
  /\ Admits
  /\ state' = IF state = "closed" THEN "closed" ELSE "halfOpen"
  /\ calling' = calling \cup {c}
  /\ since' = [since EXCEPT ![c] = now]
  /\ UNCHANGED <<failures, openUntil, now, lastFailure>>

\* Mutant of RecordSuccess: a caller returns without telling the breaker.
RecordSuccessForgotten(c) ==
  /\ c \in calling
  /\ calling' = calling \ {c}
  /\ UNCHANGED <<state, failures, openUntil, now, since, lastFailure>>

\* Mutant of RecordSuccess: the count decays by one instead of being reset.
RecordSuccessDecays(c) ==
  /\ c \in calling
  /\ calling' = calling \ {c}
  /\ state' = "closed"
  /\ failures' = failures - 1
  /\ openUntil' = ZeroTime
  /\ UNCHANGED <<now, since, lastFailure>>

RecordSuccess(c) ==
  /\ c \in calling
  /\ calling' = calling \ {c}
  /\ state' = "closed"
  /\ failures' = 0
  /\ openUntil' = ZeroTime
  /\ UNCHANGED <<now, since, lastFailure>>

\* The circuit opens, counting from now.
Trip ==
  /\ state' = "open"
  /\ openUntil' = now + ResetTimeout

\* Mutant of Count: opens one failure late.
CountLate ==
  /\ failures' = failures + 1
  /\ IF failures > MaxFailures THEN Trip ELSE UNCHANGED <<state, openUntil>>

\* A failure outside a probe.  In "open" it is the late failure of a call
\* admitted before the circuit opened, and extends openUntil.
Count ==
  /\ failures' = failures + 1
  /\ IF failures' >= MaxFailures THEN Trip ELSE UNCHANGED <<state, openUntil>>

RecordFailure(c) ==
  /\ c \in calling
  /\ calling' = calling \ {c}
  /\ lastFailure' = now
  /\ IF state = "halfOpen" THEN failures' = MaxFailures /\ Trip ELSE Count
  /\ UNCHANGED <<now, since>>

\* Time passes; the HTTP client cuts every call off at CallTimeout.
Tick ==
  /\ now < MaxTime
  /\ \A c \in calling : now < since[c] + CallTimeout
  /\ now' = now + 1
  /\ UNCHANGED <<state, failures, openUntil, calling, since, lastFailure>>

Next ==
  \/ Tick
  \/ \E c \in Callers : Allow(c) \/ RecordSuccess(c) \/ RecordFailure(c)

\* Every call ends: the HTTP client has a timeout.
Fairness == \A c \in Callers : WF_vars(RecordSuccess(c) \/ RecordFailure(c))

Spec == Init /\ [][Next]_vars
FairSpec == Spec /\ Fairness
-----------------------------------------------------------------------------
\* Every variable holds a value of its kind.
TypeOK ==
  /\ state \in {"closed", "open", "halfOpen"}
  /\ failures \in Nat
  /\ openUntil \in Nat
  /\ now \in Nat
  /\ calling \subseteq Callers
  /\ since \in [Callers -> Nat]
  /\ lastFailure \in Nat

\* While half-open, exactly one call is on its way to the endpoint: the probe.
\* Calls admitted before the circuit opened, however late they end, are over
\* by then (breaker.go Allow; docs/specs/v1.8-broadcaster-gateway.md:71).
OneProbe == state = "halfOpen" => \E c \in calling : calling = {c}

\* A closed circuit has counted fewer than maxFailures failures in a row:
\* no order of concurrent successes and failures leaves it closed above the
\* threshold (breaker.go RecordFailure).
ClosedBelowThreshold == state = "closed" => failures < MaxFailures

\* No call starts within resetTimeout of the last recorded failure unless
\* the circuit is closed, also when late failures come in while it is open
\* (breaker.go Allow, RecordFailure).
FailsFast ==
  [][\A c \in calling' \ calling :
        state = "closed" \/ now >= lastFailure + ResetTimeout]_vars

\* A probe is always answered: the circuit never stays half-open, where it
\* would refuse every caller for good.
ProbeResolves == state = "halfOpen" ~> state # "halfOpen"

\* "closed -> open (at threshold) -> half-open (after timeout) -> one probe
\* allowed -> success closes": an open circuit closes only through a probe
\* (.scratch/code-review-fixes/issues/01-fix-circuit-breaker-half-open-state.md:3).
ClosesThroughProbe == [][state = "open" => state' # "closed"]_vars
=============================================================================
