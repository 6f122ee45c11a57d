---------------------------- MODULE BreakerProofs ---------------------------
(***************************************************************************)
(* Proofs about Breaker, for any number of callers, any threshold and any  *)
(* pair of timeouts with CallTimeout < ResetTimeout.                       *)
(***************************************************************************)
EXTENDS Breaker, TLAPS

\* A call under way is younger than the client's timeout.
CallsEnd == \A c \in calling : since[c] <= now /\ now <= since[c] + CallTimeout

\* An open circuit outlasts every call admitted before it opened, which is
\* what leaves the probe alone; its deadline counts from the last failure,
\* because its count is at the threshold and so every late failure moves it.
OpenOutlasts ==
  state = "open" => /\ failures >= MaxFailures
                    /\ \A c \in calling : since[c] + ResetTimeout <= openUntil
                    /\ openUntil = lastFailure + ResetTimeout

IInv == TypeOK /\ CallsEnd /\ OpenOutlasts /\ OneProbe /\ ClosedBelowThreshold

LEMMA InitInv == Init => IInv
  BY BreakerAssumption
  DEF Init, IInv, TypeOK, CallsEnd, OpenOutlasts, OneProbe, ClosedBelowThreshold, ZeroTime

\* The probe is admitted when no other call is under way.
LEMMA ProbeAlone ==
  ASSUME IInv, state = "open", now >= openUntil
  PROVE  calling = {}
<1>1. SUFFICES ASSUME NEW c \in calling PROVE FALSE
  OBVIOUS
<1>2. /\ since[c] \in Nat /\ now \in Nat /\ openUntil \in Nat
      /\ now <= since[c] + CallTimeout /\ since[c] + ResetTimeout <= openUntil
  BY DEF IInv, TypeOK, CallsEnd, OpenOutlasts
<1> QED BY <1>2, BreakerAssumption

LEMMA AllowInv == ASSUME IInv, NEW c \in Callers, Allow(c) PROVE IInv'
<1>1. TypeOK'
  BY DEF IInv, TypeOK, Allow
<1>2. CallsEnd'
  BY BreakerAssumption DEF IInv, TypeOK, CallsEnd, Allow
<1>3. CASE state = "closed"
  <2>1. state' = "closed" /\ failures' = failures
    BY <1>3 DEF Allow
  <2> QED BY <1>1, <1>2, <1>3, <2>1 DEF IInv, OpenOutlasts, OneProbe, ClosedBelowThreshold
<1>4. CASE state = "open" /\ now >= openUntil
  <2>1. state' = "halfOpen" /\ calling' = {c}
    BY <1>4, ProbeAlone DEF Allow
  <2> QED BY <1>1, <1>2, <2>1 DEF IInv, OpenOutlasts, OneProbe, ClosedBelowThreshold
<1> QED BY <1>3, <1>4 DEF Allow, Admits

LEMMA SuccessInv == ASSUME IInv, NEW c \in Callers, RecordSuccess(c) PROVE IInv'
<1>1. TypeOK' /\ state' = "closed" /\ failures' = 0
  BY DEF IInv, TypeOK, RecordSuccess, ZeroTime
<1>2. CallsEnd'
  BY DEF IInv, CallsEnd, RecordSuccess
<1> QED BY <1>1, <1>2, BreakerAssumption DEF IInv, OpenOutlasts, OneProbe, ClosedBelowThreshold

LEMMA FailureInv == ASSUME IInv, NEW c \in Callers, RecordFailure(c) PROVE IInv'
<1>1. TypeOK'
  BY BreakerAssumption DEF IInv, TypeOK, RecordFailure, Count, Trip
<1>2. CallsEnd'
  BY DEF IInv, CallsEnd, RecordFailure
<1>3. CASE Trip
  <2>1. state' = "open" /\ openUntil' = now + ResetTimeout /\ lastFailure' = now
    BY <1>3 DEF Trip, RecordFailure
  <2>2. \A d \in calling' : since'[d] + ResetTimeout <= openUntil'
    BY <2>1, BreakerAssumption DEF IInv, TypeOK, CallsEnd, RecordFailure
  <2>3. failures' >= MaxFailures
    BY <2>1, BreakerAssumption DEF IInv, TypeOK, OpenOutlasts, RecordFailure, Count
  <2>4. OpenOutlasts'
    BY <2>1, <2>2, <2>3 DEF OpenOutlasts, RecordFailure
  <2> QED BY <1>1, <1>2, <2>1, <2>4 DEF IInv, OneProbe, ClosedBelowThreshold
<1>4. CASE /\ state # "halfOpen" /\ failures' = failures + 1 /\ ~ (failures' >= MaxFailures)
           /\ UNCHANGED <<state, openUntil>>
  <2>1. CASE state = "closed"
    BY <1>1, <1>2, <1>4, <2>1, BreakerAssumption
       DEF IInv, TypeOK, OpenOutlasts, OneProbe, ClosedBelowThreshold
  <2>2. state # "open"
    BY <1>4, BreakerAssumption DEF IInv, TypeOK, OpenOutlasts
  <2> QED BY <1>4, <2>1, <2>2 DEF IInv, TypeOK
<1> QED BY <1>3, <1>4 DEF RecordFailure, Count

LEMMA NextInv == IInv /\ [Next]_vars => IInv'
<1> SUFFICES ASSUME IInv, [Next]_vars PROVE IInv'
  OBVIOUS
<1>1. CASE Tick
  <2>1. TypeOK' /\ CallsEnd'
    BY <1>1, BreakerAssumption DEF IInv, TypeOK, CallsEnd, Tick
  <2> QED BY <1>1, <2>1 DEF IInv, OpenOutlasts, OneProbe, ClosedBelowThreshold, Tick
<1>2. CASE UNCHANGED vars
  BY <1>2 DEF vars, IInv, TypeOK, CallsEnd, OpenOutlasts, OneProbe, ClosedBelowThreshold
<1> QED BY <1>1, <1>2, AllowInv, SuccessInv, FailureInv DEF Next

LEMMA InvHolds == Spec => []IInv
  BY InitInv, NextInv, PTL DEF Spec

\* Whatever the callers and timeouts, a half-open circuit has exactly one
\* call on its way (breaker.go Allow).
THEOREM OneProbeCorrect == Spec => []OneProbe
<1>1. IInv => OneProbe
  BY DEF IInv
<1> QED BY <1>1, InvHolds, PTL

\* Every variable keeps its kind, openUntil and the counters included.
THEOREM TypeCorrect == Spec => []TypeOK
<1>1. IInv => TypeOK
  BY DEF IInv
<1> QED BY <1>1, InvHolds, PTL

\* A closed circuit is below its threshold (breaker.go RecordFailure,
\* RecordSuccess).
THEOREM ThresholdCorrect == Spec => []ClosedBelowThreshold
<1>1. IInv => ClosedBelowThreshold
  BY DEF IInv
<1> QED BY <1>1, InvHolds, PTL

\* Outside "closed" no call starts within resetTimeout of the last recorded
\* failure (breaker.go Allow): the property TLC checks on three callers.
THEOREM FailsFastCorrect == Spec => FailsFast
<1>1. ASSUME IInv, [Next]_vars
      PROVE  [\A c \in calling' \ calling :
                state = "closed" \/ now >= lastFailure + ResetTimeout]_vars
  <2>1. CASE UNCHANGED vars
    BY <2>1
  <2>2. ASSUME NEW c \in Callers, Allow(c)
        PROVE  state = "closed" \/ now >= lastFailure + ResetTimeout
    BY <1>1, <2>2 DEF IInv, OpenOutlasts, Allow, Admits
  <2>3. ASSUME NEW c \in Callers, RecordSuccess(c) \/ RecordFailure(c)
        PROVE  calling' \ calling = {}
    BY <2>3 DEF RecordSuccess, RecordFailure
  <2>4. CASE Tick
    BY <2>4 DEF Tick
  <2>5. ASSUME NEW d \in Callers, Allow(d) \/ RecordSuccess(d) \/ RecordFailure(d)
        PROVE  \A c \in calling' \ calling :
                 state = "closed" \/ now >= lastFailure + ResetTimeout
    BY <2>2, <2>3, <2>5
  <2> QED BY <1>1, <2>1, <2>4, <2>5 DEF Next
<1> QED BY <1>1, InvHolds, PTL DEF Spec, FailsFast
=============================================================================
