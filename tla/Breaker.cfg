\* Three concurrent callers, two failures to open; HTTP calls end.
CONSTANTS
  Callers = {c1, c2, c3}
  MaxFailures = 2
  ResetTimeout = 3
  CallTimeout = 2
  MaxTime = 12
SPECIFICATION FairSpec
INVARIANTS TypeOK OneProbe ClosedBelowThreshold
PROPERTIES FailsFast ProbeResolves
CHECK_DEADLOCK FALSE
