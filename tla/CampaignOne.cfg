SPECIFICATION FairSpec
CONSTANTS
  Callers = {c1}
  Workers = {w1}
  Recipients = {1, 2}
  Upload <- SecondOnly
  Audiences = {{1, 2}, {}}
  BatchSize = 1
  MaxDeliver = 2
  Slow = FALSE
  MaxMsgs = 7
  MaxOps = 3
  MaxFaults = 0
  MaxEnds = 1
INVARIANTS TypeOK NobodyStranded
 
CHECK_DEADLOCK FALSE
