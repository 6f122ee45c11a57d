SPECIFICATION Spec
CONSTANTS
  Callers = {c1}
  Workers = {w1, w2}
  Recipients = {1, 2}
  Upload <- SecondOnly
  Audiences = {{1, 2}}
  BatchSize = 2
  MaxDeliver = 2
  Slow = TRUE
  MaxMsgs = 2
  MaxOps = 2
  MaxFaults = 1
  MaxEnds = 1
INVARIANTS HaltsPromptly SentWasIngested
CHECK_DEADLOCK FALSE
SYMMETRY Symmetry
