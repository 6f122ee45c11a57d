\* The shutdown while the message worker and the sessions still run.
CONSTANTS
  NumEvents = 1
  Malformed = {}
  Workers = {w1}
  BufSize = 1
  BatchSize = 1
  MaxTries = 1
  PurgeBatch = 1
  MaxFaults = 0
SPECIFICATION Spec
INVARIANTS NoSendOnClosed
CHECK_DEADLOCK FALSE
