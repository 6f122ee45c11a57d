\* Two events, one of which the purger cannot read; a channel of one place.
CONSTANTS
  NumEvents = 2
  Malformed = {1}
  Workers = {w1, w2}
  BufSize = 1
  BatchSize = 2
  MaxTries = 2
  PurgeBatch = 3
  MaxFaults = 1
SPECIFICATION FairSpec
INVARIANTS TypeOK Accounted CloseFlushes OneRowPerEvent
PROPERTIES Settles PurgeReaches
CHECK_DEADLOCK FALSE
