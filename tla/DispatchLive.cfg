\* Two messages through one process; one has a TTL, and the queue limit is reached.
CONSTANTS
  Workers = {w1}
  Traces = {t1, t2}
  NoTrace = none
  NumChannels = 1
  Registered = {0}
  Receipted = {}
  Receivers = {}
  Private = {t2}
  Expiring = {t1}
  MaxDeliver = 2
  QueueLimit = 1
  WatchEvents = FALSE
  MaxCrash = 1
SPECIFICATION FairSpec
PROPERTIES PublishedSettles
CHECK_DEADLOCK FALSE
