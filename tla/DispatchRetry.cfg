\* One process that never restarts.
CONSTANTS
  Workers = {w1}
  Traces = {t1}
  NoTrace = none
  NumChannels = 2
  Registered = {0, 1}
  Receipted = {}
  Receivers = {}
  Private = {}
  Expiring = {}
  MaxDeliver = 3
  QueueLimit = 2
  WatchEvents = FALSE
  MaxCrash = 0
SPECIFICATION Spec
PROPERTIES TransientIsRetried
CHECK_DEADLOCK FALSE
