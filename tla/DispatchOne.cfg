\* One server process, restarted at most once; three channels, the last without a dispatcher; status events followed.
CONSTANTS
  Workers = {w1}
  Traces = {t1}
  NoTrace = none
  NumChannels = 3
  Registered = {0, 1}
  Receipted = {0}
  Receivers = {h1}
  Private = {}
  Expiring = {}
  MaxDeliver = 3
  QueueLimit = 2
  WatchEvents = TRUE
  MaxCrash = 1
SPECIFICATION Spec
INVARIANTS TypeOK OncePerLifetime NoChannelBypassed SentWasAccepted
PROPERTIES SentIsFinal NeverGoesBack ImplementsOutcome
CHECK_DEADLOCK FALSE
