\* Fan-out to two subscriptions, one of which an administrator may change.
CONSTANTS
  Procs = {p1}
  Events = {e1}
  Subs = {s1, s2}
  Nobody = none
  MaxEventDeliver = 2
  MaxDeliver = 1
  MaxTasks = 3
  MaxAdmin = 1
  MaxCrash = 1
SPECIFICATION Spec
INVARIANTS EveryActiveTold
CHECK_DEADLOCK FALSE
