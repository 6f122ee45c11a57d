\* One subscription, a process that may restart and two administrative calls:
\* retries, archiving, replays and deletions.
CONSTANTS
  Procs = {p1}
  Events = {e1}
  Subs = {s1}
  Nobody = none
  MaxEventDeliver = 1
  MaxDeliver = 2
  MaxTasks = 2
  MaxAdmin = 2
  MaxCrash = 1
SPECIFICATION FairSpec
INVARIANTS TypeOK NeverVanishes
PROPERTIES AllSettle
CHECK_DEADLOCK FALSE
