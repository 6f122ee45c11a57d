\* Two attempts on two connections and two numbers; one deletion.
CONSTANTS
  Sessions = {s1, s2}
  Conns = {c1, c2}
  Phones = {p1, p2}
  None = none
  MaxAdmin = 1
SPECIFICATION FairSpec
INVARIANTS TypeOK LoopIsReachable
PROPERTIES CancelledLeavesNothing Forgotten
CHECK_DEADLOCK FALSE
