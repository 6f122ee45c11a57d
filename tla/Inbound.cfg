\* Two replicas, two deliveries, two callbacks at a time, one human handoff, one fault.
CONSTANTS
  Procs = {p1, p2}
  Messages = {m1, m2}
  Handlers = {h1, h2}
  Callbacks = {c1, c2}
  Operators = {o1}
  None = none
  MaxDeliver = 2
  MaxChanges = 1
  MaxFaults = 1
SPECIFICATION FairSpec
INVARIANTS TypeOK OncePerMessage NeverForgotten NoColdTurn
PROPERTIES BufferDrains ImplementsTurns
CHECK_DEADLOCK FALSE
