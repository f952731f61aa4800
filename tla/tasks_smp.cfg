SPECIFICATION Spec
CONSTANTS
  u1 = u1
  u2 = u2
  NCPU = 2
  Users = {u1}
  Started <- OneStarted
  Detached = {}
  MaxTasks = 3
  Prios = {2}
  MaxLag = 0
  MaxDepth = 4
INVARIANTS CounterBound SomethingReady
PROPERTIES BootstrapLeft
CONSTRAINTS Undamaged HandlersMasked
CHECK_DEADLOCK FALSE
