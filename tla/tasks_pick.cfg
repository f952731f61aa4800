SPECIFICATION Spec
CONSTANTS
  u1 = u1
  u2 = u2
  NCPU = 2
  Users = {u1, u2}
  Started <- BothStarted
  Detached = {u1}
  MaxTasks = 4
  Prios = {2}
  MaxLag = 0
  MaxDepth = 4
INVARIANTS PickedOnce
CHECK_DEADLOCK FALSE
