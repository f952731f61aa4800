SPECIFICATION FairSpec
CONSTANTS
  u1 = u1
  u2 = u2
  NCPU = 1
  Users = {u1, u2}
  Started <- BothStarted
  Detached = {u1}
  MaxTasks = 3
  Prios = {2}
  MaxLag = 0
  MaxDepth = 4
INVARIANTS TypeOK SomethingReady NoDangling JoinedMapped
PROPERTIES ReadyRuns
CHECK_DEADLOCK FALSE
