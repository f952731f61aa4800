CONSTANTS
  Tasks = {t1, t2, t3, t4}
  Cpus = {c1, c2}
  Initial = 1
  MaxNodes = 5
  Other = other
SPECIFICATION Spec
CONSTRAINT Undamaged
SYMMETRY TaskSymmetry
INVARIANTS TypeOK QueueIsFifo QueuedOnce NoUnitLost
