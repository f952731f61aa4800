CONSTANTS
  Tasks = {t1, t2}
  Cpus = {c1}
  Initial = 1
  MaxNodes = 2
  Other = other
SPECIFICATION Spec
INVARIANT PoppedCanRun
