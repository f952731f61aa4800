SPECIFICATION Spec
CONSTANTS
  Cpus = {0, 1, 2}
  Shell = 9
  Nobody = 8
  Hash <- MCHash
  Machines <- MCMachines
INVARIANT
  HandlerNeverWaits
