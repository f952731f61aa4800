SPECIFICATION FairSpec
CONSTANTS
  Cpus = {0, 1, 2}
  Shell = 9
  Nobody = 8
  Hash <- MCHash
  Machines <- MCMachines
CONSTRAINT Apart
INVARIANTS
  MadtFound
  StartReported
  IrqsHandled
PROPERTIES
  BootEnds
  
