SPECIFICATION FairSpec
CONSTANTS
  PageSize = 12
  Entries = 2
  Regions = 4
  KernelRegions = 1
  KernelEnd = 5
  c1 = c1
  c2 = c2
  Callers = {c1, c2}
  Requests = {1, 6, 20}
  NPages = 6
  Major = 2
  Minor = 2
  Alignment = 2
  Info = 2
  PageCount = 2
  Devices <- Register
  Chunks <- OneChunk
  MaxBlocks = 3
CONSTRAINT Bounds
INVARIANTS ChainsIntact Accounted BlocksMapped MappingKept NullOnlyIfFull NoStaleMajor
PROPERTIES ImplementsHeapAllocator MallocReturns
