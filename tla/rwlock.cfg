SPECIFICATION FairSpec
CONSTANTS
  CPUs = {c1, c2}
  MaxDepth = 1
INVARIANTS TypeOK HolderUninterruptible
PROPERTIES ImplementsReadersWriters Progress
