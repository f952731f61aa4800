SPECIFICATION Spec
CONSTANTS
  CPUs = {c1, c2}
  MaxDepth = 1
SYMMETRY Symmetry
INVARIANTS InterruptsRestored
