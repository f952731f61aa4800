SPECIFICATION FramesFairSpec
CONSTANTS
  Width = 3
  NPages = 9
  KernelPages = 3
  Requests = {0, 1, 2, 3, 4}
  Reservable <- TableAndRegisters
INVARIANTS FramesTypeOK NoPageTwice FirstFit BestFit
PROPERTIES ImplementsAllocator CallReturns
