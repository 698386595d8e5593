SPECIFICATION RWSpec
CONSTANTS
  f1 = f1
  f2 = f2
  f3 = f3
  f4 = f4
  Fibers <- MCFibers
  Requests = {1, 5}
  InitCount = 5
  MinCount = 0
  MaxSupply = 5
  MaxEntries = 4
INVARIANTS
  RWFrontIsBlocked
PROPERTIES
  RWImplementsSharedLock
  RWEventuallyGranted
