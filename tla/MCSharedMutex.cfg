SPECIFICATION FairSpec
CONSTANTS
  f1 = f1
  f2 = f2
  f3 = f3
  f4 = f4
  Fibers <- MCFibers
INVARIANTS
  MutualExclusion
  HoldersCounted
  QueueConsistent
  FrontIsBlocked
PROPERTIES
  NoOvertaking
  EventuallyGranted
  ImplementsSharedLock
