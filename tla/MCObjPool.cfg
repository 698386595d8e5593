SPECIFICATION FairPoolSpec
CONSTANTS
  t1 = t1
  t2 = t2
  t3 = t3
  o1 = o1
  o2 = o2
  o3 = o3
  o4 = o4
  o5 = o5
  Threads <- MCThreads
  Getters <- MCOne
  Objects <- MCObjects
  None = None
  Slots = 4
  Wrap = 16
  Start = 14
  Pooled <- MCPooled
  Owned <- MCOwned
  MaxCalls = 5
INVARIANTS
  RingInOrder
  OneOwnerEach
  NothingLost
PROPERTIES
  DestroysOnlyWhenFull
  EveryCallReturns
CHECK_DEADLOCK FALSE
