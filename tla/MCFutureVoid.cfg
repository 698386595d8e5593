SPECIFICATION Spec
CONSTANTS
  p1 = p1
  p2 = p2
  f1 = f1
  f2 = f2
  f3 = f3
  k1 = k1
  k2 = k2
  c1 = c1
  c2 = c2
  c3 = c3
  c4 = c4
  Promises <- MCPromises
  Futures <- MCFutures
  Conts <- MCConts
  Channels <- MCChannels
  None = None
  Valueless = TRUE
SYMMETRY Symmetry
INVARIANTS
  RelatedFutureIsReady
CHECK_DEADLOCK FALSE
