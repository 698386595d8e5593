SPECIFICATION FibersSpec
CONSTANTS
  p1 = p1
  p2 = p2
  p3 = p3
  t1 = t1
  t2 = t2
  Requests <- MCPeers
  Peers <- MCPeers
  MaxHandles = 2
  MaxForks = 3
  MaxCalls = 3
  MaxLinks = 3
  Threads <- MCThreads
  Main = Main
  None = None
  MaxBacklog = 1
  MaxTasks = 3
INVARIANTS
  ClosedByTheLast
  PeersAnsweredByTheOriginal
  
  
  
  

  
CHECK_DEADLOCK FALSE
