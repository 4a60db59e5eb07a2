CONSTANTS
  s1 = s1
  s2 = s2
  h1 = h1
  h2 = h2
  o1 = o1
  k1 = k1
  k2 = k2
  FullSync = FullSync
  Sessions <- OneSession
  Hooks <- OneHook
  Operators <- None
  BatchSize = 2
  BufferSize = 1
  Rejected <- Rejected1
  Conns <- TwoConns
  WireCapacity = 1
  MaxVersion = 2
  MaxServices = 1
  MaxFaults = 2
SPECIFICATION FairSpec
 
PROPERTIES NothingLost   
CHECK_DEADLOCK FALSE
