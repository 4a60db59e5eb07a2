CONSTANTS
  s1 = s1
  s2 = s2
  h1 = h1
  h2 = h2
  o1 = o1
  k1 = k1
  k2 = k2
  FullSync = FullSync
  Sessions <- OneSession
  Hooks <- TwoHooks
  Operators <- OneOperator
  BatchSize = 1
  BufferSize = 1
  Rejected <- NoState
  Conns <- OneConn
  WireCapacity = 1
  MaxVersion = 1
  MaxServices = 2
  MaxFaults = 0
SPECIFICATION Spec
PROPERTY PipeKeepsOrder
CHECK_DEADLOCK FALSE
