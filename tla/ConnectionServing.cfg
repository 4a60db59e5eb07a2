CONSTANTS
  c1 = c1
  c2 = c2
  Conns <- TwoConns
  MaxConnections = 1
  Capacity = 1
  MaxMessages <- ThreeAndNone
SPECIFICATION FairSpec
INVARIANTS ConnectionsCounted ReadAheadInOrder
PROPERTIES StopReturns EveryMessageHandled
CHECK_DEADLOCK FALSE
