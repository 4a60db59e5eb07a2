CONSTANTS
  a = a
  b = b
  w1 = w1
  w2 = w2
  Sessions <- OnlyA
  Workers <- TwoWorkers
  Notifies <- NoNotifies
  MaxRequests <- Three
  Ending <- OnlyA
  QueueSize = 1
  MaxUpstream = 1
SPECIFICATION FairSpec
PROPERTIES EveryRequestAnswered StopReturns
CHECK_DEADLOCK FALSE
