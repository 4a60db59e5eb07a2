CONSTANTS
  a = a
  b = b
  w1 = w1
  w2 = w2
  Sessions <- TwoSessions
  Workers <- TwoWorkers
  Notifies <- AroundSecond
  MaxRequests <- TwoAndOne
  Ending <- OnlyA
  QueueSize = 1
  MaxUpstream = 1
SPECIFICATION Spec
SYMMETRY AnyWorker
INVARIANTS OnePlace LoadIsCounted 
CHECK_DEADLOCK FALSE
