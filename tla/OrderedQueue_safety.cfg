CONSTANTS
  s1 = s1
  s2 = s2
  s3 = s3
  Senders <- MCSenders3
  MaxSeq = 4
  MaxQueueSize = 2
  MaxRetries = 1
  Faults <- AllFaults
SPECIFICATION Spec
SYMMETRY AnySender
INVARIANTS TypeOK SentWindow OneFate
PROPERTIES NoRewriteOfAcked OrderedDelivery
CHECK_DEADLOCK FALSE
