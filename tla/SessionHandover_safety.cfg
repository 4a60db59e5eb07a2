CONSTANTS
  conn = conn
  push = push
  Conn = conn
  Senders <- MCSenders
  MaxSeq = 3
  MaxQueueSize = 4
  MaxRetries = 1
  Faults <- NoFaults
SPECIFICATION HandoverSpec
VIEW HandoverView
INVARIANTS UnackedSurvive BoundedAcross FreshAfterAcked
CHECK_DEADLOCK FALSE
