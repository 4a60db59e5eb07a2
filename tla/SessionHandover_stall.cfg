CONSTANTS
  conn = conn
  push = push
  Conn = conn
  Senders <- MCSenders
  MaxSeq = 2
  MaxQueueSize = 4
  MaxRetries = 1
  Faults <- NoFaults
SPECIFICATION FairHandoverSpec
PROPERTY StartAnswered
CHECK_DEADLOCK FALSE
