CONSTANTS
  s1 = s1
  s2 = s2
  s3 = s3
  Senders <- MCSenders3
  MaxSeq = 4
  MaxQueueSize = 4
  MaxRetries = 1
  Faults <- NoFaults
SPECIFICATION FairSpec
INVARIANT GapIsInFlight
PROPERTIES ParkedIsSent KeptIsSettled
CHECK_DEADLOCK FALSE
