CONSTANTS
  Main = Main
  Standby = Standby
  o1 = o1
  Operators <- OneOperator
SPECIFICATION FairSpec
INVARIANTS ModesAgree ServicesMatch
PROPERTIES Takeover 
CHECK_DEADLOCK FALSE
