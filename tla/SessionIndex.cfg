CONSTANTS
  c1 = c1
  c2 = c2
  u1 = u1
  u2 = u2
  Sessions <- TwoConnections
  Users <- TwoUsers
  NoSession = NoSession
  NoUser = NoUser
SPECIFICATION FairSpec
INVARIANTS IndexedIsOpen OpenIsIndexed ClosedOnce OneOfTheTwo
PROPERTY ExpiredIsRemoved
CHECK_DEADLOCK FALSE
