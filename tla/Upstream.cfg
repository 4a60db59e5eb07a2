CONSTANTS
  s1 = s1
  s2 = s2
  u1 = u1
  v1 = v1
  NoSession = NoSession
  Sessions <- OldAndNew
  Users = {u1}
  UserOf <- OneUser
  Servers = {v1}
  Services <- AllServices
  ServerOf <- AtOneServer
  Asked <- Most
  MaxSeq = 2
  MaxCalls = 3
  MaxRestarts = 1
SPECIFICATION Spec
INVARIANTS OneConnection CallsCounted   
CHECK_DEADLOCK FALSE
