SPECIFICATION FairAuthSpec
CONSTANTS
  Nil = Nil
  alice = alice
  bob = bob
  l1 = l1
  l2 = l2
  c1 = c1
  c2 = c2
  c3 = c3
  c4 = c4
  Users <- MCUsers
  Logins <- MCLogins
  Ids <- MCIds
  Requests <- MCRequests
  Challenges <- MCChallenges
  MaxKeys = 2
  MaxFaults = 1
PROPERTIES
  AgentGetsIn
INVARIANTS
  AuthTypeOK
  LoginOwned
  OneTime
  RevokedStaysOut
CHECK_DEADLOCK FALSE
