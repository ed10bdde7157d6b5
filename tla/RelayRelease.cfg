SPECIFICATION FairSpec
CONSTANTS
  n1 = n1
  c1 = c1
  c2 = c2
  None = None
  Nodes = {n1}
  Cids = {c1}
  Conns = {1, 2}
  ConnNode <- OneNode
  Protocols = {"SSH"}
  MaxSid = 1
  MaxOpen = 1
  MaxRequests = 0
  NodeCap = 1
  OutCap = 1
  StatsAvailable = TRUE
  MaxOut = 0
  MaxFaults <- OneOfEach
  MaxStrikes = 1
  MaxRestarts = 0
INVARIANTS
  HandleHeld
PROPERTIES
  SessionsReleased
  UnregisteredIsNoticed
CHECK_DEADLOCK FALSE
