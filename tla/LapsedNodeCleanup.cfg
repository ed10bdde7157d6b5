SPECIFICATION Spec
CONSTANTS
  n1 = n1
  c1 = c1
  c2 = c2
  None = None
  Nodes = {n1}
  Cids = {c1}
  Conns = {1}
  ConnNode <- OneNode
  Protocols = {"SSH"}
  MaxSid = 1
  MaxOpen = 1
  MaxRequests = 0
  NodeCap = 2
  OutCap = 3
  StatsAvailable = TRUE
  MaxOut = 0
  MaxFaults <- OneLapse
  MaxStrikes = 3
  MaxRestarts = 0
INVARIANTS
  CleanupComplete
CHECK_DEADLOCK FALSE
