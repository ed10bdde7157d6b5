SPECIFICATION Spec
CONSTANTS
  n1 = n1
  c1 = c1
  c2 = c2
  None = None
  Nodes = {n1}
  Cids = {c1}
  Conns = {1}
  ConnNode <- OneNode
  Protocols = {"SFTP"}
  MaxSid = 2
  MaxOpen = 2
  MaxRequests = 1
  NodeCap = 2
  OutCap = 3
  StatsAvailable = FALSE
  MaxOut = 1
  MaxFaults <- OneBreak
  MaxStrikes = 3
  MaxRestarts = 0
INVARIANTS
  CleanupComplete
PROPERTIES
  ImplementsService
CHECK_DEADLOCK FALSE
