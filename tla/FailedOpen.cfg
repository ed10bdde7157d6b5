SPECIFICATION FairSpec
CONSTANTS
  n1 = n1
  c1 = c1
  c2 = c2
  None = None
  Nodes = {n1}
  Cids = {c1}
  Conns = {1}
  ConnNode <- OneNode
  Protocols = {"SSH"}
  MaxSid = 1
  MaxOpen = 1
  MaxRequests = 0
  NodeCap = 2
  OutCap = 3
  StatsAvailable = FALSE
  MaxOut = 0
  MaxFaults <- Calm
  MaxStrikes = 3
  MaxRestarts = 0
PROPERTIES
  OpenAnswered
CHECK_DEADLOCK FALSE
