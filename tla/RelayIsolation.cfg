SPECIFICATION Spec
CONSTANTS
  n1 = n1
  c1 = c1
  c2 = c2
  None = None
  Nodes = {n1}
  Cids = {c1, c2}
  Conns = {1}
  ConnNode <- OneNode
  Protocols = {"SSH"}
  MaxSid = 2
  MaxOpen = 1
  MaxRequests = 1
  NodeCap = 2
  OutCap = 2
  StatsAvailable = FALSE
  MaxOut = 1
  MaxFaults <- Calm
  MaxStrikes = 3
  MaxRestarts = 0
SYMMETRY ClientSymmetry
INVARIANTS
  TypeOK
  OutputIsolation
  OpenedBeforeData
PROPERTIES
  TunnelKept
CHECK_DEADLOCK FALSE
