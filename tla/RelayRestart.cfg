SPECIFICATION Spec
CONSTANTS
  n1 = n1
  c1 = c1
  c2 = c2
  None = None
  Nodes = {n1}
  Cids = {c1, c2}
  Conns = {1, 2}
  ConnNode <- OneNode
  Protocols = {"SSH"}
  MaxSid = 1
  MaxOpen = 1
  MaxRequests = 1
  NodeCap = 1
  OutCap = 2
  StatsAvailable = FALSE
  MaxOut = 0
  MaxFaults <- Calm
  MaxStrikes = 3
  MaxRestarts = 1
SYMMETRY ClientSymmetry
INVARIANTS
  InputIsolation
CHECK_DEADLOCK FALSE
