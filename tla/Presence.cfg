SPECIFICATION FairPresenceSpec
CONSTANTS
  east = east
  west = west
  first = first
  second = second
  browser = browser
  Nil = Nil
  Servers <- MCServers
  Sockets <- MCSockets
  Clients <- MCClients
  MaxFaults = 1
INVARIANTS
  PresenceTypeOK
  ExpiryPending
  ClientForgotten
PROPERTIES
  RouteSettles
  OfflineForgotten
CHECK_DEADLOCK FALSE
