SPECIFICATION Spec
CONSTANTS
  r1 = r1
  r2 = r2
  r3 = r3
  p1 = p1
  p2 = p2
  h1 = h1
  NoServer = NoServer
  CacheSize = 2
  Requests <- MCRequests
  Servers <- MCServers
  Permanent <- MCPermanent
SYMMETRY RequestSymmetry
INVARIANTS TypeOK PermanentExact NeverOverstated
PROPERTIES RoutingSound
