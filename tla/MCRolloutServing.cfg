SPECIFICATION Spec
CONSTANTS
  Requests = {r1, r2}
  Standalone = {p1, p2}
  Hybrid = {h1}
  ResponseLength = 2
  Headroom = 1
  Limited = FALSE
  PartialRollout = TRUE
  MaxVersion = 1
  CacheSize = 1
  Flaky = {}
  NoServer = NoServer
SYMMETRY ServingSymmetry
INVARIANTS
  TypeOK
  LengthBound
  PoolIsAwake
PROPERTIES
  UsesBalancer
CHECK_DEADLOCK FALSE
