SPECIFICATION Spec
CONSTANTS
  Requests = {r1, r2}
  Standalone = {p1}
  Hybrid = {h1}
  ResponseLength = 2
  Headroom = 0
  Limited = TRUE
  PartialRollout = TRUE
  MaxVersion = 1
  CacheSize = 2
  Flaky = {}
  NoServer = NoServer
SYMMETRY ServingSymmetry
INVARIANTS
  SleepingServerIdle
CHECK_DEADLOCK FALSE
