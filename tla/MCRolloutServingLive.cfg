SPECIFICATION FairSpec
CONSTANTS
  Requests = {r1}
  Standalone = {p1, p2}
  Hybrid = {}
  ResponseLength = 3
  Headroom = 0
  Limited = TRUE
  PartialRollout = TRUE
  MaxVersion = 3
  CacheSize = 1
  Flaky = {p1, p2}
  NoServer = NoServer
INVARIANTS
  NoTornWeights
  LabelsCoverVersions
PROPERTIES
  EveryRequestEnds
CHECK_DEADLOCK FALSE
