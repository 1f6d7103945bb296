SPECIFICATION Spec
CONSTANTS
  RequiredSamples = 1
  TriggerStep = 1
  MaxRequiredSamples = 2
  ConcurrencyLimit = 16
  TotalRolloutSteps = 8
  PartialRollout = TRUE
  FailingSamples = {1, 2}
  TestFreq = 2
INVARIANTS
  TypeOK
  StalenessCovers
  RolloutNumBound
  Conservation
  DropsBounded
  SentinelSurvives
  NothingStranded
CHECK_DEADLOCK FALSE
