SPECIFICATION Spec
CONSTANTS
  RequiredSamples = 1
  TriggerStep = 1
  MaxRequiredSamples = 2
  ConcurrencyLimit = 1
  TotalRolloutSteps = 4
  PartialRollout = TRUE
  FailingSamples = {}
  TestFreq = 2
INVARIANTS
  AtMostRolloutNum
CHECK_DEADLOCK FALSE
