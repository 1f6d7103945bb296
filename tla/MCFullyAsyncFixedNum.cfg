SPECIFICATION FairSpec
CONSTANTS
  RequiredSamples = 1
  TriggerStep = 2
  MaxRequiredSamples = 2
  ConcurrencyLimit = 16
  TotalRolloutSteps = 4
  PartialRollout = TRUE
  FailingSamples = {}
  TestFreq = 2
PROPERTIES
  FixedRolloutNum
CHECK_DEADLOCK FALSE
