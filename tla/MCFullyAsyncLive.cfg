SPECIFICATION FairSpec
CONSTANTS
  RequiredSamples = 2
  TriggerStep = 1
  MaxRequiredSamples = 4
  ConcurrencyLimit = 2
  TotalRolloutSteps = 4
  PartialRollout = FALSE
  FailingSamples = {3}
  TestFreq = 2
PROPERTIES
  Termination
  PauseIsLifted
CHECK_DEADLOCK FALSE
