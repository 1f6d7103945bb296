SPECIFICATION FairSpec
CONSTANTS
  NoStep = NoStep
  UseCritic = TRUE
  Ranks = {1, 2}
  Keep <- MCKeep
  Steps <- MCSteps
  Values <- MCValues
  NoValue = NoValue
  Down = Down
  TrainN <- MCTrainN
  ValN <- MCValN
  ValBatches = 2
  BatchMultiple = 2
  TotalSteps = 3
  SaveFreq = 1
  TestFreq = 3
  ValBeforeTrain = FALSE
  CriticWarmup = 2
  MaxJobs = 2
  Fragile <- MCFragile
INVARIANTS
  TypeOK
  SampleComplete
  EntriesHaveStep
  TrackedComplete
  LineageIntact
PROPERTIES
  FitEnds
CHECK_DEADLOCK FALSE
