SPECIFICATION FairSpec
CONSTANTS
  NumWeights = 4
  BucketSize = 3
  MaxSize = 4
  UseShm = FALSE
INVARIANTS
  TypeOK
  LoadedIntact
PROPERTIES
  ImplementsDelivery
  TransferEnds
CHECK_DEADLOCK FALSE
