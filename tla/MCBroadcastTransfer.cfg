SPECIFICATION FairSpec
CONSTANTS
  Receivers = {r1, r2}
  NumWeights = 3
  BucketSize = 2
  MaxSize = 5
INVARIANTS
  TypeOK
  BytesInPlace
  AssertionsHold
PROPERTIES
  ImplementsDelivery
  TransferEnds
CHECK_DEADLOCK FALSE
