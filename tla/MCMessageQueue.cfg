SPECIFICATION Spec
CONSTANTS
  Consumers = {c1, c2}
  MaxQueueSize = 2
  MaxPut = 4
INVARIANTS
  TypeOK
  QueueIsRecentSuffix
  NoLostWakeup
PROPERTIES
  ImplementsStream
  ShutdownReleases
CHECK_DEADLOCK FALSE
