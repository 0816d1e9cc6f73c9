SPECIFICATION FairSpec
CONSTANTS
  g1 = g1
  g2 = g2
  Owner <- MCOwner
INVARIANTS
  NotForgotten
  TasksOwned
  NoOrphanSocket
PROPERTIES
  ResumedOnce
  DiscoveryEnds
  CloseCloses
CHECK_DEADLOCK FALSE
