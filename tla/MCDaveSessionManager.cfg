SPECIFICATION Spec
CONSTANTS
  User = {u1}
  Id = {1, 2}
  MaxEpoch = 2
  MaxMoves = 2
  MaxTasks = 3
INVARIANT ExecuteFindsPrepared
PROPERTY NoSilentDowngrade
CHECK_DEADLOCK FALSE
