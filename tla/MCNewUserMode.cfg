SPECIFICATION Spec
CONSTANTS
  User = {u1}
  Id = {1}
  MaxEpoch = 1
  MaxMoves = 1
  MaxTasks = 4
INVARIANT NewUserMode
CHECK_DEADLOCK FALSE
