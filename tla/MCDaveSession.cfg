SPECIFICATION Spec
CONSTANTS
  u1 = u1
  u2 = u2
  u3 = u3
  Users = {u1, u2, u3}
  Present = {u1, u2, u3}
  AcceptEarlier = FALSE
  MaxProposals = 2
  MaxDisturbances = 1
SYMMETRY Symmetry
CHECK_DEADLOCK FALSE
INVARIANTS
  OnlyAccepted
  CaughtUp
  FailureHasWayBack
