SPECIFICATION Spec
CONSTANTS
  u1 = u1
  u2 = u2
  u3 = u3
  Users = {u1, u2, u3}
  Present = {u1, u2, u3}
  AcceptEarlier = TRUE
  MaxProposals = 2
  MaxDisturbances = 0
SYMMETRY Symmetry
CHECK_DEADLOCK FALSE
INVARIANTS
  OnlyAccepted
