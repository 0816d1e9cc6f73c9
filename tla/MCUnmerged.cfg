SPECIFICATION Spec
CONSTANTS
  Clients = {c1, c2, c3, c4, c5}
  MaxEpoch = 4
  MaxAdds = 2
  MaxRemoves = 0
SYMMETRY Symmetry
CHECK_DEADLOCK FALSE
INVARIANTS
  AllFollow
