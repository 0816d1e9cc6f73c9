SPECIFICATION Spec
CONSTANTS
  Clients = {c1, c2, c3, c4}
  MaxEpoch = 3
  MaxAdds = 3
  MaxRemoves = 2
SYMMETRY Symmetry
CHECK_DEADLOCK FALSE
INVARIANTS
  AllFollow
  KeysBelow
  RemovedLockedOut
