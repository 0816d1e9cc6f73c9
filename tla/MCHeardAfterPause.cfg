SPECIFICATION JitterSpec
CONSTANTS
  Modulus = 16
  Depth = 2
  Overflow = 10
  Base = 13
  Silence = TRUE
  MaxPacket = 4
  MaxDelay = 2
  Copies = 1
  MaxFrame = 8
INVARIANTS
  HeardAfterPause
CHECK_DEADLOCK FALSE
