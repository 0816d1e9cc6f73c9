SPECIFICATION JitterSpec
CONSTANTS
  Modulus = 8
  Depth = 2
  Overflow = 2
  Base = 5
  Silence = TRUE
  MaxPacket = 4
  MaxDelay = 3
  Copies = 2
  MaxFrame = 7
INVARIANTS
  PlaysForward
  DelayAbsorbsJitter
CHECK_DEADLOCK FALSE
