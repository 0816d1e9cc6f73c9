SPECIFICATION MCSpec
CONSTANTS
  k1 = k1  k2 = k2  None = None
  Timer <- MCTimer
  Stable = 3
  MaxDelay = 60
  MaxExponent = 10
  MaxAttempts = 9
  c1 = c1  c2 = c2  s1 = s1  Nobody = Nobody
  Connection <- MCConnection
  Stopper = {s1}
  MaxBeats = 2
INVARIANTS
  OneTimer
PROPERTIES
  BackOffDoubles
  StableResets
  NoFalseAlarm
  SilenceNoticed
CHECK_DEADLOCK FALSE
