SPECIFICATION FairSpec
CONSTANTS
  c1 = c1  c2 = c2  u1 = u1  u2 = u2  t1 = t1  t2 = t2  t3 = t3
  Conn = {c1, c2}
  Udp = {u1}
  Thread = {t1, t2}
  NoConn = NoConn  NoUdp = NoUdp  NoThread = NoThread
  Ops = {"connect", "disconnect", "updateServer"}
  MaxCalls = 2
  MaxFaults = 1
INVARIANTS
  ReconnectNotAbandoned
  TakenOnce
  ResumeNeedsSession
PROPERTIES
  RetryHappens
  CallsReturn
CHECK_DEADLOCK FALSE
