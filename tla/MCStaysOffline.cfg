SPECIFICATION Spec
CONSTANTS
  c1 = c1  c2 = c2  u1 = u1  u2 = u2  t1 = t1  t2 = t2  t3 = t3
  Conn <- MCConn
  Udp <- MCUdp
  Thread <- MCThread
  NoConn = NoConn  NoUdp = NoUdp  NoThread = NoThread
  Ops = {"connect", "disconnect", "updateServer"}
  MaxCalls = 2
  MaxFaults = 1
SYMMETRY MCSymmetry
INVARIANT StaysOffline
CHECK_DEADLOCK FALSE
