SPECIFICATION MCSpec
CONSTANTS
  x = x  y = y  p1 = p1  p2 = p2
  b1 = b1  b2 = b2  b3 = b3  b4 = b4
  None = None
  Ssrc <- MCSsrc
  Packet <- MCPacket
  Buffer <- MCBuffer
  Depth = 2
  MaxPackets = 5
  f1 = f1  f2 = f2  k1 = k1
  Sender <- MCSender
  Speaker = {k1}
  Sessions = 2
SYMMETRY MCSymmetry
INVARIANTS
  OneLoopPerSsrc
  RemovalStopsLoops
  SealedOnce
  HeardWhenSent
CHECK_DEADLOCK FALSE
