SPECIFICATION FairSpec
CONSTANTS
  a = a  b = b  t1 = t1  t2 = t2
  k1 = k1  k2 = k2  s1 = s1  s2 = s2
  None = None
  Track <- MCTrack
  Thread <- MCThread
  Task <- MCTask
  Scheduler <- MCScheduler
  Calls = {"play", "playQueue", "pause", "resume", "stop", "skip", "enqueue", "clear", "setLoopMode", "setIndex"}
  MaxCalls = 3
  MaxFrames = 1
  MaxList = 2
INVARIANTS
  OneTicker
  PlayingTicks
  TrackHeld
  FinishedMeansPlayedOut
PROPERTIES
  PlaybackEnds
CHECK_DEADLOCK FALSE
