SPECIFICATION Spec
CONSTANTS
  GenerationWrap = 3
  NoncesPerGeneration = 2
  MaxGenerationGap = 2
  MaxMissingNonces = 3
  CryptorExpiry = 1
  FramesPerTick = 2
  Leb128Step = 8
  ByteValues = 64
  Supplemental = 11
  Forever <- MCForever
  Frames <- MCFrames
  Byte <- MCByte
  MaxTransitions = 2
  MaxTime = 6
  MaxEncryptAttempts = 2
  MaxDelay = 2
  TransitionExpiry = 3
  MaxExecuteDelay = 1
INVARIANTS
  NoReplay
  InTimeHeard
  FramesIntact
  KeysDeleted
PROPERTY
  NoncesAdvance
CHECK_DEADLOCK FALSE
