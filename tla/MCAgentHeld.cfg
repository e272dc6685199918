SPECIFICATION FairSpec
CONSTANTS
  BufferCap = 2
  MaxCollected = 2
  MaxSessions = 1
  MaxProbes = 0
  MaxControl = 0
  ChanCap = 1
  WireCap = 1
  BackoffBase = 1000
  BackoffMax = 2000
  Jitters = {0}
PROPERTY HeldBackUntilReconnect
