SPECIFICATION FairSpec
CONSTANTS
  BufferCap = 2
  MaxCollected = 2
  MaxSessions = 1
  MaxProbes = 1
  MaxControl = 1
  ChanCap = 1
  WireCap = 1
  BackoffBase = 1000
  BackoffMax = 3000
  Jitters <- MCJitters
INVARIANT
  DelayBounded
PROPERTIES
  CancelEndsAgent
  ForwardedReachesServer
  BackoffFollowed
  DelaysGrowToCap
