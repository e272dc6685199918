SPECIFICATION FairSpec
CONSTANTS
  BufferCap = 1
  MaxCollected = 2
  MaxSessions = 2
  MaxProbes = 0
  MaxControl = 0
  ChanCap = 1
  WireCap = 1
  BackoffBase = 1000
  BackoffMax = 1000
  Jitters = {0}
INVARIANTS
  TypeOK
  NoLostWakeup
  HoldbackIsNewestRun
  DeliveryOrder
PROPERTIES
  HoldbackIsDrained
  SnapshotsDelivered
