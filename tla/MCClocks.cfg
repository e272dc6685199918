SPECIFICATION FairSpec
CONSTANTS
  Second = 2
  MAX_CLOCK_SKEW = 0
  HeartbeatEvery = 2
  OfflineAfter = 4
  CheckEvery = 2
  Retain = 5
  Offsets <- MCOffsets
  MaxDelay = 1
  MaxAge = 1
  Late = 1
  MaxTime = 11
  MaxRows = 1
INVARIANTS
  TypeOK
  DetectionBound
  HistoryComplete
PROPERTIES
  StreamingStaysOnline
  ExpiredArePurged
