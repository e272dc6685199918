SPECIFICATION LeavingSpec
CONSTANTS
  s1 = s1
  s2 = s2
  c1 = c1
  w1 = w1
  w2 = w2
  Streams = {s1, s2}
  Sockets = {c1}
  Workers = {w1, w2}
  WorkerOf <- MCWorkerOf
  QueueCap = 2
  MaxItems = 3
INVARIANTS
  TypeOK
  DrainedAtExit
CHECK_DEADLOCK FALSE
PROPERTY
  ShutdownCompletes
