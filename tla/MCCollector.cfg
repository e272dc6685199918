SPECIFICATION Spec
CONSTANTS
  eth0 = eth0
  Ifaces = {eth0}
  Second = 2
  Intervals = {0, 2}
  MaxWork = 3
  MaxTime = 4
INVARIANTS
  TypeOK
PROPERTIES
  RatesSpanTheSamples
  FailuresNeverInflate
  CpuShareSinceLastReading
