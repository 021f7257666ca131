SPECIFICATION LoopSpec
CONSTANTS
  t1 = t1
  t2 = t2
  k1 = k1
  k2 = k2
  k3 = k3
  NFTVR_SIZE = 2
  NFTVN_SIZE = 2
  PRECISION_USEC = 1
  TimerData <- AnyNat
  Expires <- ExpireTimes
  MaxTime = 1
  SetBack = 1
  Timer = {t1}
  Interval <- ZeroInterval
  MaxId = 1
  IsLoop = {}
  IOTask = {k1, k2, k3}
  Fd = {1, 2}
  FdOf <- SharedFds
  Idle = {i1}
  MaxIdle = 2
  Signals = TRUE
INVARIANTS NoDanglingPointer RegisteredIsPolled ReturnsOnlyWhenDone
PROPERTY EventReachesItsTask
