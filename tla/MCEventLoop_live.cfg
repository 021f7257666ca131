SPECIFICATION FairLoopSpec
CONSTANTS
  t1 = t1
  t2 = t2
  k1 = k1
  k2 = k2
  k3 = k3
  NFTVR_SIZE = 8
  NFTVN_SIZE = 2
  PRECISION_USEC = 1
  TimerData <- AnyNat
  Expires <- ExpireTimes
  MaxTime = 4
  SetBack = 0
  Timer = {t1, t2}
  Interval <- MixedIntervals
  MaxId = 2
  IsLoop = {t1}
  IOTask = {}
  Fd = {}
  FdOf <- NoFds
  Idle = {}
  MaxIdle = 0
  Signals = TRUE
PROPERTIES ImplementsTimerRounds StopEndsRun RegisteredTimerFires ReturnsWhenExhausted
