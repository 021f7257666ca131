SPECIFICATION MngSpec
CONSTANTS
  NFTVR_SIZE = 2
  NFTVN_SIZE = 2
  PRECISION_USEC = 1
  TimerData <- AnyNat
  Expires <- ExpireTimes
  MaxTime = 4
  SetBack = 0
  t1 = t1
  t2 = t2
  Timer = {t1, t2}
  Interval <- Intervals
  MaxId = 3
INVARIANTS MapLeadsToLiveTimers RegisteredIsOnWheel
PROPERTY ImplementsTimerService
