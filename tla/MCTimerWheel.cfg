SPECIFICATION FairSpec
CONSTANTS
  NFTVR_SIZE = 1
  NFTVN_SIZE = 2
  PRECISION_USEC = 1
  TimerData = {d1, d2}
  Expires <- NearAndFar
  MaxTime = 17
  SetBack = 4
INVARIANTS TypeOK PlacementInv SizeCoversTimers
PROPERTIES ImplementsTimerQueue EventuallyHandedOut
