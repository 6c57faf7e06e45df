CONSTANTS
  Keys = {1, 2, 3}
  RawStates <- PairStates
  DEBOUNCE = 2
  TimerMod = 5
  ScanTicks = {0, 1, 2}
  ENCODER_RESOLUTION = 4
  MAX_QUEUED_ENCODER_EVENTS = 4
  MaxMoved = 2
SPECIFICATION KFairSpec
INVARIANTS OverlapIsHandOver HostFollowsMatrix RotationReported
PROPERTIES HostCatchesUp
