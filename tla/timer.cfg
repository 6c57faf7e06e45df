CONSTANTS
  Range32 = 8
  TimerRanges <- BothWidths
  CH_CFG_ST_FREQUENCY = 3
  MsPerSecond = 2
  ReadGap = 6
SPECIFICATION Spec
INVARIANTS ClockExact PreemptedReadExact
