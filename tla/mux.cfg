CONSTANTS
  HE_MUX_COUNT = 5
  HE_ADDR_LINES = 4
  PressedSets <- MCPressed
SPECIFICATION Spec
INVARIANTS SampleReadsOwnSensor MatrixFaithful
PROPERTIES AddressStableWhileLive
