CONSTANTS
  HE_ACTUATION_MIN = 10
  HE_ACTUATION_MAX = 90
  HE_RELEASE_MIN = 10
  HE_RELEASE_MAX = 90
  HE_DEADZONE_MIN = 15
  HE_DEADZONE_MAX = 60
  HE_ENGAGE_MIN = 5
  HE_ENGAGE_MAX = 20
  HE_RELEASE_DIST_MIN = 5
  HE_RELEASE_DIST_MAX = 20
  HE_ACTUATION_DEFAULT = 50
  HE_RELEASE_DEFAULT = 30
  HE_DEADZONE_DEFAULT = 50
  HE_ENGAGE_DEFAULT = 15
  HE_RELEASE_DIST_DEFAULT = 10
  HE_ADC_RAW_MAX = 4095
  HE_ADC_REST_MARGIN = 20
  HE_ADC_TRAVEL_SPAN = 700
  HE_ADC_MIN_SPAN = 200
  HE_ENC_PUSH_INDEX = "enc"
  Keys = {"a", "d"}
  socd_pairs <- MCPairs
  HE_DEBOUNCE = 2
  HE_ADC_REST_SAMPLE_SCANS = 1
  ScanCountMod = 2
  RawValues <- SocdRaw
  BootRecords <- MCBootDefault
  BootSettings <- MCBootBad
  ThresholdRequests = {}
  TuningRequests = {}
  ModeRequests <- SocdModes
  CalibrationRequests = {}
SPECIFICATION Spec
INVARIANTS TypeOK DebounceCountsDisagreement
PROPERTIES SocdExactlyOne SocdLatestWins SocdOwnerKeepsOutput
