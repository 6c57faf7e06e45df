CONSTANTS
  HE_ACTUATION_MIN = 10
  HE_ACTUATION_MAX = 90
  HE_RELEASE_MIN = 10
  HE_RELEASE_MAX = 90
  HE_DEADZONE_MIN = 15
  HE_DEADZONE_MAX = 60
  HE_ENGAGE_MIN = 5
  HE_ENGAGE_MAX = 20
  HE_RELEASE_DIST_MIN = 5
  HE_RELEASE_DIST_MAX = 20
  HE_ADC_RAW_MAX = 4095
  HE_ADC_REST_MARGIN = 20
  HE_ADC_TRAVEL_SPAN = 700
  HE_ADC_MIN_SPAN = 200
  HE_SENSOR_COUNT = 2
  HE_ACTUATION_DEFAULT = 50
  HE_RELEASE_DEFAULT = 30
  HE_DEADZONE_DEFAULT = 50
  HE_ENGAGE_DEFAULT = 15
  HE_RELEASE_DIST_DEFAULT = 10
  HE_VIA_AUTOSAVE_MS = 2
  TimerMod = 5
  ScanTicks = {0, 1, 2}
  SetBytes <- Bytes
  TuningRequests <- OneTuning
  ModeBytes <- MCModes
  LOG_ENTRY_MULTIBYTE_MAX_BYTES = 3
  Survivors <- NothingSurvives
  PowerLossIn = {"boot"}
SPECIFICATION Spec
INVARIANTS EnabledMeansSeeded
