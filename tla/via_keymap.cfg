CONSTANTS
  DYNAMIC_KEYMAP_LAYER_COUNT = 2
  MATRIX_ROWS = 2
  MATRIX_COLS = 3
  NUM_ENCODERS = 1
  DYNAMIC_KEYMAP_MACRO_COUNT = 3
  DYNAMIC_KEYMAP_MACRO_EEPROM_SIZE = 6
  ChunkSize = 4
  KC_NO = 0
  Firmware <- TwoBuilds
SPECIFICATION Spec
INVARIANTS MagicMeansOwnData CommandReadsBack SendsWholeMacros
PROPERTIES CommandsKeepToTheirRegion
