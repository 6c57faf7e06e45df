CONSTANTS
  AnalogKeys = {"a", "b"}
  Leds = {0, 1, 2}
  he_led_remap <- CrossedMap
  HueMod = 3
  RGBLIGHT_HUE_STEP = 1
  MaxVal = 3
  RGBLIGHT_VAL_STEP = 1
  RGBLIGHT_LIMIT_VAL = 2
  RGBLIGHT_DEFAULT_HUE = 2
  RGBLIGHT_DEFAULT_VAL = 2
  RedHue = 0
  GreenHue = 1
SPECIFICATION HSpec
INVARIANTS BrownoutCap DarkWhenDisabled
PROPERTIES CalibrationRestores
