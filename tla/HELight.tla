------------------------------- MODULE HELight -------------------------------
(***************************************************************************)
(* The RGB strip of the Icebreaker HE: what VIA calibration (he_matrix.c)  *)
(* and the user's lighting commands (rgblight.c, via.c) do to the same     *)
(* rgblight_config, to the LEDs and to the persisted lighting record.      *)
(*                                                                         *)
(* The board enables no rgblight effect, so the only mode is the static    *)
(* one and a colour is a hue and a brightness (saturation takes part in no *)
(* decision and is left out).                                              *)
(***************************************************************************)
EXTENDS Integers

CONSTANTS
    AnalogKeys,                 \* sensors with an LED
    Leds,                       \* positions on the strip
    he_led_remap,               \* [AnalogKeys -> Leds]
    HueMod,                     \* hue is a uint8_t: 256
    RGBLIGHT_HUE_STEP,
    MaxVal,                     \* UINT8_MAX
    RGBLIGHT_VAL_STEP,
    RGBLIGHT_LIMIT_VAL,         \* brownout cap of config.h
    RGBLIGHT_DEFAULT_HUE, RGBLIGHT_DEFAULT_VAL,
    RedHue, GreenHue

Hues    == 0..(HueMod - 1)
Colours == [hue : Hues, val : 0..MaxVal]

\* Every sensor has an LED of its own.
ASSUME LedMap ==
    /\ he_led_remap \in [AnalogKeys -> Leds]
    /\ \A i, j \in AnalogKeys : he_led_remap[i] = he_led_remap[j] => i = j

ASSUME LightLimits ==
    /\ HueMod \in Nat \ {0} /\ RGBLIGHT_HUE_STEP \in Hues
    /\ MaxVal \in Nat \ {0} /\ RGBLIGHT_VAL_STEP \in 1..MaxVal
    /\ RGBLIGHT_LIMIT_VAL \in 1..MaxVal
    /\ RGBLIGHT_DEFAULT_HUE \in Hues
    /\ RGBLIGHT_DEFAULT_VAL \in 0..RGBLIGHT_LIMIT_VAL
    /\ RedHue \in Hues /\ GreenHue \in Hues

HSV_RED   == [hue |-> RedHue, val |-> MaxVal]
HSV_GREEN == [hue |-> GreenHue, val |-> MaxVal]
Default   == [hue |-> RGBLIGHT_DEFAULT_HUE, val |-> RGBLIGHT_DEFAULT_VAL]
Black     == [hue |-> 0, val |-> 0]

VARIABLES
    he_calibrating,
    he_cal_latched,             \* keys pressed in the running calibration
    cal_saved_hsv,              \* colour saved by he_start_calibration
    enable, hsv,                \* rgblight_config
    leds,                       \* what each LED shows
    stored                      \* the persisted lighting record

calibration == <<he_calibrating, he_cal_latched, cal_saved_hsv>>
vars == <<calibration, enable, hsv, leds, stored>>

Limit(v) == IF v > RGBLIGHT_LIMIT_VAL THEN RGBLIGHT_LIMIT_VAL ELSE v

ShownUncapped(c) == IF c.val = 0 THEN Black ELSE c \* mutant: no brownout cap

\* hsv_to_rgb with the cap: what an LED driven with colour c shows.
Shown(c) == IF c.val = 0 THEN Black ELSE [c EXCEPT !.val = Limit(c.val)]

AllShow(c) == [l \in Leds |-> Shown(c)]

TypeOK ==
    /\ he_calibrating \in BOOLEAN
    /\ he_cal_latched \in SUBSET AnalogKeys
    /\ cal_saved_hsv \in Colours
    /\ enable \in BOOLEAN
    /\ hsv \in Colours
    /\ leds \in [Leds -> Colours]
    /\ stored \in [enable : BOOLEAN, hsv : Colours]

\* First boot: rgblight_init finds an erased record and writes the defaults.
Init ==
    /\ he_calibrating = FALSE
    /\ he_cal_latched = {}
    /\ cal_saved_hsv = Black
    /\ enable = TRUE
    /\ hsv = Default
    /\ leds = AllShow(Default)
    /\ stored = [enable |-> TRUE, hsv |-> Default]

-----------------------------------------------------------------------------
(* rgblight.c *)

SetHsvLedsAlways(c) == \* mutant: LEDs are driven on a disabled strip
    /\ hsv' = IF enable THEN c ELSE hsv
    /\ leds' = AllShow(c)

\* rgblight_sethsv_noeeprom: nothing at all while the strip is disabled.
SetHsv(c) ==
    /\ hsv' = IF enable THEN c ELSE hsv
    /\ leds' = IF enable THEN AllShow(c) ELSE leds

\* rgblight_sethsv: the same, and persisted.  The brightness is stored as it
\* is; only rgblight_check_config caps it.
SetHsvEeprom(c) ==
    /\ SetHsv(c)
    /\ stored' = IF enable THEN [enable |-> TRUE, hsv |-> c] ELSE stored

\* rgblight_increase_hue / rgblight_decrease_hue
StepHue(step) ==
    /\ SetHsvEeprom([hsv EXCEPT !.hue = (@ + step) % HueMod])
    /\ UNCHANGED <<calibration, enable>>

\* rgblight_increase_val / rgblight_decrease_val: saturating
StepVal(v) ==
    /\ SetHsvEeprom([hsv EXCEPT !.val = IF v < 0 THEN 0
                                        ELSE IF v > MaxVal THEN MaxVal ELSE v])
    /\ UNCHANGED <<calibration, enable>>

\* rgblight_enable(_noeeprom) / rgblight_disable(_noeeprom)
Enable(on) ==
    /\ enable' = on
    /\ leds' = IF on THEN AllShow(hsv) ELSE AllShow(Black)
    /\ UNCHANGED <<calibration, hsv>>

\* QK_UNDERGLOW_TOGGLE: persists rgblight_config as it stands.
Toggle ==
    /\ Enable(~enable)
    /\ stored' = [enable |-> ~enable, hsv |-> hsv]

-----------------------------------------------------------------------------
(* via.c, the rgblight channel and the device indication.                  *)

\* id_qmk_rgblight_effect
ViaEffect(on) == Enable(on) /\ UNCHANGED stored

\* via_set_device_indication
DeviceIndication == Enable(~enable) /\ UNCHANGED stored

\* id_qmk_rgblight_brightness
ViaBrightness(v) ==
    /\ SetHsv([hsv EXCEPT !.val = (v * RGBLIGHT_LIMIT_VAL) \div MaxVal])
    /\ UNCHANGED <<calibration, enable, stored>>

\* id_qmk_rgblight_color
ViaColor(h) ==
    /\ SetHsv([hsv EXCEPT !.hue = h])
    /\ UNCHANGED <<calibration, enable, stored>>

\* via_qmk_rgblight_save: rgblight_check_config caps, then the record is written.
ViaSave ==
    /\ hsv' = [hsv EXCEPT !.val = Limit(@)]
    /\ stored' = [enable |-> enable, hsv |-> hsv']
    /\ UNCHANGED <<calibration, enable, leds>>

\* Power cycle: RAM is cleared and rgblight_init reads the record.
Reboot ==
    /\ he_calibrating' = FALSE
    /\ he_cal_latched' = {}
    /\ cal_saved_hsv' = Black
    /\ enable' = stored.enable
    /\ hsv' = [stored.hsv EXCEPT !.val = Limit(@)]
    /\ leds' = IF stored.enable THEN AllShow(hsv') ELSE AllShow(Black)
    /\ UNCHANGED stored

-----------------------------------------------------------------------------
(* he_matrix.c *)

StartCalibrationSavesRed == \* mutant: the colour is saved after the strip is red
    /\ he_calibrating' = TRUE
    /\ he_cal_latched' = {}
    /\ SetHsv(HSV_RED)
    /\ cal_saved_hsv' = hsv'
    /\ UNCHANGED <<enable, stored>>

\* he_start_calibration
StartCalibration ==
    /\ he_calibrating' = TRUE
    /\ he_cal_latched' = {}
    /\ cal_saved_hsv' = hsv
    /\ SetHsv(HSV_RED)
    /\ UNCHANGED <<enable, stored>>

\* matrix_scan_custom: the keys whose LED turns green in a scan that reads the
\* keys `deep` past HE_CAL_PRESS_MARGIN.
Latch(deep) == IF he_calibrating THEN deep \ he_cal_latched ELSE {}

ScanLatch(deep) ==
    LET new == Latch(deep) IN
    /\ he_cal_latched' = he_cal_latched \cup new
    /\ leds' = [l \in Leds |->
                   IF enable /\ \E i \in new : he_led_remap[i] = l
                   THEN Shown(HSV_GREEN) ELSE leds[l]]
    /\ UNCHANGED <<he_calibrating, cal_saved_hsv, enable, hsv, stored>>

\* he_end_calibration
EndCalibration ==
    /\ he_calibrating' = FALSE
    /\ SetHsv(cal_saved_hsv)
    /\ UNCHANGED <<he_cal_latched, cal_saved_hsv, enable, stored>>

Next ==
    \/ StartCalibration
    \/ \E deep \in SUBSET AnalogKeys : ScanLatch(deep)
    \/ EndCalibration
    \/ StepHue(RGBLIGHT_HUE_STEP) \/ StepHue(-RGBLIGHT_HUE_STEP)
    \/ StepVal(hsv.val + RGBLIGHT_VAL_STEP) \/ StepVal(hsv.val - RGBLIGHT_VAL_STEP)
    \/ Toggle
    \/ \E on \in BOOLEAN : ViaEffect(on)
    \/ DeviceIndication
    \/ \E v \in 0..MaxVal : ViaBrightness(v)
    \/ \E h \in Hues : ViaColor(h)
    \/ ViaSave
    \/ Reboot

Spec == Init /\ [][Next]_vars

-----------------------------------------------------------------------------
\* The brownout cap holds on the wire: whatever brightness the configuration,
\* a calibration colour or a stored record carries, no LED is driven above it.
BrownoutCap == \A l \in Leds : leds[l].val <= RGBLIGHT_LIMIT_VAL

\* A strip the user switched off stays dark: calibration feedback, restored
\* colours and lighting commands light nothing until it is enabled again.
DarkWhenDisabled == ~enable => leds = AllShow(Black)
=============================================================================
