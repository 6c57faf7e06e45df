---------------------------- MODULE HELightProofs ----------------------------
(***************************************************************************)
(* Proofs about the RGB strip, for any strip, any LED map, any brightness  *)
(* cap and any lighting steps within the assumptions of HELight.           *)
(***************************************************************************)
EXTENDS HELightHistory, TLAPS

-----------------------------------------------------------------------------
(* Colours.                                                                *)

\* The cap brings any brightness into the allowed range and keeps light on.
LEMMA LimitRange ==
    ASSUME NEW v \in 0..MaxVal
    PROVE  /\ Limit(v) \in 0..MaxVal
           /\ Limit(v) <= RGBLIGHT_LIMIT_VAL
           /\ Limit(v) = 0 <=> v = 0
           /\ Limit(Limit(v)) = Limit(v)
BY LightLimits DEF Limit

\* An LED shows a colour under the cap, whatever it is driven with.
LEMMA ShownColour ==
    ASSUME NEW c \in Colours
    PROVE  Shown(c) \in Colours /\ Shown(c).val <= RGBLIGHT_LIMIT_VAL
<1>1. c.val \in 0..MaxVal /\ c.hue \in Hues
  BY DEF Colours
<1>2. CASE c.val = 0
  BY <1>2, LightLimits DEF Shown, Black, Colours, Hues
<1>3. CASE c.val # 0
  <2>1. Shown(c) = [c EXCEPT !.val = Limit(c.val)]
    BY <1>3 DEF Shown
  <2> QED BY <1>1, <2>1, LimitRange DEF Colours
<1> QED BY <1>2, <1>3

\* Capping the configuration, as rgblight_check_config does, is invisible.
LEMMA ShownCapped ==
    ASSUME NEW c \in Colours
    PROVE  /\ [c EXCEPT !.val = Limit(@)] \in Colours
           /\ Shown([c EXCEPT !.val = Limit(@)]) = Shown(c)
<1> DEFINE d == [c EXCEPT !.val = Limit(@)]
<1>1. c.val \in 0..MaxVal /\ c.hue \in Hues
  BY DEF Colours
<1>2. d \in Colours /\ d.val = Limit(c.val)
  BY <1>1, LimitRange DEF Colours
<1>3. CASE c.val = 0
  <2>1. d.val = 0
    BY <1>1, <1>2, <1>3, LimitRange
  <2> QED BY <1>2, <1>3, <2>1 DEF Shown
<1>4. CASE c.val # 0
  <2>1. d.val # 0 /\ Limit(d.val) = Limit(c.val)
    BY <1>1, <1>2, <1>4, LimitRange
  <2>2. Shown(d) = [d EXCEPT !.val = Limit(d.val)]
    BY <2>1 DEF Shown
  <2>3. Shown(c) = [c EXCEPT !.val = Limit(c.val)]
    BY <1>4 DEF Shown
  <2>4. [d EXCEPT !.val = Limit(d.val)] = [c EXCEPT !.val = Limit(c.val)]
    BY <1>2, <2>1 DEF Colours
  <2> QED BY <1>2, <2>2, <2>3, <2>4
<1> QED BY <1>3, <1>4

\* A strip driven with one colour shows that colour everywhere, capped.
LEMMA AllShowType ==
    ASSUME NEW c \in Colours
    PROVE  /\ AllShow(c) \in [Leds -> Colours]
           /\ \A l \in Leds : AllShow(c)[l].val <= RGBLIGHT_LIMIT_VAL
BY ShownColour DEF AllShow

\* The colours the code names.
LEMMA NamedColours ==
    /\ HSV_RED \in Colours /\ HSV_GREEN \in Colours
    /\ Default \in Colours /\ Black \in Colours
BY LightLimits DEF HSV_RED, HSV_GREEN, Default, Black, Colours, Hues

\* VIA's brightness byte is scaled to the cap.
LEMMA ScaledBrightness ==
    ASSUME NEW v \in 0..MaxVal
    PROVE  (v * RGBLIGHT_LIMIT_VAL) \div MaxVal \in 0..MaxVal
<1> DEFINE L == RGBLIGHT_LIMIT_VAL
<1> DEFINE M == MaxVal
<1> DEFINE q == (v * L) \div M
<1>1. M \in Nat \ {0} /\ L \in 1..M /\ v \in 0..M
  BY LightLimits
<1> HIDE DEF L, M
<1>2. v * L \in Nat /\ v * L <= M * L
  BY <1>1
<1>3. q \in Nat /\ M * q <= v * L
  BY <1>1, <1>2
<1>4. q <= L
  <2> HIDE DEF q
  <2> SUFFICES ASSUME q >= L + 1 PROVE FALSE
    BY <1>1, <1>3
  <2>1. M * q >= M * (L + 1)
    BY <1>1, <1>3
  <2>2. M * (L + 1) = M * L + M
    BY <1>1
  <2> QED BY <1>1, <1>2, <1>3, <2>1, <2>2
<1> QED BY <1>1, <1>3, <1>4 DEF L, M

-----------------------------------------------------------------------------
(* The invariant.                                                          *)

\* Outside a calibration every LED shows the configured colour.
ShowsConfig == enable /\ ~he_calibrating => leds = AllShow(hsv)

StripInv == TypeOK /\ BrownoutCap /\ DarkWhenDisabled /\ ShowsConfig

\* What the strip part of a step must establish.
LedsInv == /\ hsv \in Colours /\ enable \in BOOLEAN
           /\ leds \in [Leds -> Colours] /\ BrownoutCap /\ DarkWhenDisabled
           /\ ShowsConfig

\* rgblight_sethsv_noeeprom with any colour: a disabled strip is untouched, an
\* enabled one shows the new colour everywhere.
LEMMA SetHsvKeeps ==
    ASSUME StripInv, NEW c \in Colours, SetHsv(c), enable' = enable
    PROVE  LedsInv'
<1>1. CASE enable
  <2>1. hsv' = c /\ leds' = AllShow(c) /\ enable' = TRUE
    BY <1>1 DEF SetHsv, StripInv, TypeOK
  <2> QED BY <2>1, AllShowType
        DEF LedsInv, BrownoutCap, DarkWhenDisabled, ShowsConfig
<1>2. CASE ~enable
  <2>1. hsv' = hsv /\ leds' = leds /\ enable' = FALSE
    BY <1>2 DEF SetHsv, StripInv, TypeOK
  <2>2. leds = AllShow(Black)
    BY <1>2 DEF StripInv, DarkWhenDisabled
  <2> QED BY <2>1, <2>2, NamedColours, AllShowType
        DEF StripInv, TypeOK, LedsInv, BrownoutCap, DarkWhenDisabled, ShowsConfig,
            AllShow
<1> QED BY <1>1, <1>2

\* rgblight_enable and rgblight_disable.
LEMMA EnableKeeps ==
    ASSUME StripInv, NEW on \in BOOLEAN, Enable(on)
    PROVE  LedsInv' /\ UNCHANGED calibration
<1>1. CASE on
  <2>1. enable' = TRUE /\ leds' = AllShow(hsv) /\ hsv' = hsv
    BY <1>1 DEF Enable
  <2> QED BY <2>1, AllShowType
        DEF Enable, StripInv, TypeOK, LedsInv, BrownoutCap, DarkWhenDisabled, ShowsConfig
<1>2. CASE ~on
  <2>1. enable' = FALSE /\ leds' = AllShow(Black) /\ hsv' = hsv
    BY <1>2 DEF Enable
  <2> QED BY <2>1, NamedColours, AllShowType
        DEF Enable, StripInv, TypeOK, LedsInv, BrownoutCap, DarkWhenDisabled, ShowsConfig,
            AllShow
<1> QED BY <1>1, <1>2

\* The parts of TypeOK that are not about the strip.
RestTypes == /\ he_calibrating \in BOOLEAN
             /\ he_cal_latched \in SUBSET AnalogKeys
             /\ cal_saved_hsv \in Colours
             /\ stored \in [enable : BOOLEAN, hsv : Colours]

\* The strip's part and the rest make up the invariant of the next state.
LEMMA StripFromParts == LedsInv' /\ RestTypes' => StripInv'
BY DEF LedsInv, RestTypes, StripInv, TypeOK

\* The first boot shows the default colour.
LEMMA LightInit == Init => StripInv
<1> SUFFICES ASSUME Init PROVE StripInv
  OBVIOUS
<1>1. TypeOK
  BY NamedColours, AllShowType DEF Init, TypeOK
<1>2. BrownoutCap
  BY NamedColours, AllShowType DEF Init, BrownoutCap
<1>3. DarkWhenDisabled /\ ShowsConfig
  BY DEF Init, DarkWhenDisabled, ShowsConfig
<1> QED BY <1>1, <1>2, <1>3 DEF StripInv

\* A colour change that is persisted (rgblight_sethsv).
LEMMA SetHsvEepromKeeps ==
    ASSUME StripInv, NEW c \in Colours, SetHsvEeprom(c),
           UNCHANGED <<calibration, enable>>
    PROVE  StripInv'
<1>1. LedsInv'
  BY SetHsvKeeps DEF SetHsvEeprom
<1>2. RestTypes'
  BY DEF SetHsvEeprom, StripInv, TypeOK, RestTypes, calibration
<1> QED BY <1>1, <1>2, StripFromParts

\* Hue and brightness keys of the keymap.
LEMMA StepKeysKeep ==
    ASSUME StripInv,
           \/ StepHue(RGBLIGHT_HUE_STEP) \/ StepHue(-RGBLIGHT_HUE_STEP)
           \/ StepVal(hsv.val + RGBLIGHT_VAL_STEP)
           \/ StepVal(hsv.val - RGBLIGHT_VAL_STEP)
    PROVE  StripInv'
<1>1. hsv \in Colours /\ hsv.hue \in Int /\ hsv.val \in Int
  BY LightLimits DEF StripInv, TypeOK, Colours, Hues
<1>2. ASSUME NEW step \in Int, StepHue(step) PROVE StripInv'
  <2> DEFINE h == (hsv.hue + step) % HueMod
  <2>1. h \in Hues
    BY <1>1, LightLimits DEF Hues
  <2> HIDE DEF h
  <2>2. [hsv EXCEPT !.hue = h] \in Colours
    BY <1>1, <2>1 DEF Colours
  <2> QED BY <1>2, <2>2, SetHsvEepromKeeps DEF StepHue, h
<1>3. ASSUME NEW v \in Int, StepVal(v) PROVE StripInv'
  <2> DEFINE w == IF v < 0 THEN 0 ELSE IF v > MaxVal THEN MaxVal ELSE v
  <2>1. w \in 0..MaxVal
    BY LightLimits
  <2> HIDE DEF w
  <2>2. [hsv EXCEPT !.val = w] \in Colours
    BY <1>1, <2>1 DEF Colours
  <2> QED BY <1>3, <2>2, SetHsvEepromKeeps DEF StepVal, w
<1>4. /\ RGBLIGHT_HUE_STEP \in Int /\ -RGBLIGHT_HUE_STEP \in Int
      /\ hsv.val + RGBLIGHT_VAL_STEP \in Int /\ hsv.val - RGBLIGHT_VAL_STEP \in Int
  BY <1>1, LightLimits DEF Hues
<1> QED BY <1>2, <1>3, <1>4

\* The commands of via.c that set a colour without saving it.
LEMMA ViaColoursKeep ==
    ASSUME StripInv,
           (\E v \in 0..MaxVal : ViaBrightness(v)) \/ (\E h \in Hues : ViaColor(h))
    PROVE  StripInv'
<1>1. hsv \in Colours
  BY DEF StripInv, TypeOK
<1>2. ASSUME NEW c \in Colours, SetHsv(c), UNCHANGED <<calibration, enable, stored>>
      PROVE  StripInv'
  <2>1. LedsInv'
    BY <1>2, SetHsvKeeps
  <2>2. RestTypes'
    BY <1>2 DEF StripInv, TypeOK, RestTypes, calibration
  <2> QED BY <2>1, <2>2, StripFromParts
<1>3. CASE \E v \in 0..MaxVal : ViaBrightness(v)
  <2>1. PICK v \in 0..MaxVal : ViaBrightness(v)
    BY <1>3
  <2> DEFINE w == (v * RGBLIGHT_LIMIT_VAL) \div MaxVal
  <2>2. w \in 0..MaxVal
    BY ScaledBrightness
  <2> HIDE DEF w
  <2>3. [hsv EXCEPT !.val = w] \in Colours
    BY <1>1, <2>2 DEF Colours
  <2> QED BY <1>2, <2>1, <2>3 DEF ViaBrightness, w
<1>4. CASE \E h \in Hues : ViaColor(h)
  <2>1. PICK h \in Hues : ViaColor(h)
    BY <1>4
  <2>2. [hsv EXCEPT !.hue = h] \in Colours
    BY <1>1 DEF Colours
  <2> QED BY <1>2, <2>1, <2>2 DEF ViaColor
<1> QED BY <1>3, <1>4

\* Switching the strip on and off, persisted or not.
LEMMA SwitchesKeep ==
    ASSUME StripInv,
           Toggle \/ (\E on \in BOOLEAN : ViaEffect(on)) \/ DeviceIndication
    PROVE  StripInv'
<1>1. enable \in BOOLEAN /\ hsv \in Colours
  BY DEF StripInv, TypeOK
<1>2. ASSUME NEW on \in BOOLEAN, Enable(on),
             stored' \in [enable : BOOLEAN, hsv : Colours]
      PROVE  StripInv'
  <2>1. LedsInv' /\ UNCHANGED calibration
    BY <1>2, EnableKeeps
  <2>2. RestTypes'
    BY <1>2, <2>1 DEF StripInv, TypeOK, RestTypes, calibration
  <2> QED BY <2>1, <2>2, StripFromParts
<1>3. stored \in [enable : BOOLEAN, hsv : Colours]
  BY DEF StripInv, TypeOK
<1>4. (~enable) \in BOOLEAN
  OBVIOUS
<1>5. CASE Toggle
  <2>1. stored' \in [enable : BOOLEAN, hsv : Colours]
    BY <1>1, <1>4, <1>5 DEF Toggle
  <2> QED BY <1>2, <1>4, <1>5, <2>1 DEF Toggle
<1>6. CASE \E on \in BOOLEAN : ViaEffect(on)
  BY <1>2, <1>3, <1>6 DEF ViaEffect
<1>7. CASE DeviceIndication
  BY <1>2, <1>3, <1>4, <1>7 DEF DeviceIndication
<1> QED BY <1>5, <1>6, <1>7

\* Saving caps the configuration without changing what is shown.
LEMMA ViaSaveKeeps ==
    ASSUME StripInv, ViaSave
    PROVE  StripInv'
<1>1. hsv \in Colours /\ hsv' = [hsv EXCEPT !.val = Limit(@)]
  BY DEF ViaSave, StripInv, TypeOK
<1>2. hsv' \in Colours /\ Shown(hsv') = Shown(hsv)
  BY <1>1, ShownCapped
<1>3. AllShow(hsv') = AllShow(hsv)
  BY <1>2 DEF AllShow
<1>4. RestTypes'
  BY <1>2 DEF ViaSave, StripInv, TypeOK, RestTypes, calibration
<1>5. LedsInv'
  BY <1>2, <1>3 DEF ViaSave, StripInv, TypeOK, LedsInv, BrownoutCap, DarkWhenDisabled,
                    ShowsConfig, calibration
<1> QED BY <1>4, <1>5, StripFromParts

\* rgblight_init after a power cycle.
LEMMA RebootKeeps ==
    ASSUME StripInv, Reboot
    PROVE  StripInv'
<1>1. stored.hsv \in Colours /\ stored.enable \in BOOLEAN
  BY DEF StripInv, TypeOK
<1>2. hsv' \in Colours
  BY <1>1, ShownCapped DEF Reboot
<1>3. RestTypes'
  BY NamedColours DEF Reboot, StripInv, TypeOK, RestTypes
<1>4. CASE stored.enable
  <2>1. enable' = TRUE /\ leds' = AllShow(hsv')
    BY <1>4 DEF Reboot
  <2>2. LedsInv'
    BY <1>2, <2>1, AllShowType
       DEF LedsInv, BrownoutCap, DarkWhenDisabled, ShowsConfig
  <2> QED BY <1>3, <2>2, StripFromParts
<1>5. CASE ~stored.enable
  <2>1. enable' = FALSE /\ leds' = AllShow(Black)
    BY <1>1, <1>5 DEF Reboot
  <2>2. LedsInv'
    BY <1>2, <2>1, NamedColours, AllShowType
       DEF LedsInv, BrownoutCap, DarkWhenDisabled, ShowsConfig, AllShow
  <2> QED BY <1>3, <2>2, StripFromParts
<1> QED BY <1>4, <1>5

\* Start and end of a calibration.
LEMMA CalibrationKeeps ==
    ASSUME StripInv, StartCalibration \/ EndCalibration
    PROVE  StripInv'
<1>1. hsv \in Colours /\ cal_saved_hsv \in Colours
  BY DEF StripInv, TypeOK
<1>2. CASE StartCalibration
  <2>1. LedsInv'
    BY <1>2, NamedColours, SetHsvKeeps DEF StartCalibration
  <2>2. RestTypes'
    BY <1>1, <1>2 DEF StartCalibration, StripInv, TypeOK, RestTypes
  <2> QED BY <2>1, <2>2, StripFromParts
<1>3. CASE EndCalibration
  <2>1. LedsInv'
    BY <1>1, <1>3, SetHsvKeeps DEF EndCalibration
  <2>2. RestTypes'
    BY <1>3 DEF EndCalibration, StripInv, TypeOK, RestTypes
  <2> QED BY <2>1, <2>2, StripFromParts
<1> QED BY <1>2, <1>3

\* A scan turns keys green only in a calibration and on an enabled strip.
LEMMA ScanLatchKeeps ==
    ASSUME StripInv, NEW deep \in SUBSET AnalogKeys, ScanLatch(deep)
    PROVE  StripInv'
<1>1. Latch(deep) \in SUBSET AnalogKeys
  BY DEF Latch
<1>2. RestTypes'
  BY <1>1 DEF ScanLatch, StripInv, TypeOK, RestTypes
<1>3. \A l \in Leds : leds'[l] = leds[l] \/ leds'[l] = Shown(HSV_GREEN)
  BY DEF ScanLatch
<1>4. leds' \in [Leds -> Colours] /\ BrownoutCap'
  <2>1. Shown(HSV_GREEN) \in Colours /\ Shown(HSV_GREEN).val <= RGBLIGHT_LIMIT_VAL
    BY NamedColours, ShownColour
  <2> QED BY <1>3, <2>1 DEF ScanLatch, StripInv, TypeOK, BrownoutCap
<1>5. ~enable \/ ~he_calibrating => leds' = leds
  BY DEF ScanLatch, Latch, StripInv, TypeOK
<1>6. LedsInv'
  BY <1>4, <1>5 DEF ScanLatch, StripInv, TypeOK, LedsInv, DarkWhenDisabled, ShowsConfig
<1> QED BY <1>2, <1>6, StripFromParts

\* StripInv is an invariant of the strip.
THEOREM StripInvariant == Spec => []StripInv
<1>1. StripInv /\ [Next]_vars => StripInv'
  <2> SUFFICES ASSUME StripInv, [Next]_vars PROVE StripInv'
    OBVIOUS
  <2>1. CASE StartCalibration \/ EndCalibration
    BY <2>1, CalibrationKeeps
  <2>2. CASE \E deep \in SUBSET AnalogKeys : ScanLatch(deep)
    BY <2>2, ScanLatchKeeps
  <2>3. CASE \/ StepHue(RGBLIGHT_HUE_STEP) \/ StepHue(-RGBLIGHT_HUE_STEP)
             \/ StepVal(hsv.val + RGBLIGHT_VAL_STEP)
             \/ StepVal(hsv.val - RGBLIGHT_VAL_STEP)
    BY <2>3, StepKeysKeep
  <2>4. CASE Toggle \/ (\E on \in BOOLEAN : ViaEffect(on)) \/ DeviceIndication
    BY <2>4, SwitchesKeep
  <2>5. CASE (\E v \in 0..MaxVal : ViaBrightness(v)) \/ (\E h \in Hues : ViaColor(h))
    BY <2>5, ViaColoursKeep
  <2>6. CASE ViaSave
    BY <2>6, ViaSaveKeeps
  <2>7. CASE Reboot
    BY <2>7, RebootKeeps
  <2>8. CASE UNCHANGED vars
    BY <2>8 DEF vars, calibration, StripInv, TypeOK, BrownoutCap, DarkWhenDisabled,
                ShowsConfig
  <2> QED BY <2>1, <2>2, <2>3, <2>4, <2>5, <2>6, <2>7, <2>8 DEF Next
<1> QED BY <1>1, LightInit, PTL DEF Spec

\* The supply is never asked for more than the cap of config.h: no command,
\* calibration colour or stored record drives an LED above it.
THEOREM CapHolds == Spec => []BrownoutCap
BY StripInvariant, PTL DEF StripInv

\* A strip that is switched off stays dark.
THEOREM DisabledIsDark == Spec => []DarkWhenDisabled
BY StripInvariant, PTL DEF StripInv

-----------------------------------------------------------------------------
(* What a calibration brings back.                                         *)

\* What he_end_calibration will restore is what was there before.  The strip
\* is red on top of an untouched lighting exactly when it is enabled.
RemembersBefore ==
    /\ ~he_calibrating => untouched = {}
    /\ \A c \in previous : c = cal_saved_hsv
    /\ \A b \in untouched :
          /\ b = [enable |-> enable, hsv |-> cal_saved_hsv, leds |-> b.leds,
                  stored |-> stored]
          /\ enable => b.leds = AllShow(cal_saved_hsv)
          /\ ~enable => cal_saved_hsv = hsv /\ b.leds = leds

\* Every behaviour of the observed strip is one of the strip.
THEOREM LightHistoryRefines == HSpec => Spec
<1>1. HInit => Init
  BY DEF HInit
<1>2. [HNext]_hvars => [Next]_vars
  BY DEF HNext, hvars
<1> QED BY <1>1, <1>2, PTL DEF HSpec, Spec

\* Only he_start_calibration replaces the saved colour of a running
\* calibration, and only it begins one.
LEMMA SavedColourKept ==
    ASSUME StripInv, Next, ~StartCalibration, he_calibrating'
    PROVE  he_calibrating /\ cal_saved_hsv' = cal_saved_hsv
BY DEF Next, ScanLatch, EndCalibration, StepHue, StepVal, Toggle, ViaEffect,
       DeviceIndication, Enable, ViaBrightness, ViaColor, ViaSave, Reboot,
       calibration, StripInv, TypeOK

\* he_start_calibration saves the colour it is about to replace.
LEMMA BeginRemembers ==
    ASSUME StripInv, HNext, ~he_calibrating, he_calibrating'
    PROVE  RemembersBefore'
<1>1. StartCalibration
  BY SavedColourKept DEF HNext
<1>2. /\ previous' = {hsv} /\ untouched' = {Lighting}
      /\ cal_saved_hsv' = hsv /\ enable' = enable /\ stored' = stored
  BY <1>1 DEF HNext, Remember, StartCalibration
<1>3. enable => leds = AllShow(hsv)
  BY DEF StripInv, ShowsConfig
<1>4. ~enable => hsv' = hsv /\ leds' = leds
  BY <1>1 DEF StartCalibration, SetHsv
<1> QED BY <1>2, <1>3, <1>4 DEF RemembersBefore, Lighting

\* A scan changes nothing that is remembered, and no LED of a disabled strip.
LEMMA ScanRemembers ==
    ASSUME StripInv, RemembersBefore, NEW deep \in SUBSET AnalogKeys,
           ScanLatch(deep), untouched' \in {untouched, {}},
           previous' \in {previous, {}}
    PROVE  RemembersBefore'
<1>1. UNCHANGED <<he_calibrating, cal_saved_hsv, enable, hsv, stored>>
  BY DEF ScanLatch
<1>2. ~enable => leds' = leds
  BY DEF ScanLatch, StripInv, TypeOK
<1> QED BY <1>1, <1>2 DEF RemembersBefore

\* Any other step of a running calibration forgets the lighting; a second
\* start or the end of the calibration forgets the colour too.
LEMMA OtherRemembers ==
    ASSUME StripInv, RemembersBefore, HNext, he_calibrating \/ ~he_calibrating',
           ~\E deep \in SUBSET AnalogKeys : ScanLatch(deep)
    PROVE  RemembersBefore'
<1>1. /\ untouched' = {}
      /\ previous' = IF he_calibrating' /\ ~StartCalibration
                     THEN previous ELSE {}
  BY DEF HNext, Remember, StripInv, TypeOK
<1>2. CASE he_calibrating' /\ ~StartCalibration
  <2>1. cal_saved_hsv' = cal_saved_hsv
    BY <1>2, SavedColourKept DEF HNext
  <2> QED BY <1>1, <1>2, <2>1 DEF RemembersBefore
<1>3. CASE ~(he_calibrating' /\ ~StartCalibration)
  BY <1>1, <1>3 DEF RemembersBefore
<1> QED BY <1>2, <1>3

\* What he_end_calibration restores is what was there before it started.
THEOREM BeforeInvariant == HSpec => []RemembersBefore
<1>1. HInit => RemembersBefore
  BY DEF HInit, RemembersBefore
<1>2. StripInv /\ RemembersBefore /\ [HNext]_hvars => RemembersBefore'
  <2> SUFFICES ASSUME StripInv, RemembersBefore, [HNext]_hvars
               PROVE  RemembersBefore'
    OBVIOUS
  <2>1. CASE HNext /\ ~he_calibrating /\ he_calibrating'
    BY <2>1, BeginRemembers
  <2>2. CASE /\ HNext /\ (he_calibrating \/ ~he_calibrating')
             /\ \E deep \in SUBSET AnalogKeys : ScanLatch(deep)
    <3>1. untouched' \in {untouched, {}} /\ previous' \in {previous, {}}
      BY <2>2 DEF HNext, Remember
    <3> QED BY <2>2, <3>1, ScanRemembers
  <2>3. CASE /\ HNext /\ (he_calibrating \/ ~he_calibrating')
             /\ ~\E deep \in SUBSET AnalogKeys : ScanLatch(deep)
    BY <2>3, OtherRemembers
  <2>4. CASE UNCHANGED hvars
    BY <2>4 DEF hvars, vars, calibration, history, RemembersBefore
  <2> QED BY <2>1, <2>2, <2>3, <2>4
<1> QED BY <1>1, <1>2, LightHistoryRefines, StripInvariant, PTL DEF HSpec

\* A calibration started once and ended on an enabled strip brings the colour
\* back on every LED; one that met nothing but scans leaves no trace at all,
\* not even in the stored record.
THEOREM CalibrationRestoresColour == HSpec => CalibrationRestores
<1>1. StripInv /\ RemembersBefore /\ [HNext]_hvars =>
        [he_calibrating /\ EndCalibration =>
           /\ \A c \in previous : enable => hsv' = c /\ leds' = AllShow(c)
           /\ \A before \in untouched : Lighting' = before]_hvars
  <2> SUFFICES ASSUME StripInv, RemembersBefore, he_calibrating, EndCalibration
               PROVE  /\ \A c \in previous : enable => hsv' = c /\ leds' = AllShow(c)
                      /\ \A before \in untouched : Lighting' = before
    OBVIOUS
  <2>1. /\ enable => hsv' = cal_saved_hsv /\ leds' = AllShow(cal_saved_hsv)
        /\ ~enable => hsv' = hsv /\ leds' = leds
        /\ enable' = enable /\ stored' = stored
    BY DEF EndCalibration, SetHsv
  <2>2. \A c \in previous : c = cal_saved_hsv
    BY DEF RemembersBefore
  <2>3. ASSUME NEW b \in untouched PROVE Lighting' = b
    <3>1. /\ b = [enable |-> enable, hsv |-> cal_saved_hsv, leds |-> b.leds,
                  stored |-> stored]
          /\ enable => b.leds = AllShow(cal_saved_hsv)
          /\ ~enable => cal_saved_hsv = hsv /\ b.leds = leds
      BY DEF RemembersBefore
    <3>2. hsv' = cal_saved_hsv /\ leds' = b.leds
      BY <2>1, <3>1
    <3> QED BY <2>1, <3>1, <3>2 DEF Lighting
  <2> QED BY <2>1, <2>2, <2>3
<1> QED BY <1>1, BeforeInvariant, LightHistoryRefines, StripInvariant, PTL
        DEF HSpec, CalibrationRestores
=============================================================================
