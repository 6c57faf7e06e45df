-------------------------------- MODULE HEKey --------------------------------
(***************************************************************************)
(* The pure arithmetic of the Icebreaker HE key pipeline                   *)
(* (keyboards/icebreaker/he/he_matrix.c): the limits of config.h, the      *)
(* clamp every setter goes through, the ADC -> travel conversion, and the  *)
(* resting base that boot auto-calibration and he_end_calibration() use.   *)
(***************************************************************************)
EXTENDS Integers

CONSTANTS
    HE_ACTUATION_MIN, HE_ACTUATION_MAX,
    HE_RELEASE_MIN, HE_RELEASE_MAX,
    HE_DEADZONE_MIN, HE_DEADZONE_MAX,
    HE_ENGAGE_MIN, HE_ENGAGE_MAX,
    HE_RELEASE_DIST_MIN, HE_RELEASE_DIST_MAX,
    HE_ACTUATION_DEFAULT, HE_RELEASE_DEFAULT,
    HE_DEADZONE_DEFAULT, HE_ENGAGE_DEFAULT, HE_RELEASE_DIST_DEFAULT,
    HE_ADC_RAW_MAX,             \* full scale of the 12-bit ADC
    HE_ADC_REST_MARGIN,         \* counts subtracted from a measured rest floor
    HE_ADC_TRAVEL_SPAN,         \* counts of a full press
    HE_ADC_MIN_SPAN             \* smallest plausible calibrated span

HE_ADC_RAW_MID == (HE_ADC_RAW_MAX + 1) \div 2

\* The thresholds are percentages of travel and every range is inhabited.
ASSUME ThresholdLimits ==
    /\ HE_ACTUATION_MIN \in 1..100 /\ HE_ACTUATION_MAX \in HE_ACTUATION_MIN..99
    /\ HE_RELEASE_MIN \in 1..100   /\ HE_RELEASE_MAX \in HE_RELEASE_MIN..99
    /\ HE_DEADZONE_MIN \in 1..100  /\ HE_DEADZONE_MAX \in HE_DEADZONE_MIN..99
    /\ HE_ENGAGE_MIN \in 1..100    /\ HE_ENGAGE_MAX \in HE_ENGAGE_MIN..100
    /\ HE_RELEASE_DIST_MIN \in 1..100
    /\ HE_RELEASE_DIST_MAX \in HE_RELEASE_DIST_MIN..100

\* A rest floor plus a full press stays a 16-bit number, and the span that
\* auto-calibration installs is itself plausible.
ASSUME AdcLimits ==
    /\ HE_ADC_RAW_MAX \in Nat \ {0}
    /\ HE_ADC_REST_MARGIN \in 0..HE_ADC_RAW_MID
    /\ HE_ADC_TRAVEL_SPAN \in Nat \ {0}
    /\ HE_ADC_MIN_SPAN \in 1..HE_ADC_TRAVEL_SPAN
    /\ HE_ADC_RAW_MAX + HE_ADC_TRAVEL_SPAN < 65536

-----------------------------------------------------------------------------
\* he_actuation_mode_t
HE_MODE_NORMAL        == 0
HE_MODE_RAPID_TRIGGER == 1
HE_MODE_KEY_CANCEL    == 2
Modes == {HE_MODE_NORMAL, HE_MODE_RAPID_TRIGGER, HE_MODE_KEY_CANCEL}

Byte       == 0..255
Travel     == 0..100
Actuations == HE_ACTUATION_MIN..HE_ACTUATION_MAX
Releases   == HE_RELEASE_MIN..HE_RELEASE_MAX
Raw        == 0..HE_ADC_RAW_MAX
RawCeiling == 0..(HE_ADC_RAW_MAX + HE_ADC_TRAVEL_SPAN)

Tunings == [deadzone     : HE_DEADZONE_MIN..HE_DEADZONE_MAX,
            engage       : HE_ENGAGE_MIN..HE_ENGAGE_MAX,
            release_dist : HE_RELEASE_DIST_MIN..HE_RELEASE_DIST_MAX]

ASSUME DefaultsInRange ==
    /\ HE_ACTUATION_DEFAULT \in Actuations
    /\ HE_RELEASE_DEFAULT \in Releases
    /\ HE_DEADZONE_DEFAULT \in HE_DEADZONE_MIN..HE_DEADZONE_MAX
    /\ HE_ENGAGE_DEFAULT \in HE_ENGAGE_MIN..HE_ENGAGE_MAX
    /\ HE_RELEASE_DIST_DEFAULT \in HE_RELEASE_DIST_MIN..HE_RELEASE_DIST_MAX

\* The static initializer of he_tuning.
DefaultTuning == [deadzone     |-> HE_DEADZONE_DEFAULT,
                  engage       |-> HE_ENGAGE_DEFAULT,
                  release_dist |-> HE_RELEASE_DIST_DEFAULT]

Larger(a, b)  == IF a >= b THEN a ELSE b
Smaller(a, b) == IF a <= b THEN a ELSE b

\* he_clamp_u8
Clamp(value, lo, hi) ==
    IF value < lo THEN lo ELSE IF value > hi THEN hi ELSE value

ClampActuation(v) == Clamp(v, HE_ACTUATION_MIN, HE_ACTUATION_MAX)
ClampRelease(v)   == Clamp(v, HE_RELEASE_MIN, HE_RELEASE_MAX)
ClampTuning(t)    ==
    [deadzone     |-> Clamp(t.deadzone, HE_DEADZONE_MIN, HE_DEADZONE_MAX),
     engage       |-> Clamp(t.engage, HE_ENGAGE_MIN, HE_ENGAGE_MAX),
     release_dist |-> Clamp(t.release_dist, HE_RELEASE_DIST_MIN,
                                            HE_RELEASE_DIST_MAX)]

\* he_raw_to_travel. C division truncates and \div rounds down; they differ
\* only below zero, where both end in the clamp to 0.
RawToTravel(min, max, raw) ==
    LET span == IF max > min THEN max - min ELSE 1
    IN  Clamp(((raw - min) * 100) \div span, 0, 100)

\* The resting base both calibrations derive from a measured floor.
RestBase(floor) ==
    IF floor > HE_ADC_REST_MARGIN THEN floor - HE_ADC_REST_MARGIN ELSE 0

=============================================================================
