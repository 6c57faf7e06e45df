------------------------------- MODULE HEMatrix -------------------------------
(***************************************************************************)
(* The Hall-effect matrix scan of keyboards/icebreaker/he/he_matrix.c.     *)
(*                                                                         *)
(* One Scan step is one call of matrix_scan_custom(): it samples every     *)
(* sensor, feeds boot auto-calibration and a running VIA calibration,      *)
(* converts the reading to travel, runs the press decision of the current  *)
(* actuation mode, debounces, resolves the key-cancel (SOCD) pairs and     *)
(* commits the result to the matrix.  The firmware is one main loop, so    *)
(* the VIA commands and custom keycodes that change mode, thresholds,      *)
(* tuning or calibration run between two scans, each as one step.          *)
(*                                                                         *)
(* Two side effects of these functions belong to other modules: what they  *)
(* persist (HEVia) and the colours they put on the RGB strip (HELight).    *)
(* Nothing here reads either.                                              *)
(***************************************************************************)
EXTENDS HEKey

CONSTANTS
    Keys,                       \* indices of he_sensors[]
    HE_ENC_PUSH_INDEX,          \* the encoder push: a GPIO switch, not analog
    socd_pairs,                 \* set of <<first, second>> key-cancel pairs
    HE_DEBOUNCE,                \* scans that must agree before a key flips
    HE_ADC_REST_SAMPLE_SCANS,   \* scans of the boot rest-sampling window
    ScanCountMod,               \* he_scan_count is a uint32_t: 2^32
    RawValues,                  \* ADC readings the environment may produce
    BootRecords,                \* persisted [actuation, release] records
    BootSettings,               \* persisted [mode, tuning] records
    ThresholdRequests,          \* [actuation, release] a VIA commit may carry
    TuningRequests,             \* tuning bytes a VIA command may carry
    ModeRequests,               \* mode bytes a VIA command may carry
    CalibrationRequests         \* subset of {"start", "end"}

AnalogKeys == Keys \ {HE_ENC_PUSH_INDEX}

ThresholdBytes == [actuation : Byte, release : Byte]
TuningBytes    == [deadzone : Byte, engage : Byte, release_dist : Byte]

ASSUME ScanLimits ==
    /\ HE_DEBOUNCE \in 1..255
    /\ HE_ADC_REST_SAMPLE_SCANS \in Nat \ {0}
    /\ ScanCountMod \in Nat /\ ScanCountMod > HE_ADC_REST_SAMPLE_SCANS

\* The pairs of socd_pairs[] are analog keys and share no key.
ASSUME PairsDisjoint ==
    /\ socd_pairs \subseteq AnalogKeys \X AnalogKeys
    /\ \A p \in socd_pairs : p[1] # p[2]
    /\ \A p, q \in socd_pairs :
          p # q => {p[1], p[2]} \cap {q[1], q[2]} = {}

ASSUME InputBytes ==
    /\ RawValues \subseteq Raw
    /\ BootRecords \subseteq ThresholdBytes
    /\ BootSettings \subseteq [mode : Byte, tuning : TuningBytes]
    /\ ThresholdRequests \subseteq ThresholdBytes
    /\ TuningRequests \subseteq TuningBytes
    /\ ModeRequests \subseteq Byte

VARIABLES
    he_scan_count,              \* uint32_t scan counter
    he_rest_floor,              \* per-sensor resting floor (auto-cal)
    actuation, release,         \* he_config[].actuation / .release
    raw_min, raw_max,           \* he_config[].raw_min / .raw_max
    travel, peak, valley,       \* he_config[].travel / .peak / .valley
    debounce,                   \* he_config[].debounce
    pressed,                    \* he_config[].pressed: reported, post-SOCD
    he_mode, he_tuning,
    he_calibrating,
    he_phys_pressed,            \* instantaneous physical state
    he_debounced,               \* debounced physical state
    socd_winner,                \* per pair: 0, 1 or NoWinner
    raw_matrix,                 \* keys whose bit is set in current_matrix[]
    init_step                   \* where keyboard_init() is, or "running"

settings == <<actuation, release, he_mode, he_tuning>>
spans    == <<raw_min, raw_max>>
pipeline == <<he_scan_count, he_rest_floor, travel, peak, valley, debounce,
              pressed, he_phys_pressed, he_debounced, socd_winner, raw_matrix>>
vars     == <<settings, spans, pipeline, he_calibrating, init_step>>

NoWinner == 255                 \* 0xFF

\* VIA forces bootmagic, so keyboard_init() calls matrix_scan() twice before
\* keyboard_post_init_kb() loads the settings and the main loop begins.
InitSteps == {"scan1", "scan2", "load", "running"}

TypeOK ==
    /\ he_scan_count \in 0..(ScanCountMod - 1)
    /\ he_rest_floor \in [Keys -> Raw]
    /\ actuation \in [Keys -> Actuations]
    /\ release \in [Keys -> Releases]
    /\ raw_min \in [Keys -> Raw]
    /\ raw_max \in [Keys -> RawCeiling]
    /\ travel \in [Keys -> Travel]
    /\ peak \in [Keys -> Travel]
    /\ valley \in [Keys -> Travel]
    /\ debounce \in [Keys -> 0..(HE_DEBOUNCE - 1)]
    /\ pressed \in [Keys -> BOOLEAN]
    /\ he_mode \in Modes
    /\ he_tuning \in Tunings
    /\ he_calibrating \in BOOLEAN
    /\ he_phys_pressed \in [Keys -> BOOLEAN]
    /\ he_debounced \in [Keys -> BOOLEAN]
    /\ socd_winner \in [socd_pairs -> {0, 1, NoWinner}]
    /\ raw_matrix \in SUBSET Keys
    /\ init_step \in InitSteps

-----------------------------------------------------------------------------
(* Boot.  matrix_init_custom() and the static initializers set the defaults. *)

Init ==
    /\ init_step = "scan1"
    /\ actuation = [i \in Keys |-> HE_ACTUATION_DEFAULT]
    /\ release = [i \in Keys |-> HE_RELEASE_DEFAULT]
    /\ he_mode = HE_MODE_RAPID_TRIGGER
    /\ he_tuning = DefaultTuning
    /\ raw_min = [i \in Keys |-> HE_ADC_RAW_MID - HE_ADC_REST_MARGIN]
    /\ raw_max = [i \in Keys |-> HE_ADC_RAW_MID - HE_ADC_REST_MARGIN
                                                + HE_ADC_TRAVEL_SPAN]
    /\ he_rest_floor = [i \in Keys |-> HE_ADC_RAW_MAX]
    /\ travel = [i \in Keys |-> 0]
    /\ peak = [i \in Keys |-> 0]
    /\ valley = [i \in Keys |-> 0]
    /\ debounce = [i \in Keys |-> 0]
    /\ pressed = [i \in Keys |-> FALSE]
    /\ he_phys_pressed = [i \in Keys |-> FALSE]
    /\ he_debounced = [i \in Keys |-> FALSE]
    /\ he_calibrating = FALSE
    /\ he_scan_count = 0
    /\ socd_winner = [p \in socd_pairs |-> NoWinner]
    /\ raw_matrix = {}

-----------------------------------------------------------------------------
(* One scan.  raw is the reading of every analog sensor, push the level of  *)
(* the encoder switch.  Each operator below is one stage of the loop body.  *)

ScanCount == (he_scan_count + 1) % ScanCountMod

\* Boot auto-calibration: the floor is the minimum seen in the window.
RestFloor(i, raw) ==
    IF ScanCount <= HE_ADC_REST_SAMPLE_SCANS
    THEN Smaller(raw[i], he_rest_floor[i])
    ELSE he_rest_floor[i]

\* A running VIA calibration accumulates the observed extremes ...
SampledMin(i, raw) ==
    IF he_calibrating THEN Smaller(raw[i], raw_min[i]) ELSE raw_min[i]

SampledMax(i, raw) ==
    IF he_calibrating THEN Larger(raw[i], raw_max[i]) ELSE raw_max[i]

\* ... and the closing of the rest window overwrites them, after this scan's
\* travel was computed.
LockIn == ScanCount = HE_ADC_REST_SAMPLE_SCANS

NextMin(i, raw) ==
    IF LockIn THEN RestBase(RestFloor(i, raw)) ELSE SampledMin(i, raw)

NextMax(i, raw) ==
    IF LockIn THEN RestBase(RestFloor(i, raw)) + HE_ADC_TRAVEL_SPAN
              ELSE SampledMax(i, raw)

SampledTravel(i, raw) ==
    RawToTravel(SampledMin(i, raw), SampledMax(i, raw), raw[i])

\* he_compute_pressed, rapid trigger, key held: the release condition.
RTRelease(i, t) ==
    \/ t <= he_tuning.deadzone
    \/ Larger(peak[i], t) - t >= he_tuning.release_dist

\* he_compute_pressed, rapid trigger, key not held: the press condition.
RTPress(i, t) ==
    /\ t > he_tuning.deadzone
    /\ \/ t >= actuation[i]
       \/ t - Smaller(valley[i], t) >= he_tuning.engage

\* he_compute_pressed: the new physical state at travel t.
PhysPressed(i, t) ==
    IF he_mode = HE_MODE_RAPID_TRIGGER
    THEN IF he_phys_pressed[i] THEN ~RTRelease(i, t) ELSE RTPress(i, t)
    ELSE IF he_phys_pressed[i] THEN t > release[i] ELSE t >= actuation[i]

NextPeakKept(i, t) ==          \* mutant: a press does not restart the peak
    IF he_mode # HE_MODE_RAPID_TRIGGER THEN peak[i]
    ELSE IF he_phys_pressed[i] \/ RTPress(i, t) THEN Larger(peak[i], t)
    ELSE peak[i]

\* he_compute_pressed: only rapid trigger moves the two extremes.
NextPeak(i, t) ==
    IF he_mode # HE_MODE_RAPID_TRIGGER THEN peak[i]
    ELSE IF he_phys_pressed[i] THEN Larger(peak[i], t)
    ELSE IF RTPress(i, t) THEN t ELSE peak[i]

NextValleyKept(i, t) ==        \* mutant: a release does not restart the valley
    IF he_mode # HE_MODE_RAPID_TRIGGER \/ he_phys_pressed[i]
    THEN valley[i] ELSE Smaller(valley[i], t)

NextValley(i, t) ==
    IF he_mode # HE_MODE_RAPID_TRIGGER THEN valley[i]
    ELSE IF he_phys_pressed[i]
         THEN IF RTRelease(i, t) THEN t ELSE valley[i]
         ELSE Smaller(valley[i], t)

NextPhys(i, raw, push) ==
    IF i = HE_ENC_PUSH_INDEX THEN push ELSE PhysPressed(i, SampledTravel(i, raw))

ConfirmedLate(i) == debounce[i] + 1 > HE_DEBOUNCE    \* mutant: off by one

\* Symmetric N-sample debounce.
Confirmed(i) == debounce[i] + 1 >= HE_DEBOUNCE

NextDebounced(i, phys) ==
    IF phys # he_debounced[i] /\ Confirmed(i)
    THEN phys ELSE he_debounced[i]

NextDebounceNoReset(i, phys) == \* mutant: agreement does not clear the counter
    IF phys # he_debounced[i]
    THEN IF Confirmed(i) THEN 0 ELSE debounce[i] + 1
    ELSE debounce[i]

NextDebouncePress(i, phys) ==   \* mutant: only the press edge is counted
    IF phys /\ ~he_debounced[i] /\ ~Confirmed(i) THEN debounce[i] + 1 ELSE 0

NextDebounceRelease(i, phys) == \* mutant: only the release edge is counted
    IF ~phys /\ he_debounced[i] /\ ~Confirmed(i) THEN debounce[i] + 1 ELSE 0

NextDebounce(i, phys) ==
    IF phys # he_debounced[i] /\ ~Confirmed(i)
    THEN debounce[i] + 1 ELSE 0

\* Key-cancel resolution of one pair, from the debounced states deb and the
\* travels t of this scan.
NewlyPressed(i, deb) == deb[i] /\ ~he_debounced[i]

NextWinnerFirst(p, deb, t) ==   \* mutant: the first input wins
    IF he_mode # HE_MODE_KEY_CANCEL THEN socd_winner[p]
    ELSE IF ~deb[p[1]] /\ ~deb[p[2]] THEN NoWinner
    ELSE IF socd_winner[p] # NoWinner THEN socd_winner[p]
    ELSE IF NewlyPressed(p[1], deb) THEN 0
    ELSE IF NewlyPressed(p[2], deb) THEN 1
    ELSE NoWinner

NextWinnerDeeper(p, deb, t) ==  \* mutant: the tie-break is not limited to edges
    IF he_mode # HE_MODE_KEY_CANCEL THEN socd_winner[p]
    ELSE IF ~deb[p[1]] /\ ~deb[p[2]] THEN NoWinner
    ELSE IF t[p[1]] >= t[p[2]] THEN 0 ELSE 1

NextWinner(p, deb, t) ==
    IF he_mode # HE_MODE_KEY_CANCEL THEN socd_winner[p]
    ELSE IF ~deb[p[1]] /\ ~deb[p[2]] THEN NoWinner
    ELSE IF NewlyPressed(p[1], deb) /\ NewlyPressed(p[2], deb)
         THEN IF t[p[1]] >= t[p[2]] THEN 0 ELSE 1
    ELSE IF NewlyPressed(p[1], deb) THEN 0
    ELSE IF NewlyPressed(p[2], deb) THEN 1
    ELSE socd_winner[p]

SuppressedNoColdStart(i, deb, winner) == \* mutant: no loser without a winner
    /\ he_mode = HE_MODE_KEY_CANCEL
    /\ \E p \in socd_pairs :
          /\ deb[p[1]] /\ deb[p[2]]
          /\ \/ winner[p] = 1 /\ i = p[1]
             \/ winner[p] = 0 /\ i = p[2]

Suppressed(i, deb, winner) ==
    /\ he_mode = HE_MODE_KEY_CANCEL
    /\ \E p \in socd_pairs :
          /\ deb[p[1]] /\ deb[p[2]]
          /\ i = IF winner[p] = 1 THEN p[1] ELSE p[2]

\* bootmagic_scan() calls matrix_scan() twice, the main loop then for ever.
\* (bootmagic_should_reset() is overridden to decline.)
AfterScan == CASE init_step = "scan1" -> "scan2"
               [] init_step = "scan2" -> "load"
               [] OTHER               -> "running"

Scan(raw, push) ==
    /\ init_step # "load" /\ init_step' = AfterScan
    /\ he_scan_count' = ScanCount
    /\ he_rest_floor' = [i \in Keys |-> IF i \in AnalogKeys
                            THEN RestFloor(i, raw) ELSE he_rest_floor[i]]
    /\ raw_min' = [i \in Keys |-> IF i \in AnalogKeys
                            THEN NextMin(i, raw) ELSE raw_min[i]]
    /\ raw_max' = [i \in Keys |-> IF i \in AnalogKeys
                            THEN NextMax(i, raw) ELSE raw_max[i]]
    /\ travel' = [i \in Keys |-> IF i \in AnalogKeys
                            THEN SampledTravel(i, raw) ELSE travel[i]]
    /\ peak' = [i \in Keys |-> IF i \in AnalogKeys
                            THEN NextPeak(i, travel'[i]) ELSE peak[i]]
    /\ valley' = [i \in Keys |-> IF i \in AnalogKeys
                            THEN NextValley(i, travel'[i]) ELSE valley[i]]
    /\ he_phys_pressed' = [i \in Keys |-> NextPhys(i, raw, push)]
    /\ he_debounced' = [i \in Keys |-> NextDebounced(i, he_phys_pressed'[i])]
    /\ debounce' = [i \in Keys |-> NextDebounce(i, he_phys_pressed'[i])]
    /\ socd_winner' = [p \in socd_pairs |->
                            NextWinner(p, he_debounced', travel')]
    /\ pressed' = [i \in Keys |->
                      /\ he_debounced'[i]
                      /\ ~Suppressed(i, he_debounced', socd_winner')]
    /\ raw_matrix' = {i \in Keys : pressed'[i]}
    /\ UNCHANGED <<settings, he_calibrating>>

MatrixScan == \E raw \in [AnalogKeys -> RawValues], push \in BOOLEAN :
                  Scan(raw, push)

\* A persisted mode byte that is no mode leaves the mode as it is.
LoadedMode(m) == IF m \in Modes THEN m ELSE he_mode

\* he_load_from_eeprom: the persisted bytes are clamped; a data block that is
\* not valid leaves the defaults in force.
LoadFromEeprom ==
    /\ init_step = "load" /\ init_step' = "running"
    /\ \/ UNCHANGED settings
       \/ \E rec \in [Keys -> BootRecords], s \in BootSettings :
             /\ actuation' = [i \in Keys |-> ClampActuation(rec[i].actuation)]
             /\ release'   = [i \in Keys |-> ClampRelease(rec[i].release)]
             /\ he_mode'   = LoadedMode(s.mode)
             /\ he_tuning' = ClampTuning(s.tuning)
    /\ UNCHANGED <<spans, pipeline, he_calibrating>>

-----------------------------------------------------------------------------
(* Commands, between scans of the main loop.                               *)

Running == init_step = "running" /\ UNCHANGED init_step

\* he_set_mode: an unknown mode is ignored.
SetMode(m) ==
    /\ Running
    /\ m <= HE_MODE_KEY_CANCEL
    /\ he_mode' = m
    /\ UNCHANGED <<actuation, release, he_tuning, spans, pipeline,
                   he_calibrating>>

\* he_set_actuation + he_set_release, as he_via_commit_thresholds calls them.
SetThresholds(t) ==
    /\ Running
    /\ actuation' = [i \in Keys |-> ClampActuation(t.actuation)]
    /\ release' = [i \in Keys |-> ClampRelease(t.release)]
    /\ UNCHANGED <<he_mode, he_tuning, spans, pipeline, he_calibrating>>

\* he_set_deadzone / he_set_engage / he_set_release_dist: one field each.
SetTuning(t) ==
    /\ Running
    /\ \E field \in DOMAIN t :
          he_tuning' = [he_tuning EXCEPT ![field] = ClampTuning(t)[field]]
    /\ UNCHANGED <<actuation, release, he_mode, spans, pipeline,
                   he_calibrating>>

StartCalibration ==
    /\ Running
    /\ "start" \in CalibrationRequests
    /\ he_calibrating' = TRUE
    /\ raw_min' = [i \in Keys |-> IF i \in AnalogKeys
                                  THEN HE_ADC_RAW_MAX ELSE raw_min[i]]
    /\ raw_max' = [i \in Keys |-> IF i \in AnalogKeys THEN 0 ELSE raw_max[i]]
    /\ UNCHANGED <<settings, pipeline>>

SpanRejectedEmpty(i) == raw_max[i] < raw_min[i]   \* mutant: only no-sample spans

\* A span below the minimum is rejected in favour of the boot rest floor (or
\* of mid-scale, when no floor was ever measured).
SpanRejected(i) == raw_max[i] - raw_min[i] < HE_ADC_MIN_SPAN

FallbackBase(i) == IF he_rest_floor[i] < HE_ADC_RAW_MAX
                   THEN RestBase(he_rest_floor[i]) ELSE HE_ADC_RAW_MID

EndCalibration ==
    /\ Running
    /\ "end" \in CalibrationRequests
    /\ he_calibrating' = FALSE
    /\ raw_min' = [i \in Keys |-> IF i \in AnalogKeys /\ SpanRejected(i)
                                  THEN FallbackBase(i) ELSE raw_min[i]]
    /\ raw_max' = [i \in Keys |-> IF i \in AnalogKeys /\ SpanRejected(i)
                                  THEN FallbackBase(i) + HE_ADC_TRAVEL_SPAN
                                  ELSE raw_max[i]]
    /\ UNCHANGED <<settings, pipeline>>

Next ==
    \/ MatrixScan
    \/ LoadFromEeprom
    \/ \E m \in ModeRequests : SetMode(m)
    \/ \E t \in ThresholdRequests : SetThresholds(t)
    \/ \E t \in TuningRequests : SetTuning(t)
    \/ StartCalibration
    \/ EndCalibration

Spec == Init /\ [][Next]_vars

\* keyboard_init() runs through and the main loop never stops scanning.
Fairness == WF_vars(MatrixScan) /\ WF_vars(LoadFromEeprom)

FairSpec == Spec /\ Fairness

-----------------------------------------------------------------------------
(* Properties.                                                             *)

\* A step of the main loop that ran matrix_scan_custom().
ScanStep == he_scan_count' # he_scan_count

Held(p)     == he_debounced[p[1]] /\ he_debounced[p[2]]
Partner(p, i) == IF i = p[1] THEN p[2] ELSE p[1]

\* Between scans the debounce counter runs exactly while the instantaneous
\* state disagrees with the stable one, so a disagreement that ends early
\* leaves no residue for the next one to inherit (the `else` reset of
\* matrix_scan_custom).
DebounceCountsDisagreement ==
    \A i \in Keys : debounce[i] > 0 <=> he_phys_pressed[i] # he_debounced[i]

\* Outside a calibration every analog key has a usable span: whatever order
\* boot lock-in, start, end and scans come in, he_raw_to_travel never divides
\* a span smaller than HE_ADC_MIN_SPAN (he_end_calibration's rejection).
CalibratedSpanUsable ==
    ~he_calibrating =>
        \A i \in AnalogKeys : raw_max[i] - raw_min[i] >= HE_ADC_MIN_SPAN

\* After a key-cancel scan, a pair with any key held reports exactly one of
\* them: never both, and never neither (suppression never loses the pair).
SocdExactlyOne ==
    [][ScanStep /\ he_mode = HE_MODE_KEY_CANCEL =>
         \A p \in socd_pairs :
            (he_debounced'[p[1]] \/ he_debounced'[p[2]]) =>
                (pressed'[p[1]] # pressed'[p[2]])]_vars

\* "Last input wins": in key-cancel mode, a key whose debounced state rises
\* while its partner is held takes the output in that very scan.
SocdLatestWins ==
    [][ScanStep /\ he_mode = HE_MODE_KEY_CANCEL =>
         \A p \in socd_pairs : \A i \in {p[1], p[2]} :
            LET j == Partner(p, i) IN
            ~he_debounced[i] /\ he_debounced'[i] /\ he_debounced[j]
                             /\ he_debounced'[j]
               => pressed'[i] /\ ~pressed'[j]]_vars

\* The key-cancel loser does not flicker: while both keys stay held and one of
\* them owns the output, no step of any kind hands it to the other as long as
\* the mode is key cancel.
SocdOwnerKeepsOutput ==
    [][he_mode = HE_MODE_KEY_CANCEL =>
         \A p \in socd_pairs :
            Held(p) /\ Held(p)' /\ pressed[p[1]] # pressed[p[2]]
               => pressed'[p[1]] = pressed[p[1]]
                  /\ pressed'[p[2]] = pressed[p[2]]]_vars

\* No key sticks: an analog key whose travel stays in every mode's release
\* band is eventually, and for good, out of the matrix.
NoStuckKey ==
    \A i \in AnalogKeys :
        <>[](travel[i] <= HE_RELEASE_MIN /\ travel[i] <= HE_DEADZONE_MIN)
            => <>[](i \notin raw_matrix)

\* A key kept at the bottom is eventually reported in every mode and with any
\* thresholds and tuning, unless its key-cancel partner holds the output.
BottomedOutKeyReported ==
    \A i \in AnalogKeys :
        <>[](travel[i] = 100) =>
            <>[](\/ i \in raw_matrix
                 \/ \E p \in socd_pairs : /\ i \in {p[1], p[2]}
                                          /\ Partner(p, i) \in raw_matrix)

\* Hysteresis: in normal mode a key kept at or beyond its actuation point is
\* eventually reported, for good, as long as its release threshold is the lower
\* of the two.  (The setters clamp the two independently, so a host may store
\* release >= actuation; a key held between them then flips on every scan.)
HeldKeyReported ==
    \A i \in AnalogKeys :
        <>[](/\ he_mode = HE_MODE_NORMAL
             /\ release[i] < actuation[i] /\ actuation[i] <= travel[i])
            => <>[](i \in raw_matrix)

\* Rapid trigger settles: once travel and settings stop moving in RT mode, the
\* physical state stops flipping.  A press restarts the peak and a release the
\* valley, so neither inherits the drop or the rise that ended the other.
RapidTriggerSettles ==
    <>[][UNCHANGED <<travel, settings>>]_vars /\ <>[](he_mode = HE_MODE_RAPID_TRIGGER)
        => \A i \in AnalogKeys :
              <>[](he_phys_pressed[i]) \/ <>[](~he_phys_pressed[i])

=============================================================================
