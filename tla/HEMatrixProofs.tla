--------------------------- MODULE HEMatrixProofs ---------------------------
(***************************************************************************)
(* Proofs about HEMatrix, for every set of keys, every table of key-cancel *)
(* pairs and every value of the limits that satisfies the assumptions; and *)
(* about sequences of scans: what the debounce and the rapid trigger       *)
(* extremes of he_matrix.c remember is what an observer of the readings    *)
(* would have remembered (the history variables of HEMatrixHistory).       *)
(***************************************************************************)
EXTENDS HEMatrixHistory, TLAPS

-----------------------------------------------------------------------------
(* The arithmetic of HEKey.                                                *)

\* he_clamp_u8 returns a value of the range it is given.
LEMMA ClampRange ==
    ASSUME NEW v \in Int, NEW lo \in Int, NEW hi \in Int, lo <= hi
    PROVE  Clamp(v, lo, hi) \in lo..hi
BY DEF Clamp

\* The setters of he_matrix.c store thresholds of their documented ranges.
LEMMA ClampThresholds ==
    ASSUME NEW v \in Byte
    PROVE  ClampActuation(v) \in Actuations /\ ClampRelease(v) \in Releases
BY ThresholdLimits
   DEF ClampActuation, ClampRelease, Clamp, Actuations, Releases, Byte

\* The three tuning setters keep each field in its range.
LEMMA ClampTuningType ==
    ASSUME NEW t \in TuningBytes
    PROVE  ClampTuning(t) \in Tunings
BY ThresholdLimits DEF ClampTuning, Clamp, Tunings, TuningBytes, Byte

\* he_raw_to_travel yields a percentage, also for the inverted span that
\* he_start_calibration installs.
LEMMA RawToTravelRange ==
    ASSUME NEW min \in Nat, NEW max \in Nat, NEW raw \in Nat
    PROVE  RawToTravel(min, max, raw) \in Travel
<1> DEFINE span == IF max > min THEN max - min ELSE 1
<1> DEFINE pct == ((raw - min) * 100) \div span
<1>1. span \in Nat \ {0}
  OBVIOUS
<1>2. (raw - min) * 100 \in Int
  OBVIOUS
<1>3. pct \in Int
  <2> HIDE DEF span
  <2> QED BY <1>1, <1>2
<1>4. Clamp(pct, 0, 100) \in Travel
  <2> HIDE DEF pct
  <2> QED BY <1>3 DEF Clamp, Travel
<1> QED BY <1>4 DEF RawToTravel

\* A measured floor gives a base that leaves room for a full press.
LEMMA RestBaseRange ==
    ASSUME NEW floor \in Raw
    PROVE  /\ RestBase(floor) \in Raw
           /\ RestBase(floor) + HE_ADC_TRAVEL_SPAN \in RawCeiling
BY AdcLimits DEF RestBase, Raw, RawCeiling, HE_ADC_RAW_MID

-----------------------------------------------------------------------------
(* Type correctness.  One lemma per group of variables a scan updates.     *)

\* he_scan_count stays a counter below ScanCountMod.
LEMMA ScanCountType ==
    ASSUME TypeOK
    PROVE  ScanCount \in 0..(ScanCountMod - 1)
BY ScanLimits DEF ScanCount, TypeOK

\* The sampling stage: rest floor, accumulated span, travel.
LEMMA SampleTypes ==
    ASSUME TypeOK, NEW i \in AnalogKeys, NEW raw \in [AnalogKeys -> RawValues]
    PROVE  /\ RestFloor(i, raw) \in Raw
           /\ SampledMin(i, raw) \in Raw
           /\ SampledMax(i, raw) \in RawCeiling
           /\ NextMin(i, raw) \in Raw
           /\ NextMax(i, raw) \in RawCeiling
           /\ SampledTravel(i, raw) \in Travel
<1>1. raw[i] \in Raw /\ i \in Keys
  BY InputBytes DEF AnalogKeys
<1>2. RestFloor(i, raw) \in Raw
  BY <1>1 DEF RestFloor, Smaller, TypeOK
<1>3. SampledMin(i, raw) \in Raw
  BY <1>1 DEF SampledMin, Smaller, TypeOK
<1>4. SampledMax(i, raw) \in RawCeiling
  BY <1>1, AdcLimits DEF SampledMax, Larger, TypeOK, Raw, RawCeiling
<1>5. NextMin(i, raw) \in Raw
  BY <1>2, <1>3, RestBaseRange DEF NextMin
<1>6. NextMax(i, raw) \in RawCeiling
  BY <1>2, <1>4, RestBaseRange DEF NextMax
<1>7. SampledTravel(i, raw) \in Travel
  <2>1. SampledMin(i, raw) \in Nat /\ SampledMax(i, raw) \in Nat /\ raw[i] \in Nat
    BY <1>1, <1>3, <1>4 DEF Raw, RawCeiling
  <2> QED BY <2>1, RawToTravelRange DEF SampledTravel
<1> QED BY <1>2, <1>3, <1>4, <1>5, <1>6, <1>7

\* he_compute_pressed keeps the extremes percentages.
LEMMA ExtremeTypes ==
    ASSUME TypeOK, NEW i \in Keys, NEW t \in Travel
    PROVE  NextPeak(i, t) \in Travel /\ NextValley(i, t) \in Travel
BY DEF NextPeak, NextValley, Larger, Smaller, TypeOK

\* The debounce counter stays below HE_DEBOUNCE.
LEMMA DebounceTypes ==
    ASSUME TypeOK, NEW i \in Keys, NEW phys \in BOOLEAN
    PROVE  /\ NextDebounced(i, phys) \in BOOLEAN
           /\ NextDebounce(i, phys) \in 0..(HE_DEBOUNCE - 1)
<1>1. debounce[i] \in 0..(HE_DEBOUNCE - 1) /\ he_debounced[i] \in BOOLEAN
  BY DEF TypeOK
<1>2. NextDebounced(i, phys) \in BOOLEAN
  BY <1>1, Zenon DEF NextDebounced
<1>3. NextDebounce(i, phys) \in 0..(HE_DEBOUNCE - 1)
  BY <1>1, ScanLimits DEF NextDebounce, Confirmed
<1> QED BY <1>2, <1>3

\* matrix_init_custom() and the static initializers leave a well-typed state.
LEMMA InitType == Init => TypeOK
<1> SUFFICES ASSUME Init PROVE TypeOK
  OBVIOUS
<1>1. actuation \in [Keys -> Actuations] /\ release \in [Keys -> Releases]
  BY DefaultsInRange DEF Init
<1>2. he_mode \in Modes /\ he_tuning \in Tunings
  BY DefaultsInRange DEF Init, Modes, DefaultTuning, Tunings
<1>3. /\ HE_ADC_RAW_MID - HE_ADC_REST_MARGIN \in Raw
      /\ HE_ADC_RAW_MID - HE_ADC_REST_MARGIN + HE_ADC_TRAVEL_SPAN \in RawCeiling
      /\ HE_ADC_RAW_MAX \in Raw
  BY AdcLimits DEF HE_ADC_RAW_MID, Raw, RawCeiling
<1>4. /\ he_scan_count \in 0..(ScanCountMod - 1)
      /\ debounce \in [Keys -> 0..(HE_DEBOUNCE - 1)]
  BY ScanLimits DEF Init
<1>5. /\ raw_min \in [Keys -> Raw] /\ raw_max \in [Keys -> RawCeiling]
      /\ he_rest_floor \in [Keys -> Raw]
  BY <1>3 DEF Init
<1>6. /\ travel \in [Keys -> Travel] /\ peak \in [Keys -> Travel]
      /\ valley \in [Keys -> Travel]
  BY DEF Init, Travel
<1>7. /\ pressed \in [Keys -> BOOLEAN] /\ he_phys_pressed \in [Keys -> BOOLEAN]
      /\ he_debounced \in [Keys -> BOOLEAN] /\ he_calibrating \in BOOLEAN
      /\ socd_winner \in [socd_pairs -> {0, 1, NoWinner}]
      /\ raw_matrix \in SUBSET Keys /\ init_step \in InitSteps
  BY DEF Init, InitSteps
<1> QED BY <1>1, <1>2, <1>4, <1>5, <1>6, <1>7 DEF TypeOK

\* The physical state is a Boolean in every mode.
LEMMA PhysType ==
    ASSUME TypeOK, NEW i \in Keys, NEW raw \in [AnalogKeys -> RawValues],
           NEW push \in BOOLEAN
    PROVE  NextPhys(i, raw, push) \in BOOLEAN
<1>1. ASSUME NEW t \in Travel PROVE PhysPressed(i, t) \in BOOLEAN
  <2>1. RTRelease(i, t) \in BOOLEAN /\ RTPress(i, t) \in BOOLEAN
    BY DEF RTRelease, RTPress
  <2>2. (t > release[i]) \in BOOLEAN /\ (t >= actuation[i]) \in BOOLEAN
    <3>1. release \in [Keys -> Releases] /\ actuation \in [Keys -> Actuations]
      BY DEF TypeOK
    <3>2. release[i] \in Int /\ actuation[i] \in Int /\ t \in Int
      BY <3>1, ThresholdLimits DEF Actuations, Releases, Travel
    <3> QED BY <3>2
  <2> QED BY <2>1, <2>2, Zenon DEF PhysPressed
<1>2. i # HE_ENC_PUSH_INDEX => SampledTravel(i, raw) \in Travel
  BY SampleTypes DEF AnalogKeys
<1> QED BY <1>1, <1>2 DEF NextPhys

\* One scan preserves the types, stage by stage.
LEMMA ScanType ==
    ASSUME TypeOK, NEW raw \in [AnalogKeys -> RawValues], NEW push \in BOOLEAN,
           Scan(raw, push)
    PROVE  TypeOK'
<1>1. he_scan_count' \in 0..(ScanCountMod - 1)
  BY ScanCountType DEF Scan
<1>2. /\ he_rest_floor' \in [Keys -> Raw]
      /\ raw_min' \in [Keys -> Raw]
      /\ raw_max' \in [Keys -> RawCeiling]
  BY SampleTypes DEF Scan, TypeOK
<1>3. travel' \in [Keys -> Travel]
  BY SampleTypes DEF Scan, TypeOK
<1>4. peak' \in [Keys -> Travel] /\ valley' \in [Keys -> Travel]
  <2>1. \A i \in Keys : travel'[i] \in Travel
    BY <1>3
  <2>2. \A i \in Keys : /\ NextPeak(i, travel'[i]) \in Travel
                        /\ NextValley(i, travel'[i]) \in Travel
    BY <2>1, ExtremeTypes
  <2>3. /\ peak' = [i \in Keys |-> IF i \in AnalogKeys
                                   THEN NextPeak(i, travel'[i]) ELSE peak[i]]
        /\ valley' = [i \in Keys |-> IF i \in AnalogKeys
                                   THEN NextValley(i, travel'[i]) ELSE valley[i]]
    BY DEF Scan
  <2> QED BY <2>2, <2>3 DEF TypeOK
<1>5. he_phys_pressed' \in [Keys -> BOOLEAN]
  BY PhysType DEF Scan
<1>6. /\ he_debounced' \in [Keys -> BOOLEAN]
      /\ debounce' \in [Keys -> 0..(HE_DEBOUNCE - 1)]
  <2>1. \A i \in Keys :
           /\ NextDebounced(i, he_phys_pressed'[i]) \in BOOLEAN
           /\ NextDebounce(i, he_phys_pressed'[i]) \in 0..(HE_DEBOUNCE - 1)
    BY <1>5, DebounceTypes
  <2> QED BY <2>1 DEF Scan
<1>7. socd_winner' \in [socd_pairs -> {0, 1, NoWinner}]
  <2>1. \A p \in socd_pairs :
           NextWinner(p, he_debounced', travel') \in {0, 1, NoWinner}
    BY DEF NextWinner, TypeOK
  <2> QED BY <2>1 DEF Scan
<1>8. pressed' \in [Keys -> BOOLEAN] /\ raw_matrix' \in SUBSET Keys
  BY DEF Scan
<1>9. /\ actuation' \in [Keys -> Actuations] /\ release' \in [Keys -> Releases]
      /\ he_mode' \in Modes /\ he_tuning' \in Tunings
      /\ he_calibrating' \in BOOLEAN
  BY DEF Scan, TypeOK, settings
<1>10. init_step' \in InitSteps
  BY DEF Scan, AfterScan, InitSteps
<1> QED BY <1>1, <1>2, <1>3, <1>4, <1>5, <1>6, <1>7, <1>8, <1>9,
           <1>10 DEF TypeOK

\* he_load_from_eeprom() clamps whatever bytes the data block holds.
LEMMA LoadType ==
    ASSUME TypeOK, LoadFromEeprom
    PROVE  TypeOK'
<1> USE DEF settings, spans, pipeline
<1>1. init_step' \in InitSteps
  BY DEF LoadFromEeprom, InitSteps
<1>2. CASE UNCHANGED settings
  BY <1>1, <1>2 DEF LoadFromEeprom, TypeOK
<1>3. CASE ~UNCHANGED settings
  <2>1. PICK rec \in [Keys -> BootRecords], s \in BootSettings :
           /\ actuation' = [i \in Keys |-> ClampActuation(rec[i].actuation)]
           /\ release'   = [i \in Keys |-> ClampRelease(rec[i].release)]
           /\ he_mode'   = LoadedMode(s.mode)
           /\ he_tuning' = ClampTuning(s.tuning)
    BY <1>3 DEF LoadFromEeprom
  <2>2. \A i \in Keys : rec[i].actuation \in Byte /\ rec[i].release \in Byte
    BY InputBytes DEF ThresholdBytes
  <2>3. actuation' \in [Keys -> Actuations] /\ release' \in [Keys -> Releases]
    BY <2>1, <2>2, ClampThresholds
  <2>4. he_mode' \in Modes
    BY <2>1 DEF LoadedMode, TypeOK
  <2>5. he_tuning' \in Tunings
    BY <2>1, InputBytes, ClampTuningType
  <2> QED BY <1>1, <2>3, <2>4, <2>5 DEF LoadFromEeprom, TypeOK
<1> QED BY <1>2, <1>3

\* Every command preserves the types.
LEMMA CommandType ==
    ASSUME TypeOK
    PROVE  /\ \A m \in ModeRequests : SetMode(m) => TypeOK'
           /\ \A t \in ThresholdRequests : SetThresholds(t) => TypeOK'
           /\ \A t \in TuningRequests : SetTuning(t) => TypeOK'
           /\ StartCalibration => TypeOK'
           /\ EndCalibration => TypeOK'
<1> USE DEF settings, spans, pipeline, Running
<1>1. ASSUME NEW m \in ModeRequests, SetMode(m) PROVE TypeOK'
  <2>1. m \in Modes
    BY <1>1, InputBytes
       DEF SetMode, Modes, Byte, HE_MODE_NORMAL, HE_MODE_RAPID_TRIGGER,
           HE_MODE_KEY_CANCEL
  <2> QED BY <1>1, <2>1 DEF SetMode, TypeOK
<1>2. ASSUME NEW t \in ThresholdRequests, SetThresholds(t) PROVE TypeOK'
  <2>1. t.actuation \in Byte /\ t.release \in Byte
    BY InputBytes DEF ThresholdBytes
  <2>2. actuation' \in [Keys -> Actuations] /\ release' \in [Keys -> Releases]
    BY <1>2, <2>1, ClampThresholds DEF SetThresholds
  <2> QED BY <1>2, <2>2 DEF SetThresholds, TypeOK
<1>3. ASSUME NEW t \in TuningRequests, SetTuning(t) PROVE TypeOK'
  <2>1. t \in TuningBytes /\ ClampTuning(t) \in Tunings
    BY InputBytes, ClampTuningType
  <2>2. DOMAIN t = {"deadzone", "engage", "release_dist"}
    BY <2>1 DEF TuningBytes
  <2>3. PICK field \in DOMAIN t :
           he_tuning' = [he_tuning EXCEPT ![field] = ClampTuning(t)[field]]
    BY <1>3 DEF SetTuning
  <2>4. he_tuning' \in Tunings
    BY <2>1, <2>2, <2>3 DEF TypeOK, Tunings
  <2> QED BY <1>3, <2>4 DEF SetTuning, TypeOK
<1>4. ASSUME StartCalibration PROVE TypeOK'
  <2>1. raw_min' \in [Keys -> Raw] /\ raw_max' \in [Keys -> RawCeiling]
    BY <1>4, AdcLimits DEF StartCalibration, TypeOK, Raw, RawCeiling
  <2> QED BY <1>4, <2>1 DEF StartCalibration, TypeOK
<1>5. ASSUME EndCalibration PROVE TypeOK'
  <2>1. \A i \in Keys : /\ FallbackBase(i) \in Raw
                        /\ FallbackBase(i) + HE_ADC_TRAVEL_SPAN \in RawCeiling
    <3> TAKE i \in Keys
    <3>1. he_rest_floor[i] \in Raw
      BY DEF TypeOK
    <3>2. /\ HE_ADC_RAW_MID \in Raw
          /\ HE_ADC_RAW_MID + HE_ADC_TRAVEL_SPAN \in RawCeiling
      BY AdcLimits DEF HE_ADC_RAW_MID, Raw, RawCeiling
    <3> QED BY <3>1, <3>2, RestBaseRange DEF FallbackBase
  <2>2. raw_min' \in [Keys -> Raw] /\ raw_max' \in [Keys -> RawCeiling]
    BY <1>5, <2>1 DEF EndCalibration, TypeOK
  <2> QED BY <1>5, <2>2 DEF EndCalibration, TypeOK
<1> QED BY <1>1, <1>2, <1>3, <1>4, <1>5

\* Every step, scan or command, keeps the types.
LEMMA NextType == TypeOK /\ [Next]_vars => TypeOK'
<1> SUFFICES ASSUME TypeOK, [Next]_vars PROVE TypeOK'
  OBVIOUS
<1>1. CASE MatrixScan
  BY <1>1, ScanType DEF MatrixScan
<1>2. CASE \E m \in ModeRequests : SetMode(m)
  BY <1>2, CommandType
<1>3. CASE \E t \in ThresholdRequests : SetThresholds(t)
  BY <1>3, CommandType
<1>4. CASE \E t \in TuningRequests : SetTuning(t)
  BY <1>4, CommandType
<1>5. CASE StartCalibration
  BY <1>5, CommandType
<1>6. CASE EndCalibration
  BY <1>6, CommandType
<1>7. CASE LoadFromEeprom
  BY <1>7, LoadType
<1>8. CASE UNCHANGED vars
  BY <1>8 DEF TypeOK, vars, settings, spans, pipeline
<1> QED BY <1>1, <1>2, <1>3, <1>4, <1>5, <1>6, <1>7, <1>8 DEF Next

\* The types are invariant: thresholds and tuning stay in the ranges of
\* config.h, travel and its extremes are percentages, the debounce counter
\* stays below HE_DEBOUNCE and no calibration leaves the 16-bit raw range.
THEOREM TypeCorrect == Spec => []TypeOK
BY InitType, NextType, PTL DEF Spec

-----------------------------------------------------------------------------
(* Debouncing and calibration: each property is inductive with TypeOK.     *)

\* A command leaves everything the scan owns alone.
LEMMA CommandKeepsPipeline ==
    ASSUME Next, ~MatrixScan
    PROVE  UNCHANGED pipeline
BY DEF Next, LoadFromEeprom, SetMode, SetThresholds, SetTuning,
       StartCalibration, EndCalibration

\* The debounce stage of one key establishes the property for that key.
LEMMA DebounceStage ==
    ASSUME TypeOK, NEW i \in Keys, NEW phys \in BOOLEAN
    PROVE  NextDebounce(i, phys) > 0 <=> phys # NextDebounced(i, phys)
<1>1. debounce[i] \in 0..(HE_DEBOUNCE - 1) /\ he_debounced[i] \in BOOLEAN
  BY DEF TypeOK
<1>2. CASE phys = he_debounced[i]
  BY <1>2 DEF NextDebounce, NextDebounced
<1>3. CASE phys # he_debounced[i] /\ Confirmed(i)
  BY <1>3 DEF NextDebounce, NextDebounced
<1>4. CASE phys # he_debounced[i] /\ ~Confirmed(i)
  <2>1. NextDebounce(i, phys) = debounce[i] + 1
    BY <1>4 DEF NextDebounce
  <2>2. NextDebounced(i, phys) = he_debounced[i]
    BY <1>4 DEF NextDebounced
  <2> QED BY <1>1, <1>4, <2>1, <2>2
<1> QED BY <1>2, <1>3, <1>4

\* The counter of matrix_scan_custom's debounce runs exactly while the
\* instantaneous and the stable state of a key disagree.
THEOREM DebounceCounts == Spec => []DebounceCountsDisagreement
<1>1. Init => DebounceCountsDisagreement
  BY DEF Init, DebounceCountsDisagreement
<1>2. TypeOK /\ DebounceCountsDisagreement /\ [Next]_vars
         => DebounceCountsDisagreement'
  <2> SUFFICES ASSUME TypeOK, DebounceCountsDisagreement, [Next]_vars
               PROVE  DebounceCountsDisagreement'
    OBVIOUS
  <2>1. CASE MatrixScan
    <3>1. PICK raw \in [AnalogKeys -> RawValues], push \in BOOLEAN :
             Scan(raw, push)
      BY <2>1 DEF MatrixScan
    <3>2. he_phys_pressed' \in [Keys -> BOOLEAN]
      BY <3>1, PhysType DEF Scan
    <3>3. ASSUME NEW i \in Keys
          PROVE  debounce'[i] > 0 <=> he_phys_pressed'[i] # he_debounced'[i]
      <4>1. he_phys_pressed'[i] \in BOOLEAN
        BY <3>2
      <4>2. /\ debounce'[i] = NextDebounce(i, he_phys_pressed'[i])
            /\ he_debounced'[i] = NextDebounced(i, he_phys_pressed'[i])
        BY <3>1 DEF Scan
      <4> QED BY <4>1, <4>2, DebounceStage
    <3> QED BY <3>3 DEF DebounceCountsDisagreement
  <2>2. CASE Next /\ ~MatrixScan
    BY <2>2, CommandKeepsPipeline DEF pipeline, DebounceCountsDisagreement
  <2>3. CASE UNCHANGED vars
    BY <2>3 DEF vars, pipeline, DebounceCountsDisagreement
  <2> QED BY <2>1, <2>2, <2>3
<1> QED BY <1>1, <1>2, TypeCorrect, PTL DEF Spec

\* Outside a calibration no key divides by a span below HE_ADC_MIN_SPAN.
THEOREM CalibratedSpan == Spec => []CalibratedSpanUsable
<1>1. Init => CalibratedSpanUsable
  BY AdcLimits DEF Init, CalibratedSpanUsable, AnalogKeys, HE_ADC_RAW_MID
<1>2. TypeOK /\ CalibratedSpanUsable /\ [Next]_vars => CalibratedSpanUsable'
  <2> SUFFICES ASSUME TypeOK, CalibratedSpanUsable, [Next]_vars,
                      ~he_calibrating', NEW i \in AnalogKeys
               PROVE  raw_max'[i] - raw_min'[i] >= HE_ADC_MIN_SPAN
    BY DEF CalibratedSpanUsable
  <2>1. i \in Keys
    BY DEF AnalogKeys
  <2>2. raw_min[i] \in Int /\ raw_max[i] \in Int /\ he_rest_floor[i] \in Raw
    BY <2>1 DEF TypeOK, Raw, RawCeiling
  <2>3. CASE MatrixScan
    <3>1. PICK raw \in [AnalogKeys -> RawValues], push \in BOOLEAN :
             Scan(raw, push)
      BY <2>3 DEF MatrixScan
    <3>2. raw_min'[i] = NextMin(i, raw) /\ raw_max'[i] = NextMax(i, raw)
      BY <2>1, <3>1 DEF Scan
    <3>3. ~he_calibrating
      BY <3>1 DEF Scan
    <3>4. CASE LockIn
      <4>1. RestBase(RestFloor(i, raw)) \in Int
        BY SampleTypes, RestBaseRange DEF Raw
      <4> QED BY <3>2, <3>4, <4>1, AdcLimits DEF NextMin, NextMax
    <3>5. CASE ~LockIn
      BY <3>2, <3>3, <3>5
         DEF NextMin, NextMax, SampledMin, SampledMax, CalibratedSpanUsable
    <3> QED BY <3>4, <3>5
  <2>4. CASE EndCalibration
    <3>1. CASE SpanRejected(i)
      <4>1. FallbackBase(i) \in Int
        <5>1. HE_ADC_RAW_MID \in Int
          BY AdcLimits DEF HE_ADC_RAW_MID
        <5> QED BY <2>2, <5>1, RestBaseRange DEF FallbackBase, Raw
      <4>2. /\ raw_min'[i] = FallbackBase(i)
            /\ raw_max'[i] = FallbackBase(i) + HE_ADC_TRAVEL_SPAN
        BY <2>1, <2>4, <3>1 DEF EndCalibration
      <4> QED BY <4>1, <4>2, AdcLimits
    <3>2. CASE ~SpanRejected(i)
      <4>1. raw_min'[i] = raw_min[i] /\ raw_max'[i] = raw_max[i]
        BY <2>1, <2>4, <3>2 DEF EndCalibration
      <4> QED BY <2>2, <3>2, <4>1, AdcLimits DEF SpanRejected
    <3> QED BY <3>1, <3>2
  <2>5. CASE StartCalibration
    BY <2>5 DEF StartCalibration
  <2>6. CASE \/ \E m \in ModeRequests : SetMode(m)
             \/ \E t \in ThresholdRequests : SetThresholds(t)
             \/ \E t \in TuningRequests : SetTuning(t)
             \/ LoadFromEeprom
             \/ UNCHANGED vars
    <3>1. UNCHANGED <<spans, he_calibrating>>
      BY <2>6 DEF SetMode, SetThresholds, SetTuning, LoadFromEeprom, vars
    <3> QED BY <3>1 DEF spans, CalibratedSpanUsable
  <2> QED BY <2>3, <2>4, <2>5, <2>6 DEF Next
<1> QED BY <1>1, <1>2, TypeCorrect, PTL DEF Spec

-----------------------------------------------------------------------------
(* Key cancel.  The pairs are disjoint, so the suppression of a pair is    *)
(* decided by that pair alone.                                             *)

\* The keys of a pair are two different analog keys.
LEMMA PairKeys ==
    ASSUME NEW p \in socd_pairs
    PROVE  p[1] \in Keys /\ p[2] \in Keys /\ p[1] # p[2]
BY PairsDisjoint DEF AnalogKeys

\* Whether a key of pair p is suppressed depends on p only, since no other
\* pair contains it.
LEMMA SuppressedInPair ==
    ASSUME NEW p \in socd_pairs, NEW deb, NEW winner,
           he_mode = HE_MODE_KEY_CANCEL
    PROVE  /\ Suppressed(p[1], deb, winner)
                 <=> deb[p[1]] /\ deb[p[2]] /\ winner[p] = 1
           /\ Suppressed(p[2], deb, winner)
                 <=> deb[p[1]] /\ deb[p[2]] /\ winner[p] # 1
<1>1. ASSUME NEW q \in socd_pairs, NEW i \in {p[1], p[2]},
             i = IF winner[q] = 1 THEN q[1] ELSE q[2]
      PROVE  q = p
  BY <1>1, PairsDisjoint
<1>2. p[1] # p[2]
  BY PairKeys
<1> QED BY <1>1, <1>2 DEF Suppressed

\* What a scan reports for a pair, in terms of its winner.
LEMMA ScanReportsPair ==
    ASSUME TypeOK, NEW raw \in [AnalogKeys -> RawValues], NEW push \in BOOLEAN,
           Scan(raw, push), NEW p \in socd_pairs
    PROVE  /\ he_debounced'[p[1]] \in BOOLEAN /\ he_debounced'[p[2]] \in BOOLEAN
           /\ he_mode = HE_MODE_KEY_CANCEL =>
                /\ pressed'[p[1]] <=> /\ he_debounced'[p[1]]
                                      /\ ~(/\ he_debounced'[p[2]]
                                           /\ socd_winner'[p] = 1)
                /\ pressed'[p[2]] <=> /\ he_debounced'[p[2]]
                                      /\ ~(/\ he_debounced'[p[1]]
                                           /\ socd_winner'[p] # 1)
           /\ he_mode # HE_MODE_KEY_CANCEL =>
                /\ pressed'[p[1]] <=> he_debounced'[p[1]]
                /\ pressed'[p[2]] <=> he_debounced'[p[2]]
<1>1. p[1] \in Keys /\ p[2] \in Keys
  BY PairKeys
<1>2. he_debounced'[p[1]] \in BOOLEAN /\ he_debounced'[p[2]] \in BOOLEAN
  BY <1>1, ScanType DEF TypeOK
<1>3. ASSUME NEW i \in Keys
      PROVE  pressed'[i] <=> /\ he_debounced'[i]
                             /\ ~Suppressed(i, he_debounced', socd_winner')
  BY DEF Scan
<1>4. he_mode = HE_MODE_KEY_CANCEL =>
        /\ Suppressed(p[1], he_debounced', socd_winner')
              <=> /\ he_debounced'[p[1]] /\ he_debounced'[p[2]]
                  /\ socd_winner'[p] = 1
        /\ Suppressed(p[2], he_debounced', socd_winner')
              <=> /\ he_debounced'[p[1]] /\ he_debounced'[p[2]]
                  /\ socd_winner'[p] # 1
  BY SuppressedInPair
<1>5. he_mode # HE_MODE_KEY_CANCEL =>
        \A i \in Keys : ~Suppressed(i, he_debounced', socd_winner')
  BY DEF Suppressed
<1> QED BY <1>1, <1>2, <1>3, <1>4, <1>5

\* Only a scan moves the scan counter.
LEMMA ScanStepIsScan ==
    ASSUME [Next]_vars, ScanStep
    PROVE  \E raw \in [AnalogKeys -> RawValues], push \in BOOLEAN :
               Scan(raw, push)
<1>1. CASE Next /\ ~MatrixScan
  BY <1>1, CommandKeepsPipeline DEF pipeline, ScanStep
<1>2. CASE UNCHANGED vars
  BY <1>2 DEF vars, pipeline, ScanStep
<1> QED BY <1>1, <1>2 DEF MatrixScan

\* After a key-cancel scan a pair with a key held reports exactly one key.
THEOREM SocdExclusive == Spec => SocdExactlyOne
<1>1. TypeOK /\ [Next]_vars =>
        [ScanStep /\ he_mode = HE_MODE_KEY_CANCEL =>
           \A p \in socd_pairs :
              (he_debounced'[p[1]] \/ he_debounced'[p[2]]) =>
                  (pressed'[p[1]] # pressed'[p[2]])]_vars
  <2> SUFFICES ASSUME TypeOK, [Next]_vars, ScanStep,
                      he_mode = HE_MODE_KEY_CANCEL, NEW p \in socd_pairs,
                      he_debounced'[p[1]] \/ he_debounced'[p[2]]
               PROVE  pressed'[p[1]] # pressed'[p[2]]
    OBVIOUS
  <2>1. PICK raw \in [AnalogKeys -> RawValues], push \in BOOLEAN :
           Scan(raw, push)
    BY ScanStepIsScan
  <2> QED BY <2>1, ScanReportsPair
<1> QED BY <1>1, TypeCorrect, PTL DEF Spec, SocdExactlyOne

\* A rising edge next to a held partner takes the output.
THEOREM SocdLastInput == Spec => SocdLatestWins
<1>1. TypeOK /\ [Next]_vars =>
        [ScanStep /\ he_mode = HE_MODE_KEY_CANCEL =>
           \A p \in socd_pairs : \A i \in {p[1], p[2]} :
              LET j == Partner(p, i) IN
              ~he_debounced[i] /\ he_debounced'[i] /\ he_debounced[j]
                               /\ he_debounced'[j]
                 => pressed'[i] /\ ~pressed'[j]]_vars
  <2> SUFFICES ASSUME TypeOK, [Next]_vars, ScanStep,
                      he_mode = HE_MODE_KEY_CANCEL, NEW p \in socd_pairs,
                      NEW i \in {p[1], p[2]},
                      ~he_debounced[i], he_debounced'[i],
                      he_debounced[Partner(p, i)], he_debounced'[Partner(p, i)]
               PROVE  pressed'[i] /\ ~pressed'[Partner(p, i)]
    OBVIOUS
  <2>1. PICK raw \in [AnalogKeys -> RawValues], push \in BOOLEAN :
           Scan(raw, push)
    BY ScanStepIsScan
  <2>2. socd_winner'[p] = NextWinner(p, he_debounced', travel')
    BY <2>1 DEF Scan
  <2>3. p[1] # p[2]
    BY PairKeys
  <2>4. CASE i = p[1]
    <3>1. Partner(p, i) = p[2]
      BY <2>4 DEF Partner
    <3>2. socd_winner'[p] = 0
      BY <2>2, <2>4, <3>1 DEF NextWinner, NewlyPressed
    <3> QED BY <2>1, <2>4, <3>1, <3>2, ScanReportsPair
  <2>5. CASE i = p[2]
    <3>1. Partner(p, i) = p[1]
      BY <2>3, <2>5 DEF Partner
    <3>2. socd_winner'[p] = 1
      BY <2>2, <2>5, <3>1 DEF NextWinner, NewlyPressed
    <3> QED BY <2>1, <2>5, <3>1, <3>2, ScanReportsPair
  <2> QED BY <2>4, <2>5
<1> QED BY <1>1, TypeCorrect, PTL DEF Spec, SocdLatestWins

\* What the scan remembers between scans: when one key of a held pair is
\* suppressed, socd_winner names the reported one.
WinnerOwnsOutput ==
    \A p \in socd_pairs :
        Held(p) /\ pressed[p[1]] # pressed[p[2]]
            => (pressed[p[2]] <=> socd_winner[p] = 1)

\* The bookkeeping behind SocdOwnerKeepsOutput is invariant in every mode,
\* through every mode switch.
THEOREM WinnerInvariant == Spec => []WinnerOwnsOutput
<1>1. Init => WinnerOwnsOutput
  <2> SUFFICES ASSUME Init, NEW p \in socd_pairs PROVE ~Held(p)
    BY DEF WinnerOwnsOutput
  <2> QED BY PairKeys DEF Init, Held
<1>2. TypeOK /\ WinnerOwnsOutput /\ [Next]_vars => WinnerOwnsOutput'
  <2> SUFFICES ASSUME TypeOK, WinnerOwnsOutput, [Next]_vars
               PROVE  WinnerOwnsOutput'
    OBVIOUS
  <2>1. CASE MatrixScan
    <3>1. PICK raw \in [AnalogKeys -> RawValues], push \in BOOLEAN :
             Scan(raw, push)
      BY <2>1 DEF MatrixScan
    <3> SUFFICES ASSUME NEW p \in socd_pairs,
                        he_debounced'[p[1]], he_debounced'[p[2]],
                        pressed'[p[1]] # pressed'[p[2]]
                 PROVE  pressed'[p[2]] <=> socd_winner'[p] = 1
      BY DEF WinnerOwnsOutput, Held
    <3>2. p[1] \in Keys /\ p[2] \in Keys
      BY PairKeys
    <3>3. pressed'[p[1]] \in BOOLEAN /\ pressed'[p[2]] \in BOOLEAN
      BY <3>1, <3>2, ScanType DEF TypeOK
    <3> QED BY <3>1, <3>3, ScanReportsPair
  <2>2. CASE Next /\ ~MatrixScan
    BY <2>2, CommandKeepsPipeline DEF pipeline, WinnerOwnsOutput, Held
  <2>3. CASE UNCHANGED vars
    BY <2>3 DEF vars, pipeline, WinnerOwnsOutput, Held
  <2> QED BY <2>1, <2>2, <2>3
<1> QED BY <1>1, <1>2, TypeCorrect, PTL DEF Spec

\* The key-cancel loser never flickers while both keys stay held.
THEOREM SocdStable == Spec => SocdOwnerKeepsOutput
<1>1. TypeOK /\ WinnerOwnsOutput /\ [Next]_vars =>
        [he_mode = HE_MODE_KEY_CANCEL =>
           \A p \in socd_pairs :
              Held(p) /\ Held(p)' /\ pressed[p[1]] # pressed[p[2]]
                 => pressed'[p[1]] = pressed[p[1]]
                    /\ pressed'[p[2]] = pressed[p[2]]]_vars
  <2> SUFFICES ASSUME TypeOK, WinnerOwnsOutput, [Next]_vars,
                      he_mode = HE_MODE_KEY_CANCEL, NEW p \in socd_pairs,
                      Held(p), Held(p)', pressed[p[1]] # pressed[p[2]]
               PROVE  /\ pressed'[p[1]] = pressed[p[1]]
                      /\ pressed'[p[2]] = pressed[p[2]]
    OBVIOUS
  <2>1. CASE MatrixScan
    <3>1. PICK raw \in [AnalogKeys -> RawValues], push \in BOOLEAN :
             Scan(raw, push)
      BY <2>1 DEF MatrixScan
    <3>2. p[1] \in Keys /\ p[2] \in Keys
      BY PairKeys
    <3>3. /\ he_debounced[p[1]] /\ he_debounced[p[2]]
          /\ he_debounced'[p[1]] /\ he_debounced'[p[2]]
      BY DEF Held
    <3>4. socd_winner'[p] = NextWinner(p, he_debounced', travel')
      BY <3>1 DEF Scan
    <3>5. socd_winner'[p] = socd_winner[p]
      BY <3>3, <3>4 DEF NextWinner, NewlyPressed
    <3>6. /\ pressed[p[1]] \in BOOLEAN /\ pressed[p[2]] \in BOOLEAN
          /\ pressed'[p[1]] \in BOOLEAN /\ pressed'[p[2]] \in BOOLEAN
      BY <3>1, <3>2, ScanType DEF TypeOK
    <3>7. pressed[p[2]] <=> socd_winner[p] = 1
      BY DEF WinnerOwnsOutput
    <3>8. /\ pressed'[p[2]] <=> socd_winner'[p] = 1
          /\ pressed'[p[1]] <=> ~(socd_winner'[p] = 1)
      BY <3>1, <3>3, ScanReportsPair
    <3> QED BY <3>5, <3>6, <3>7, <3>8
  <2>2. CASE Next /\ ~MatrixScan
    BY <2>2, CommandKeepsPipeline DEF pipeline
  <2>3. CASE UNCHANGED vars
    BY <2>3 DEF vars, pipeline
  <2> QED BY <2>1, <2>2, <2>3
<1> QED BY <1>1, TypeCorrect, WinnerInvariant, PTL
        DEF Spec, SocdOwnerKeepsOutput

-----------------------------------------------------------------------------
(* The history: the inductive invariants.                                  *)

HistoryTypes ==
    /\ run \in [Keys -> 0..HE_DEBOUNCE]
    /\ high \in [AnalogKeys -> Travel]
    /\ low \in [AnalogKeys -> Travel]

\* A debounce counter never claims more scans than the physical state lasted.
RunCoversDebounce == \A i \in Keys : debounce[i] <= run[i]

\* While rapid trigger is the only mode, he_compute_pressed's extremes are the
\* observed ones: the peak of the press, the valley of the release.
ExtremesObserved ==
    \A i \in AnalogKeys :
        /\ he_phys_pressed[i] => peak[i] = high[i]
        /\ ~he_phys_pressed[i] => valley[i] = low[i]

\* Rapid trigger is the only mode: the data block holds no other one and no
\* command selects another.
OnlyRapidTrigger ==
    /\ \A s \in BootSettings : s.mode \in Modes => s.mode = HE_MODE_RAPID_TRIGGER
    /\ ModeRequests \subseteq {HE_MODE_RAPID_TRIGGER}

HistoryInv == TypeOK /\ DebounceCountsDisagreement /\ HistoryTypes
                /\ RunCoversDebounce

-----------------------------------------------------------------------------
(* The history only watches.                                               *)

\* A scan always moves he_scan_count, and the history moves with it.
LEMMA ScanIsRemembered ==
    ASSUME TypeOK, HNext, MatrixScan
    PROVE  ScanStep /\ RememberScan
<1>1. he_scan_count' = ScanCount
  BY DEF MatrixScan, Scan
<1>2. ScanCount # he_scan_count
  <2>1. /\ he_scan_count \in 0..(ScanCountMod - 1)
        /\ ScanCountMod \in Nat /\ ScanCountMod > 1
    BY ScanLimits DEF TypeOK
  <2>2. CASE he_scan_count + 1 < ScanCountMod
    BY <2>1, <2>2 DEF ScanCount
  <2>3. CASE he_scan_count + 1 = ScanCountMod
    <3>1. ScanCount = 0
      BY <2>1, <2>3 DEF ScanCount
    <3> QED BY <2>1, <2>3, <3>1
  <2> QED BY <2>1, <2>2, <2>3
<1> QED BY <1>1, <1>2 DEF ScanStep, HNext

\* A command leaves the pipeline and what the proofs use of the history alone.
LEMMA CommandIsQuiet ==
    ASSUME HNext, ~MatrixScan
    PROVE  UNCHANGED <<pipeline, run, high, low>>
<1>1. UNCHANGED pipeline
  BY CommandKeepsPipeline DEF HNext
<1>2. ~ScanStep
  BY <1>1 DEF pipeline, ScanStep
<1> QED BY <1>1, <1>2 DEF HNext, RememberCommand

\* Every behaviour of the observed pipeline is one of the pipeline.
THEOREM HistoryRefines == HSpec => Spec
<1>1. HInit => Init
  BY DEF HInit
<1>2. [HNext]_hvars => [Next]_vars
  BY DEF HNext, hvars
<1> QED BY <1>1, <1>2, PTL DEF HSpec, Spec

\* What a scan does to one key's debounce, seen from the run of its state.
LEMMA DebounceSeesRun ==
    ASSUME HistoryInv, HNext, NEW i \in Keys,
           NEW raw \in [AnalogKeys -> RawValues], NEW push \in BOOLEAN,
           Scan(raw, push)
    PROVE  /\ run'[i] \in 0..HE_DEBOUNCE
           /\ debounce'[i] <= run'[i]
           /\ he_debounced'[i] # he_debounced[i] => run'[i] >= HE_DEBOUNCE
<1> DEFINE phys == he_phys_pressed'[i]
<1>1. RememberScan
  BY ScanIsRemembered DEF HistoryInv, MatrixScan
<1>2. phys \in BOOLEAN /\ he_phys_pressed[i] \in BOOLEAN
      /\ he_debounced[i] \in BOOLEAN
  BY ScanType DEF TypeOK, HistoryInv
<1>3. /\ HE_DEBOUNCE \in 1..255 /\ debounce[i] \in 0..(HE_DEBOUNCE - 1)
      /\ run[i] \in 0..HE_DEBOUNCE /\ debounce[i] <= run[i]
  BY ScanLimits DEF TypeOK, HistoryInv, HistoryTypes, RunCoversDebounce
<1>4. /\ debounce'[i] = NextDebounce(i, phys)
      /\ he_debounced'[i] = NextDebounced(i, phys)
  BY DEF Scan
<1>5. run'[i] = IF phys = he_phys_pressed[i]
                THEN Smaller(run[i] + 1, HE_DEBOUNCE) ELSE 1
  BY <1>1 DEF RememberScan
<1>6. phys # he_debounced[i] => run'[i] >= debounce[i] + 1
  <2>1. CASE phys = he_phys_pressed[i]
    BY <1>3, <1>5, <2>1 DEF Smaller
  <2>2. CASE phys # he_phys_pressed[i] /\ phys # he_debounced[i]
    <3>1. he_phys_pressed[i] = he_debounced[i]
      BY <1>2, <2>2
    <3>2. debounce[i] = 0
      BY <1>3, <3>1 DEF HistoryInv, DebounceCountsDisagreement
    <3> QED BY <1>5, <2>2, <3>2
  <2> QED BY <2>1, <2>2
<1>7. run'[i] \in 0..HE_DEBOUNCE
  BY <1>3, <1>5 DEF Smaller
<1>8. CASE phys = he_debounced[i]
  <2>1. debounce'[i] = 0 /\ he_debounced'[i] = he_debounced[i]
    BY <1>4, <1>8 DEF NextDebounce, NextDebounced
  <2> QED BY <1>7, <2>1
<1>9. CASE phys # he_debounced[i] /\ Confirmed(i)
  <2>1. debounce'[i] = 0
    BY <1>4, <1>9 DEF NextDebounce
  <2>2. debounce[i] + 1 >= HE_DEBOUNCE
    BY <1>9 DEF Confirmed
  <2> QED BY <1>3, <1>6, <1>7, <1>9, <2>1, <2>2
<1>10. CASE phys # he_debounced[i] /\ ~Confirmed(i)
  <2>1. debounce'[i] = debounce[i] + 1 /\ he_debounced'[i] = he_debounced[i]
    BY <1>4, <1>10 DEF NextDebounce, NextDebounced
  <2> QED BY <1>6, <1>7, <1>10, <2>1
<1> QED BY <1>8, <1>9, <1>10

\* The observed extremes are percentages after a scan.
LEMMA ObservedTypes ==
    ASSUME TypeOK, HistoryTypes, HNext, MatrixScan
    PROVE  high' \in [AnalogKeys -> Travel] /\ low' \in [AnalogKeys -> Travel]
<1>1. RememberScan
  BY ScanIsRemembered
<1>2. \A i \in AnalogKeys : travel'[i] \in Travel
  BY ScanType DEF MatrixScan, TypeOK, AnalogKeys
<1> QED BY <1>1, <1>2 DEF RememberScan, Larger, Smaller, HistoryTypes

\* The part of the history invariant that is not HEMatrix's own.
LEMMA HistoryKept ==
    ASSUME HistoryInv, [HNext]_hvars
    PROVE  HistoryTypes' /\ RunCoversDebounce'
<1>1. CASE HNext /\ MatrixScan
  <2>1. PICK raw \in [AnalogKeys -> RawValues], push \in BOOLEAN :
           Scan(raw, push)
    BY <1>1 DEF MatrixScan
  <2>2. \A i \in Keys : run'[i] \in 0..HE_DEBOUNCE /\ debounce'[i] <= run'[i]
    BY <1>1, <2>1, DebounceSeesRun
  <2>3. run' = [i \in Keys |-> run'[i]]
    BY <1>1, ScanIsRemembered DEF RememberScan, HistoryInv
  <2>4. run' \in [Keys -> 0..HE_DEBOUNCE]
    BY <2>2, <2>3
  <2>5. high' \in [AnalogKeys -> Travel] /\ low' \in [AnalogKeys -> Travel]
    BY <1>1, ObservedTypes DEF HistoryInv
  <2> QED BY <2>2, <2>4, <2>5 DEF HistoryTypes, RunCoversDebounce
<1>2. CASE HNext /\ ~MatrixScan
  BY <1>2, CommandIsQuiet
     DEF pipeline, HistoryInv, HistoryTypes, RunCoversDebounce
<1>3. CASE UNCHANGED hvars
  BY <1>3 DEF hvars, vars, history, pipeline, HistoryInv, HistoryTypes,
              RunCoversDebounce
<1> QED BY <1>1, <1>2, <1>3

\* A debounce counter that claims d scans is backed by d scans in a row of
\* the disagreeing physical state, through every mode switch and calibration.
THEOREM HistoryInvariant == HSpec => []HistoryInv
<1>1. HInit => HistoryTypes /\ RunCoversDebounce
  BY ScanLimits DEF HInit, Init, HistoryInit, HistoryTypes, RunCoversDebounce,
                    Travel
<1>2. TypeOK /\ DebounceCountsDisagreement /\ HistoryTypes
        /\ RunCoversDebounce /\ [HNext]_hvars
         => HistoryTypes' /\ RunCoversDebounce'
  BY HistoryKept DEF HistoryInv
<1>3. HSpec => []TypeOK /\ []DebounceCountsDisagreement
  BY HistoryRefines, TypeCorrect, DebounceCounts, PTL
<1> QED BY <1>1, <1>2, <1>3, PTL DEF HSpec, HistoryInv

\* matrix_scan_custom's debounce filters both edges: the stable state of a key
\* flips only after HE_DEBOUNCE scans in a row with the new physical state.
THEOREM FlipsAreDebounced == HSpec => DebounceFilters
<1>1. HistoryInv /\ [HNext]_hvars =>
        [ScanStep => \A i \in Keys :
            he_debounced'[i] # he_debounced[i] => run'[i] >= HE_DEBOUNCE]_hvars
  <2> SUFFICES ASSUME HistoryInv, HNext, ScanStep, NEW i \in Keys,
                      he_debounced'[i] # he_debounced[i]
               PROVE  run'[i] >= HE_DEBOUNCE
    BY DEF hvars
  <2>1. PICK raw \in [AnalogKeys -> RawValues], push \in BOOLEAN :
           Scan(raw, push)
    BY ScanStepIsScan DEF HNext
  <2> QED BY <2>1, DebounceSeesRun
<1> QED BY <1>1, HistoryInvariant, PTL DEF HSpec, DebounceFilters

-----------------------------------------------------------------------------
(* Rapid trigger.                                                          *)

\* he_compute_pressed in rapid trigger, for one key and one scan.
LEMMA RTStage ==
    ASSUME TypeOK, NEW raw \in [AnalogKeys -> RawValues], NEW push \in BOOLEAN,
           Scan(raw, push), he_mode = HE_MODE_RAPID_TRIGGER,
           NEW i \in AnalogKeys
    PROVE  LET t == travel'[i] IN
           /\ i \in Keys /\ t \in Travel
           /\ he_phys_pressed[i] \in BOOLEAN /\ he_phys_pressed'[i] \in BOOLEAN
           /\ he_phys_pressed'[i] <=> IF he_phys_pressed[i]
                                      THEN ~RTRelease(i, t) ELSE RTPress(i, t)
           /\ he_phys_pressed[i] => /\ peak'[i] = Larger(peak[i], t)
                                    /\ RTRelease(i, t) => valley'[i] = t
           /\ ~he_phys_pressed[i] => /\ valley'[i] = Smaller(valley[i], t)
                                     /\ RTPress(i, t) => peak'[i] = t
<1>1. i \in Keys /\ i # HE_ENC_PUSH_INDEX
  BY DEF AnalogKeys
<1>2. TypeOK'
  BY ScanType
<1>3. /\ travel'[i] \in Travel /\ he_phys_pressed[i] \in BOOLEAN
      /\ he_phys_pressed'[i] \in BOOLEAN
  BY <1>1, <1>2 DEF TypeOK
<1>4. travel'[i] = SampledTravel(i, raw)
  BY <1>1 DEF Scan
<1>5. he_phys_pressed'[i] = PhysPressed(i, travel'[i])
  BY <1>1, <1>4 DEF Scan, NextPhys
<1>6. /\ peak'[i] = NextPeak(i, travel'[i])
      /\ valley'[i] = NextValley(i, travel'[i])
  BY <1>1 DEF Scan
<1>7. he_phys_pressed'[i] <=> IF he_phys_pressed[i]
                              THEN ~RTRelease(i, travel'[i])
                              ELSE RTPress(i, travel'[i])
  BY <1>5 DEF PhysPressed
<1> QED BY <1>1, <1>3, <1>6, <1>7 DEF NextPeak, NextValley

\* Booting in rapid trigger and never leaving it keeps the extremes exact.
LEMMA ExtremesKept ==
    ASSUME TypeOK, he_mode = HE_MODE_RAPID_TRIGGER, ExtremesObserved,
           [HNext]_hvars
    PROVE  ExtremesObserved'
<1>1. CASE HNext /\ MatrixScan
  <2>1. PICK raw \in [AnalogKeys -> RawValues], push \in BOOLEAN :
           Scan(raw, push)
    BY <1>1 DEF MatrixScan
  <2>2. RememberScan
    BY <1>1, ScanIsRemembered
  <2> SUFFICES ASSUME NEW i \in AnalogKeys
               PROVE  /\ he_phys_pressed'[i] => peak'[i] = high'[i]
                      /\ ~he_phys_pressed'[i] => valley'[i] = low'[i]
    BY DEF ExtremesObserved
  <2>3. /\ high'[i] = IF he_phys_pressed[i] /\ he_phys_pressed'[i]
                      THEN Larger(high[i], travel'[i]) ELSE travel'[i]
        /\ low'[i] = IF ~he_phys_pressed[i] /\ ~he_phys_pressed'[i]
                     THEN Smaller(low[i], travel'[i]) ELSE travel'[i]
    BY <2>2 DEF RememberScan
  <2>4. /\ he_phys_pressed[i] => peak[i] = high[i]
        /\ ~he_phys_pressed[i] => valley[i] = low[i]
    BY DEF ExtremesObserved
  <2> QED BY <2>1, <2>3, <2>4, RTStage
<1>2. CASE HNext /\ ~MatrixScan
  BY <1>2, CommandIsQuiet DEF pipeline, ExtremesObserved
<1>3. CASE UNCHANGED hvars
  BY <1>3 DEF hvars, vars, history, pipeline, ExtremesObserved
<1> QED BY <1>1, <1>2, <1>3

\* With rapid trigger as the only mode, peak and valley are the extremes an
\* observer of the readings would compute, through every calibration, tuning
\* and threshold change.
THEOREM ExtremesExact ==
    ASSUME OnlyRapidTrigger
    PROVE  HSpec => [](he_mode = HE_MODE_RAPID_TRIGGER /\ ExtremesObserved)
<1>1. HInit => he_mode = HE_MODE_RAPID_TRIGGER /\ ExtremesObserved
  BY DEF HInit, Init, HistoryInit, ExtremesObserved, OnlyRapidTrigger,
         AnalogKeys
<1>2. he_mode = HE_MODE_RAPID_TRIGGER /\ [HNext]_hvars
         => (he_mode = HE_MODE_RAPID_TRIGGER)'
  BY DEF HNext, Next, MatrixScan, Scan, LoadFromEeprom, LoadedMode, SetMode,
         SetThresholds, SetTuning, StartCalibration, EndCalibration,
         OnlyRapidTrigger, settings, hvars, vars
<1>3. TypeOK /\ he_mode = HE_MODE_RAPID_TRIGGER /\ ExtremesObserved
        /\ [HNext]_hvars => ExtremesObserved'
  BY ExtremesKept
<1>4. HSpec => []TypeOK
  BY HistoryRefines, TypeCorrect, PTL
<1> QED BY <1>1, <1>2, <1>3, <1>4, PTL DEF HSpec

\* A physical release in rapid trigger is earned: rest band, or release_dist
\* below the highest travel since the press.
THEOREM RTReleasesAreEarned ==
    ASSUME OnlyRapidTrigger
    PROVE  HSpec => RTReleaseJustified
<1>1. TypeOK /\ ExtremesObserved /\ [HNext]_hvars =>
        [ScanStep /\ he_mode = HE_MODE_RAPID_TRIGGER =>
           \A i \in AnalogKeys : he_phys_pressed[i] /\ ~he_phys_pressed'[i] =>
              \/ travel'[i] <= he_tuning.deadzone
              \/ Larger(high[i], travel'[i]) - travel'[i]
                    >= he_tuning.release_dist]_hvars
  <2> SUFFICES ASSUME TypeOK, ExtremesObserved, HNext, ScanStep,
                      he_mode = HE_MODE_RAPID_TRIGGER, NEW i \in AnalogKeys,
                      he_phys_pressed[i], ~he_phys_pressed'[i]
               PROVE  \/ travel'[i] <= he_tuning.deadzone
                      \/ Larger(high[i], travel'[i]) - travel'[i]
                            >= he_tuning.release_dist
    BY DEF hvars
  <2>1. PICK raw \in [AnalogKeys -> RawValues], push \in BOOLEAN :
           Scan(raw, push)
    BY ScanStepIsScan DEF HNext
  <2>2. RTRelease(i, travel'[i])
    BY <2>1, RTStage
  <2>3. peak[i] = high[i]
    BY DEF ExtremesObserved
  <2> QED BY <2>2, <2>3 DEF RTRelease
<1>2. HSpec => []TypeOK
  BY HistoryRefines, TypeCorrect, PTL
<1> QED BY <1>1, <1>2, ExtremesExact, PTL DEF HSpec, RTReleaseJustified

\* ... and so is a press: past the actuation point, or engage above the lowest
\* travel since the release, and never inside the rest band.
THEOREM RTPressesAreEarned ==
    ASSUME OnlyRapidTrigger
    PROVE  HSpec => RTPressJustified
<1>1. TypeOK /\ ExtremesObserved /\ [HNext]_hvars =>
        [ScanStep /\ he_mode = HE_MODE_RAPID_TRIGGER =>
           \A i \in AnalogKeys : ~he_phys_pressed[i] /\ he_phys_pressed'[i] =>
              /\ travel'[i] > he_tuning.deadzone
              /\ \/ travel'[i] >= actuation[i]
                 \/ travel'[i] - Smaller(low[i], travel'[i])
                       >= he_tuning.engage]_hvars
  <2> SUFFICES ASSUME TypeOK, ExtremesObserved, HNext, ScanStep,
                      he_mode = HE_MODE_RAPID_TRIGGER, NEW i \in AnalogKeys,
                      ~he_phys_pressed[i], he_phys_pressed'[i]
               PROVE  /\ travel'[i] > he_tuning.deadzone
                      /\ \/ travel'[i] >= actuation[i]
                         \/ travel'[i] - Smaller(low[i], travel'[i])
                               >= he_tuning.engage
    BY DEF hvars
  <2>1. PICK raw \in [AnalogKeys -> RawValues], push \in BOOLEAN :
           Scan(raw, push)
    BY ScanStepIsScan DEF HNext
  <2>2. RTPress(i, travel'[i])
    BY <2>1, RTStage
  <2>3. valley[i] = low[i]
    BY DEF ExtremesObserved
  <2> QED BY <2>2, <2>3 DEF RTPress
<1>2. HSpec => []TypeOK
  BY HistoryRefines, TypeCorrect, PTL
<1> QED BY <1>1, <1>2, ExtremesExact, PTL DEF HSpec, RTPressJustified
=============================================================================
