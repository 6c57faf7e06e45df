--------------------------- MODULE HEMatrixHistory ---------------------------
(***************************************************************************)
(* HEMatrix with history variables: what an observer of the readings and   *)
(* of the states remembers, to state what the comments of he_matrix.c say  *)
(* about sequences of scans.  No action of HEMatrix reads them.            *)
(***************************************************************************)
EXTENDS HEMatrix

VARIABLES
    run,        \* scans in a row the physical state has had its value (capped)
    high,       \* highest travel since the physical state last rose
    low,        \* lowest travel since it last fell
    top,        \* highest travel since the key was last reported pressed
    still       \* scans in a row with the same travel and settings (capped)

history == <<run, high, low, top, still>>
hvars   == <<vars, history>>

StillCap == 2 * HE_DEBOUNCE + 1

HistoryInit ==
    /\ run = [i \in Keys |-> 0]
    /\ high = [i \in AnalogKeys |-> 0]
    /\ low = [i \in AnalogKeys |-> 0]
    /\ top = [i \in AnalogKeys |-> 0]
    /\ still = [i \in AnalogKeys |-> 0]

\* The bookkeeping of a scan, written on the observed values only.
RememberScan ==
    /\ run' = [i \in Keys |->
                  IF he_phys_pressed'[i] = he_phys_pressed[i]
                  THEN Smaller(run[i] + 1, HE_DEBOUNCE) ELSE 1]
    /\ high' = [i \in AnalogKeys |->
                   IF he_phys_pressed[i] /\ he_phys_pressed'[i]
                   THEN Larger(high[i], travel'[i]) ELSE travel'[i]]
    /\ low' = [i \in AnalogKeys |->
                  IF ~he_phys_pressed[i] /\ ~he_phys_pressed'[i]
                  THEN Smaller(low[i], travel'[i]) ELSE travel'[i]]
    /\ top' = [i \in AnalogKeys |->
                  IF pressed[i] THEN Larger(top[i], travel'[i]) ELSE travel'[i]]
    /\ still' = [i \in AnalogKeys |->
                    IF travel'[i] = travel[i]
                    THEN Smaller(still[i] + 1, StillCap) ELSE 0]

\* The bookkeeping of a command.
RememberCommand ==
    /\ still' = [i \in AnalogKeys |-> 0]
    /\ UNCHANGED <<run, high, low, top>>

HInit == Init /\ HistoryInit

HNext == /\ Next
         /\ IF ScanStep THEN RememberScan ELSE RememberCommand

HSpec == HInit /\ [][HNext]_hvars

-----------------------------------------------------------------------------
\* The debounced state of a key flips only after the physical state has held
\* the new value for HE_DEBOUNCE scans in a row ("filtering sensor/ADC noise
\* on both the press and release edges").
DebounceFilters ==
    [][ScanStep => \A i \in Keys :
          he_debounced'[i] # he_debounced[i] => run'[i] >= HE_DEBOUNCE]_hvars

\* In rapid trigger a physical release is earned: the key is in the rest band,
\* or it dropped release_dist below the highest travel since it was pressed.
RTReleaseJustified ==
    [][ScanStep /\ he_mode = HE_MODE_RAPID_TRIGGER =>
         \A i \in AnalogKeys : he_phys_pressed[i] /\ ~he_phys_pressed'[i] =>
            \/ travel'[i] <= he_tuning.deadzone
            \/ Larger(high[i], travel'[i]) - travel'[i]
                  >= he_tuning.release_dist]_hvars

\* ... and so is a press: past the actuation point, or engage above the lowest
\* travel since the release.
RTPressJustified ==
    [][ScanStep /\ he_mode = HE_MODE_RAPID_TRIGGER =>
         \A i \in AnalogKeys : ~he_phys_pressed[i] /\ he_phys_pressed'[i] =>
            /\ travel'[i] > he_tuning.deadzone
            /\ \/ travel'[i] >= actuation[i]
               \/ travel'[i] - Smaller(low[i], travel'[i])
                     >= he_tuning.engage]_hvars

\* "the key releases when travel drops `release_dist` below the peak": a key
\* that rests that far below the highest travel since it was reported pressed,
\* for longer than the debounce needs, is no longer reported.
RTRelativeRelease ==
    \A i \in AnalogKeys :
        he_mode = HE_MODE_RAPID_TRIGGER /\ pressed[i] /\ still[i] = StillCap
            => top[i] - travel[i] < he_tuning.release_dist
=============================================================================
