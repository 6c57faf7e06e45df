---------------------------- MODULE HELightHistory ----------------------------
(***************************************************************************)
(* HELight with history variables: what the lighting was when the running  *)
(* calibration began, as long as that is something the calibration should  *)
(* bring back.  No action of HELight reads them.                           *)
(***************************************************************************)
EXTENDS HELight

VARIABLES
    previous,   \* {the colour before the calibration}; {} once it is restarted
    untouched   \* {the lighting before it}; {} once anything but a scan happens

history == <<previous, untouched>>
hvars   == <<vars, history>>

Lighting == [enable |-> enable, hsv |-> hsv, leds |-> leds, stored |-> stored]

HInit == Init /\ previous = {} /\ untouched = {}

Remember ==
    IF ~he_calibrating /\ he_calibrating'
    THEN previous' = {hsv} /\ untouched' = {Lighting}
    ELSE /\ previous' = IF he_calibrating' /\ ~StartCalibration
                        THEN previous ELSE {}
         /\ untouched' = IF \E deep \in SUBSET AnalogKeys : ScanLatch(deep)
                         THEN untouched ELSE {}

HNext == Next /\ Remember

HSpec == HInit /\ [][HNext]_hvars

-----------------------------------------------------------------------------
\* "restored the previous colour on end": a calibration that was started once
\* and ends on an enabled strip brings back the colour from before its start
\* on every LED, whatever keys turned green and whatever colours, switches and
\* saves came in between; and one in which nothing but scans happened leaves
\* the switch, the colour, each LED and the stored record as they were, on a
\* disabled strip too.  (Nothing is promised after a second start, or when the
\* strip is disabled at the end: both leave red in the configuration.)
CalibrationRestores ==
    [][he_calibrating /\ EndCalibration =>
         /\ \A c \in previous : enable => hsv' = c /\ leds' = AllShow(c)
         /\ \A before \in untouched : Lighting' = before]_hvars
=============================================================================
