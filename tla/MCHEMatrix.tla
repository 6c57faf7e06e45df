------------------------------ MODULE MCHEMatrix ------------------------------
(***************************************************************************)
(* Small instances of HEMatrix for TLC.  The limits are those of config.h; *)
(* the readings are a few ADC values that land in each travel band.        *)
(***************************************************************************)
EXTENDS HEMatrix

Default == [actuation |-> 50, release |-> 30]

MCBootDefault == {Default}
MCBootRT      == {[mode |-> 1, tuning |-> DefaultTuning]}
\* A record no setter could have written: every byte out of range.
MCBootBad     == {[mode |-> 255, tuning |-> [deadzone |-> 255, engage |-> 0,
                                             release_dist |-> 255]]}

\* ---- the key-cancel instance
MCPairs    == {<<"a", "d">>}
SocdRaw    == {2150, 2600, 2850}
SocdModes  == {0, 2, 3}

\* ---- the settings instance: every band of travel, every mode, the default,
\* a crossed and a wide pair of thresholds, the tightest and a working tuning
KeyRaw        == {2100, 2500, 2850}
KeyTunings    == {[deadzone |-> 15, engage |-> 20, release_dist |-> 20]}
KeyThresholds == {[actuation |-> 80, release |-> 95],
                  [actuation |-> 85, release |-> 40]}
AllModes      == {0, 1, 2}
BothRequests  == {"start", "end"}
=============================================================================
