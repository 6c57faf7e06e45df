-------------------------- MODULE MCHEMatrixHistory --------------------------
(***************************************************************************)
(* Small instances of HEMatrixHistory for TLC.                             *)
(***************************************************************************)
EXTENDS HEMatrixHistory

DefaultThresholds == {[actuation |-> 50, release |-> 30]}
HighThresholds    == {[actuation |-> 80, release |-> 30]}

\* Rapid trigger with the board's defaults, and with a low deadzone, where
\* the relative distances decide.
DefaultRT == {[mode |-> 1, tuning |->
                 [deadzone |-> 50, engage |-> 15, release_dist |-> 10]]}
LowRT     == {[mode |-> 1, tuning |->
                 [deadzone |-> 15, engage |-> 15, release_dist |-> 10]]}

\* Rest, and steps of roughly 30, 45 and 100 percent.
StepRaw == {2100, 2300, 2400, 2850}
FewRaw  == {2100, 2500, 2850}

BothRequests == {"start", "end"}
=============================================================================
