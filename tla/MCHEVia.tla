------------------------------- MODULE MCHEVia -------------------------------
(***************************************************************************)
(* Small instances of HEVia for TLC: two sensors, log entries of three     *)
(* bytes, bytes below and inside the ranges, a short auto-save window.     *)
(***************************************************************************)
EXTENDS HEVia

Bytes     == {0}
OneTuning == {[field |-> "release_dist", value |-> 5]}
MCModes   == {2, 7}

\* A cut erase leaves nothing, or what the log holds: the stamps alone, or the
\* stamps and the settings.
NothingSurvives == {{}}
LogSurvives     == {{}, Stamps, Stamps \cup SettingsCells}
=============================================================================
