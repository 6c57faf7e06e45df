------------------------------- MODULE MCHEMux -------------------------------
(***************************************************************************)
(* The real board for TLC: all 69 sensors, five chips, four address lines, *)
(* and a few sets of reported keys (key-cancel keys, neighbours in a row,  *)
(* the two sensors with the same channel bytes, everything).               *)
(***************************************************************************)
EXTENDS HEMux

MCPressed == {{}, {18, 68}, {32, 34, 47}, {0, 15, 16, 30}, Sensors}
=============================================================================
