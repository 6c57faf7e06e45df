------------------------------ MODULE MCHELight ------------------------------
(***************************************************************************)
(* A small instance of HELightHistory for TLC: two keys on crossed         *)
(* positions of a three-LED strip (as in the right-to-left rows of the     *)
(* real one).                                                              *)
(***************************************************************************)
EXTENDS HELightHistory, TLC

CrossedMap == "a" :> 2 @@ "b" :> 1
=============================================================================
