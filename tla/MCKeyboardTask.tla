---------------------------- MODULE MCKeyboardTask ----------------------------
(***************************************************************************)
(* A small instance of KeyboardTask for TLC: a key-cancel pair (keys 1 and *)
(* 3, of which a scan reports at most one) around an ordinary key, and the *)
(* knob.                                                                   *)
(***************************************************************************)
EXTENDS KeyboardTask

PairStates == {s \in SUBSET {1, 2, 3} : ~({1, 3} \subseteq s)}
=============================================================================
