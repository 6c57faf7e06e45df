------------------------------- MODULE MCTimer -------------------------------
(***************************************************************************)
(* A small instance of Timer for TLC: 2^32 is 8, three ticks are two       *)
(* milliseconds, so no power of two is a whole number of seconds, as on    *)
(* the board; a full-width system timer (the Icebreaker HE) and one that   *)
(* wraps twice as often.                                                   *)
(***************************************************************************)
EXTENDS Timer

BothWidths == {Range32, Range32 \div 2}
=============================================================================
