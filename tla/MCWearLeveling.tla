---------------------------- MODULE MCWearLeveling ----------------------------
(***************************************************************************)
(* A small instance of WearLeveling for TLC: an 8-byte EEPROM with a log   *)
(* of four words and two overlapping blocks, a one-word entry and a block  *)
(* of two entries (two words and one), so that the log fills at the end of *)
(* an entry, inside one and between two.  The byte 48 makes the second     *)
(* word of the long entry look like a header that claims six bytes.        *)
(***************************************************************************)
EXTENDS WearLeveling

Blocks ==
    { [address |-> 2, data |-> <<9>>],
      [address |-> 1, data |-> <<0, 48, 0, 2, 3, 4>>] }
=============================================================================
