----------------------------- MODULE MCViaKeymap -----------------------------
(***************************************************************************)
(* A small instance of ViaKeymap for TLC: two layers of 2 x 3 keys, one    *)
(* encoder, six macro bytes and two builds.  No byte of one build's keymap *)
(* or requests is a byte of the other's, so a left-over shows.             *)
(***************************************************************************)
EXTENDS ViaKeymap

\* Buffer writes run over the end of the keymap; one key is off the matrix.
RequestsOf(n) ==
    { [kind |-> "key", layer |-> 1, row |-> 0, column |-> 2, keycode |-> n * 256 + n + 1],
      [kind |-> "key", layer |-> 0, row |-> 2, column |-> 0, keycode |-> n * 256 + n + 1],
      [kind |-> "encoder", layer |-> 1, encoder |-> 0, clockwise |-> FALSE,
       keycode |-> n * 256 + n + 2],
      [kind |-> "keymap", offset |-> KeymapSize - 2, data |-> <<n + 3, n + 4, n + 5>>],
      [kind |-> "options", value |-> 257],
      [kind |-> "reset"], [kind |-> "macro_reset"] }

BuildOf(date, n, images) ==
    [ magic      |-> date,
      keymap     |-> [p \in Positions |-> (n + p[1]) * 256 + n + 2 + p[3]],
      encodermap |-> [t \in Turns |-> (n + 6) * 256 + n + 7],
      requests   |-> RequestsOf(n + 10),
      images     |-> images ]

\* The dates differ in the last byte only.  The images have a key sequence and a delay.
TwoBuilds ==
    [ old |-> BuildOf(<<36, 17, 5>>, 20, {<<65, 0, 66, 67, 0, 0>>, <<68, 1, 2, 9, 0, 0>>}),
      new |-> BuildOf(<<36, 17, 6>>, 60, {<<72, 0, 1, 4, 53, 0>>}) ]
=============================================================================
