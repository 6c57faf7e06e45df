----------------------------- MODULE EepromStore -----------------------------
(***************************************************************************)
(* What the emulated EEPROM promises its clients (eeconfig, VIA, rgblight),*)
(* stated without the write log.                                           *)
(*                                                                         *)
(* `mem` is what a read returns, `disk` what a restart would bring back.   *)
(* A write changes `mem` at once and reaches `disk` in spans of at most    *)
(* MaxSpan bytes.  A span is not atomic: its first byte becomes durable    *)
(* before the others, which read as zero until the span is complete.  Now  *)
(* and then the whole store is wiped and rewritten.  A restart returns     *)
(* exactly `disk`.  Once a flash operation has failed (`sound` is FALSE)   *)
(* nothing is promised until the store has been rewritten or cleared.      *)
(***************************************************************************)
EXTENDS Integers

CONSTANTS LogicalSize, MaxSpan

Addresses == 0..(LogicalSize - 1)
Contents  == [Addresses -> 0..255]
Blank     == [a \in Addresses |-> 0]
Spans     == {s \in {f..l : f, l \in Addresses} : \E a \in s : \A b \in s : b \in a..(a + MaxSpan - 1)}

VARIABLES mem, disk, status, sound

vars == <<mem, disk, status, sound>>

Init ==
    /\ mem = Blank /\ disk = Blank
    /\ status = "off" /\ sound = TRUE

\* The store is up again: reads see what was durable.
Restart ==
    /\ status = "off" /\ status' = "on"
    /\ UNCHANGED <<mem, disk, sound>>

PowerLoss ==
    /\ status' = "off" /\ mem' = disk
    /\ UNCHANGED <<disk, sound>>

\* A client's write is visible to reads and not yet durable.
Update ==
    /\ status = "on"
    /\ mem' \in Contents
    /\ UNCHANGED <<disk, status, sound>>

\* The first byte of a span is durable, the rest of it is lost for now.
Begin(s) ==
    /\ status = "on"
    /\ disk' = [a \in Addresses |->
                    IF a \notin s THEN disk[a]
                    ELSE IF \A b \in s : a <= b THEN mem[a] ELSE 0]
    /\ UNCHANGED <<mem, status, sound>>

\* A span is durable as a whole.
Finish(s) ==
    /\ status = "on"
    /\ disk' = [a \in Addresses |-> IF a \in s THEN mem[a] ELSE disk[a]]
    /\ UNCHANGED <<mem, status, sound>>

Wipe ==
    /\ status = "on" /\ status' = "rewriting"
    /\ disk' = Blank
    /\ UNCHANGED <<mem, sound>>

Rewrite ==
    /\ status = "rewriting" /\ status' = "on"
    /\ disk' = mem
    /\ UNCHANGED <<mem, sound>>

\* A client erases the EEPROM.
Clear ==
    /\ status = "on"
    /\ mem' = Blank /\ disk' = Blank
    /\ UNCHANGED <<status, sound>>

\* A flash operation fails, or power is lost inside an erase.
Fail ==
    /\ mem' \in Contents /\ disk' \in Contents
    /\ status' \in {"off", "on", "rewriting"}
    /\ sound' = FALSE

\* A complete rewrite or a completed erase brings both views together again.
Heal ==
    /\ ~sound
    /\ sound' = TRUE /\ status' = "on"
    /\ mem' \in Contents /\ disk' = mem'

Next ==
    \/ sound /\ (\/ Restart \/ PowerLoss \/ Update \/ Wipe \/ Rewrite \/ Clear
                 \/ \E s \in Spans : Begin(s) \/ Finish(s))
    \/ Fail
    \/ Heal

Spec == Init /\ [][Next]_vars
=============================================================================
