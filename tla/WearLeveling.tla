---------------------------- MODULE WearLeveling ----------------------------
(***************************************************************************)
(* QMK's wear-leveling EEPROM (wear_leveling.c) with 4-byte flash writes,  *)
(* as the Icebreaker HE builds it: a RAM cache of the logical bytes, and   *)
(* in flash the consolidated copy of the cache, its 8-byte checksum, and a *)
(* write log that is played back at the next start.                        *)
(*                                                                         *)
(* One step is one flash operation (a word programmed, the sector erased)  *)
(* or one log entry played back; power may fail between any two, and       *)
(* inside an erase.  Flash operations may also fail and say so; after that *)
(* `damaged` holds until the store has been rewritten as a whole.          *)
(*                                                                         *)
(* A flash word is the tuple of its four bytes, after the complement the   *)
(* driver takes (erased flash reads as zeros).  Addresses count bytes.     *)
(***************************************************************************)
EXTENDS Integers, Sequences

CONSTANTS
    WEAR_LEVELING_LOGICAL_SIZE, WEAR_LEVELING_BACKING_SIZE,
    Requests,                   \* [address, data] blocks clients may write
    JunkBytes,                  \* what may lie behind a log entry in RAM
    MaxFaults                   \* bound: flash operations that fail

BACKING_STORE_WRITE_SIZE == 4
LOG_ENTRY_MULTIBYTE_MAX_BYTES == 5
LOG_ENTRY_TYPE_MULTIBYTE == 0
MaxLogicalSize == 524288        \* 19 bits of a log entry are for the address

Byte      == 0..255
Addresses == 0..(WEAR_LEVELING_LOGICAL_SIZE - 1)
LogStart  == WEAR_LEVELING_LOGICAL_SIZE + 8
DataWords == WEAR_LEVELING_LOGICAL_SIZE \div BACKING_STORE_WRITE_SIZE

\* The erased sector goes on behind the backing store.
FlashWords == 0..(WEAR_LEVELING_BACKING_SIZE \div BACKING_STORE_WRITE_SIZE
                  + MaxFaults)

\* The STATIC_ASSERTs of wear_leveling_internal.h, room for a log, addresses
\* that fit the 19 bits of a log entry, and blocks inside the logical store
\* (others are refused before anything happens).
ASSUME StoreSizes ==
    /\ WEAR_LEVELING_LOGICAL_SIZE \in 1..MaxLogicalSize
    /\ WEAR_LEVELING_BACKING_SIZE \in Nat
    /\ WEAR_LEVELING_LOGICAL_SIZE % BACKING_STORE_WRITE_SIZE = 0
    /\ WEAR_LEVELING_BACKING_SIZE % WEAR_LEVELING_LOGICAL_SIZE = 0
    /\ WEAR_LEVELING_BACKING_SIZE >= 2 * WEAR_LEVELING_LOGICAL_SIZE
    /\ WEAR_LEVELING_BACKING_SIZE > LogStart
    /\ MaxFaults \in Nat

ASSUME ClientBlocks ==
    /\ Requests \subseteq [address : Addresses, data : Seq(Byte)]
    /\ \A r \in Requests :
          r.data # <<>> /\ r.address + Len(r.data) <= WEAR_LEVELING_LOGICAL_SIZE
    /\ JunkBytes # {} /\ JunkBytes \subseteq Byte

VARIABLES
    flash,                      \* the words of the sector
    cache, write_address, unlocked,     \* struct wear_leveling
    phase,                      \* what the running call is about to do
    position,                   \* "playback": the log address to read next
    block, sent,                \* "append": the bytes still to log, and the words
                                \* of their first entry already programmed
    copied,                     \* "copy": words of the image already written
    booting,                    \* the call is wear_leveling_init
    faults,                     \* failed flash operations so far
    damaged                     \* one failed since the last full rewrite

driver == <<cache, write_address, unlocked>>
vars == <<flash, driver, phase, position, block, sent, copied, booting, faults,
          damaged>>

Blank  == [a \in Addresses |-> 0]
Zero   == <<0, 0, 0, 0>>
Erased == [w \in FlashWords |-> Zero]
Nothing == [address |-> 0, data |-> <<>>]

WordAt(address) == flash[address \div BACKING_STORE_WRITE_SIZE]

-----------------------------------------------------------------------------
(* The log entry format.                                                   *)

LogHeaderLengthLessOne(address, length) == \* mutant: the length is off by one
    << (LOG_ENTRY_TYPE_MULTIBYTE * 64) + (((length - 1) % 8) * 8)
           + ((address \div 65536) % 8),
       (address \div 256) % 256, address % 256 >>

\* LOG_ENTRY_MAKE_MULTIBYTE
LogHeader(address, length) ==
    << (LOG_ENTRY_TYPE_MULTIBYTE * 64) + ((length % 8) * 8)
           + ((address \div 65536) % 8),
       (address \div 256) % 256, address % 256 >>

\* wear_leveling_write_raw_multibyte: one word, two if length > 1.
Entry(address, data) ==
    LET raw8 == LogHeader(address, Len(data)) \o data
                    \o [i \in 1..(LOG_ENTRY_MULTIBYTE_MAX_BYTES - Len(data)) |-> 0]
    IN  IF Len(data) > 1 THEN <<SubSeq(raw8, 1, 4), SubSeq(raw8, 5, 8)>>
                         ELSE <<SubSeq(raw8, 1, 4)>>

\* wear_leveling_write_raw: entries of at most five bytes, in address order.
Chunk(data) == IF Len(data) >= LOG_ENTRY_MULTIBYTE_MAX_BYTES
               THEN SubSeq(data, 1, LOG_ENTRY_MULTIBYTE_MAX_BYTES) ELSE data

Remaining(b) == [address |-> b.address + Len(Chunk(b.data)),
                 data    |-> SubSeq(b.data, Len(Chunk(b.data)) + 1, Len(b.data))]

\* LOG_ENTRY_GET_TYPE, LOG_ENTRY_MULTIBYTE_GET_ADDRESS and _GET_LENGTH
EntryType(word)    == word[1] \div 64
EntryAddress(word) == (word[1] % 8) * 65536 + word[2] * 256 + word[3]
EntryLength(word)  == (word[1] \div 8) % 8

EntryRefusedTypeOnly(word) == \* mutant: the bound is not checked
    EntryType(word) # LOG_ENTRY_TYPE_MULTIBYTE

EntryRefused(word) ==
    \/ EntryType(word) # LOG_ENTRY_TYPE_MULTIBYTE
    \/ EntryAddress(word) + EntryLength(word) > WEAR_LEVELING_LOGICAL_SIZE

EntrySize(word) == (IF EntryLength(word) > 1 THEN 2 ELSE 1)
                       * BACKING_STORE_WRITE_SIZE

NextSlotPayloadOnly(word) == \* mutant: the header is not counted
    position + EntrySize(word) - BACKING_STORE_WRITE_SIZE

NextSlot(word) == position + EntrySize(word)

\* The bytes an entry carries.  A header that no write produced may claim six
\* or seven; the copy then runs past the entry (`junk`).
EntryBytes(word, next, junk) == <<word[4]>> \o next \o junk

Patched(contents, address, bytes) ==
    LET span == address..(address + Len(bytes) - 1)
    IN  [a \in DOMAIN contents \cup span |->
            IF a \in span THEN bytes[a - address + 1] ELSE contents[a]]

-----------------------------------------------------------------------------
(* The consolidated copy.                                                  *)

\* fnv_64a_buf, as two words; taken to be free of collisions.
Checksum(contents) == << <<1, contents>>, <<2, contents>> >>

ImageWord(contents, n) ==
    IF n < DataWords
    THEN [b \in 1..4 |-> contents[n * BACKING_STORE_WRITE_SIZE + b - 1]]
    ELSE Checksum(contents)[n - DataWords + 1]

StoredBytes(fl) ==
    [a \in Addresses |->
        fl[a \div BACKING_STORE_WRITE_SIZE][(a % BACKING_STORE_WRITE_SIZE) + 1]]

ConsolidatedUnchecked(fl) == StoredBytes(fl) \* mutant: the checksum is ignored

\* wear_leveling_read_consolidated: a mismatch gives a blank cache.
Consolidated(fl) ==
    IF <<fl[DataWords], fl[DataWords + 1]>> = Checksum(StoredBytes(fl))
    THEN StoredBytes(fl) ELSE Blank

-----------------------------------------------------------------------------
(* The flash driver (wear_leveling_efl.c over the ChibiOS EFL).            *)

\* Programming can only set bits that an erase has cleared.
BitOr(x, y, unit) ==
    IF (x \div unit) % 2 = 1 \/ (y \div unit) % 2 = 1 THEN unit ELSE 0

ByteOr(x, y) ==
    BitOr(x, y, 128) + BitOr(x, y, 64) + BitOr(x, y, 32) + BitOr(x, y, 16)
        + BitOr(x, y, 8) + BitOr(x, y, 4) + BitOr(x, y, 2) + BitOr(x, y, 1)

Programmed(old, new) ==
    IF old = Zero THEN new ELSE [b \in 1..4 |-> ByteOr(old[b], new[b])]

\* backing_store_write
Program(word, value) ==
    flash' = [flash EXCEPT ![word] = Programmed(flash[word], value)]

NoFault   == UNCHANGED <<faults, damaged>>
Faulty    == faults < MaxFaults /\ faults' = faults + 1 /\ damaged' = TRUE

-----------------------------------------------------------------------------
TypeOK ==
    /\ DOMAIN flash = FlashWords
    /\ \A w \in FlashWords \ {DataWords, DataWords + 1} :
            flash[w] \in [1..4 -> Byte]
    /\ cache \in [Addresses -> Byte]
    /\ write_address % BACKING_STORE_WRITE_SIZE = 0
    /\ write_address \in LogStart..(WEAR_LEVELING_BACKING_SIZE
                                     + (MaxFaults + 1) * BACKING_STORE_WRITE_SIZE)
    /\ unlocked \in BOOLEAN /\ booting \in BOOLEAN /\ damaged \in BOOLEAN
    /\ phase \in {"off", "playback", "idle", "append", "consolidate", "copy",
                  "erase"}
    /\ position % BACKING_STORE_WRITE_SIZE = 0
    /\ position \in LogStart..(WEAR_LEVELING_BACKING_SIZE + BACKING_STORE_WRITE_SIZE)
    /\ block \in [address : Nat, data : Seq(Byte)]
    /\ block.address + Len(block.data) <= WEAR_LEVELING_LOGICAL_SIZE
    /\ sent \in {0, 1}
    /\ copied \in 0..(DataWords + 1)
    /\ faults \in 0..MaxFaults

\* RAM after power-up: static storage is zero.
NoCall == /\ block' = Nothing /\ sent' = 0 /\ copied' = 0 /\ booting' = FALSE
          /\ position' = LogStart

\* A new board: blank flash, powered off.
Init ==
    /\ flash = Erased
    /\ cache = Blank /\ write_address = LogStart /\ unlocked = FALSE
    /\ phase = "off" /\ position = LogStart /\ copied = 0
    /\ block = Nothing /\ sent = 0
    /\ booting = FALSE /\ faults = 0 /\ damaged = FALSE

-----------------------------------------------------------------------------
(* wear_leveling_init                                                      *)

\* Reset the cache, lock the store (backing_store_init), read the consolidated
\* copy; the log comes next.
PowerOn ==
    /\ phase = "off" /\ phase' = "playback"
    /\ booting' = TRUE
    /\ cache' = Consolidated(flash)
    /\ write_address' = LogStart
    /\ unlocked' = FALSE
    /\ position' = LogStart
    /\ UNCHANGED <<flash, block, sent, copied, faults, damaged>>

LogContinues ==
    /\ position < WEAR_LEVELING_BACKING_SIZE
    /\ WordAt(position) # Zero

\* wear_leveling_playback_log: one entry.  An entry that cannot be right ends
\* the playback and forces a consolidation of what there is.
PlayEntry ==
    /\ phase = "playback" /\ LogContinues
    /\ LET word == WordAt(position) IN
       \/ /\ EntryRefused(word)
          /\ write_address' = position + BACKING_STORE_WRITE_SIZE
          /\ phase' = "consolidate"
          /\ UNCHANGED <<cache, position>>
       \/ /\ ~EntryRefused(word)
          /\ \E junk \in IF EntryLength(word) > LOG_ENTRY_MULTIBYTE_MAX_BYTES
                         THEN [1..2 -> JunkBytes] ELSE {<<>>} :
                cache' = Patched(cache, EntryAddress(word),
                             SubSeq(EntryBytes(word,
                                        WordAt(position + BACKING_STORE_WRITE_SIZE),
                                        junk),
                                    1, EntryLength(word)))
          /\ position' = NextSlot(word)
          /\ UNCHANGED <<write_address, phase>>
    /\ UNCHANGED <<flash, unlocked, block, sent, copied, booting, faults, damaged>>

LogFullLate(address) == address > WEAR_LEVELING_BACKING_SIZE \* mutant: one slot too late

\* wear_leveling_consolidate_if_needed
LogFull(address) == address >= WEAR_LEVELING_BACKING_SIZE

\* An empty slot, or the end of the store: this is where the log goes on.
PlayEnd ==
    /\ phase = "playback" /\ ~LogContinues
    /\ write_address' = position
    /\ position' = LogStart
    /\ IF LogFull(position)
       THEN phase' = "consolidate" /\ UNCHANGED booting
       ELSE phase' = "idle" /\ booting' = FALSE
    /\ UNCHANGED <<flash, cache, unlocked, block, sent, copied, faults, damaged>>

-----------------------------------------------------------------------------
(* wear_leveling_write                                                     *)

\* The cache first; then unlock, or give up.
WriteBlock(r) ==
    /\ phase = "idle"
    /\ cache' = Patched(cache, r.address, r.data)
    /\ cache' # cache
    /\ \/ /\ unlocked' = TRUE
          /\ phase' = "append"
          /\ block' = r /\ sent' = 0
          /\ NoFault
       \/ /\ Faulty
          /\ UNCHANGED <<unlocked, phase, block, sent>>
    /\ UNCHANGED <<flash, write_address, position, copied, booting>>

\* Back to the caller, which locks the store again.
Return == /\ phase' = "idle" /\ unlocked' = FALSE
          /\ NoCall

\* wear_leveling_append_raw: a full log is consolidated at once, and then the
\* rest of the block need not be logged; a failed word abandons the block.
AppendRaw ==
    /\ phase = "append"
    /\ LET entry == Entry(block.address, Chunk(block.data)) IN
       \/ /\ Program(write_address \div BACKING_STORE_WRITE_SIZE, entry[sent + 1])
          /\ write_address' = write_address + BACKING_STORE_WRITE_SIZE
          /\ NoFault
          /\ IF LogFull(write_address')
             THEN /\ phase' = "consolidate" /\ block' = Nothing /\ sent' = 0
                  /\ UNCHANGED <<unlocked, position, copied, booting>>
             ELSE IF sent + 1 < Len(entry)
             THEN /\ sent' = sent + 1
                  /\ UNCHANGED <<phase, unlocked, position, block, copied, booting>>
             ELSE IF Remaining(block).data = <<>> THEN Return
             ELSE /\ block' = Remaining(block) /\ sent' = 0
                  /\ UNCHANGED <<phase, unlocked, position, copied, booting>>
       \/ /\ Faulty
          /\ Return
          /\ UNCHANGED <<flash, write_address>>
    /\ UNCHANGED cache

\* A failed init clears the cache, and with it the write address.
Failed(address) ==
    /\ Return
    /\ cache' = IF booting THEN Blank ELSE cache
    /\ write_address' = IF booting THEN LogStart ELSE address

\* wear_leveling_consolidate_force: the erase.  write_consolidated unlocks the
\* store if a boot comes this way.
ConsolidateErase ==
    /\ phase = "consolidate"
    /\ \/ /\ flash' = Erased
          /\ phase' = "copy" /\ copied' = 0
          /\ unlocked' = TRUE
          /\ NoFault
          /\ UNCHANGED <<cache, write_address, position, block, sent, booting>>
       \/ /\ Faulty
          /\ Failed(write_address)
          /\ UNCHANGED flash

\* wear_leveling_write_consolidated, word by word; the write address is reset
\* whether it succeeds or not.
CopyWord ==
    /\ phase = "copy"
    /\ \/ /\ Program(copied, ImageWord(cache, copied))
          /\ UNCHANGED <<cache, faults>>
          /\ IF copied = DataWords + 1
             THEN /\ Return
                  /\ write_address' = LogStart
                  /\ damaged' = FALSE
             ELSE /\ copied' = copied + 1
                  /\ UNCHANGED <<write_address, unlocked, phase, position, block,
                                 sent, booting, damaged>>
       \/ /\ Faulty
          /\ Failed(LogStart)
          /\ UNCHANGED flash

-----------------------------------------------------------------------------
(* wear_leveling_erase, from eeprom_driver_format and eeprom_driver_erase  *)

\* A failed unlock changes nothing and is left out.
EraseCall ==
    /\ phase = "idle" /\ phase' = "erase"
    /\ unlocked' = TRUE
    /\ UNCHANGED <<flash, cache, write_address, position, block, sent, copied, booting,
                   faults, damaged>>

EraseStore ==
    /\ phase = "erase"
    /\ \/ flash' = Erased /\ damaged' = FALSE /\ UNCHANGED faults
       \/ UNCHANGED flash /\ Faulty
    /\ cache' = Blank /\ write_address' = LogStart
    /\ Return

-----------------------------------------------------------------------------
(* Power.                                                                  *)

Off ==
    /\ phase' = "off"
    /\ cache' = Blank /\ write_address' = LogStart /\ unlocked' = FALSE
    /\ NoCall

PowerLoss ==
    /\ phase # "off"
    /\ Off
    /\ NoFault
    /\ UNCHANGED flash

\* Power fails inside an erase: the first words are gone, the others remain.
PowerLossInErase ==
    /\ phase \in {"consolidate", "erase"}
    /\ \E n \in FlashWords \ {0} :
          flash' = [w \in FlashWords |-> IF w < n THEN Zero ELSE flash[w]]
    /\ Faulty
    /\ Off

Next ==
    \/ PowerOn \/ PlayEntry \/ PlayEnd
    \/ \E r \in Requests : WriteBlock(r)
    \/ AppendRaw \/ ConsolidateErase \/ CopyWord
    \/ EraseCall \/ EraseStore
    \/ PowerLoss \/ PowerLossInErase

Spec == Init /\ [][Next]_vars

\* The calls are straight-line code over a driver that always answers.
Fairness == WF_vars(PlayEntry \/ PlayEnd \/ AppendRaw \/ ConsolidateErase
                        \/ CopyWord \/ EraseStore)

FairSpec == Spec /\ Fairness

-----------------------------------------------------------------------------
(* What a restart would bring back.                                        *)

\* A playback of the log in fl that has come to `at` and holds `contents` goes
\* on by one entry, or is over.
PlayedOn(fl, s) ==
    LET word == fl[s.at \div BACKING_STORE_WRITE_SIZE]
        next == fl[s.at \div BACKING_STORE_WRITE_SIZE + 1]
    IN  IF s.at >= WEAR_LEVELING_BACKING_SIZE \/ word = Zero \/ EntryRefused(word)
        THEN s
        ELSE [contents |-> Patched(s.contents, EntryAddress(word),
                               SubSeq(EntryBytes(word, next, <<0, 0>>),
                                      1, EntryLength(word))),
              at       |-> s.at + EntrySize(word)]

\* The playback after n entries, from the consolidated copy on.  (Drawing the
\* state before from a singleton makes TLC evaluate it once.)
Played(fl) ==
    LET after[n \in Nat] ==
            IF n = 0 THEN [contents |-> Consolidated(fl), at |-> LogStart]
            ELSE CHOOSE t \in {PlayedOn(fl, s) : s \in {after[n - 1]}} : TRUE
    IN  after

\* The log has no more entries than the backing store has words.
Replayed == Played(flash)[WEAR_LEVELING_BACKING_SIZE \div BACKING_STORE_WRITE_SIZE]

Durable == Replayed.contents

Status == CASE phase \in {"off", "playback"} -> "off"
            [] phase = "copy"                -> "rewriting"
            [] OTHER                         -> "on"

Store == INSTANCE EepromStore WITH
             LogicalSize <- WEAR_LEVELING_LOGICAL_SIZE,
             MaxSpan     <- LOG_ENTRY_MULTIBYTE_MAX_BYTES,
             mem         <- IF Status = "off" THEN Durable ELSE cache,
             disk        <- Durable,
             status      <- Status,
             sound       <- ~damaged

-----------------------------------------------------------------------------
(* Properties.                                                             *)

\* The driver implements the store its clients rely on: whatever sequence of
\* writes, consolidations, erases and power failures came before, a restart
\* returns exactly what is durable, and durability only changes by a log entry
\* becoming visible (first byte, then all of it), a wipe or a full rewrite.
ImplementsStore == Store!Spec

\* Between calls, as long as no flash operation has failed, a restart would
\* rebuild the cache byte for byte and find the same place to append to; so no
\* acknowledged write is lost and the next entry never hides behind an empty
\* slot or lands inside an older entry.
LogReadsBack ==
    phase = "idle" /\ ~damaged => /\ Durable = cache
                                  /\ Replayed.at = write_address

\* "Address would result of out-of-bounds access", "Write was attempted without
\* being unlocked first" (the assertions of the mock backing store), and flash
\* is erased where it is programmed: the driver never appends to a full log,
\* to a locked store or over a word that still holds something.
ProgramsErasedFlash ==
    ~damaged =>
        /\ phase = "append" => /\ unlocked
                               /\ write_address < WEAR_LEVELING_BACKING_SIZE
                               /\ WordAt(write_address) = Zero
        /\ phase = "copy" => unlocked /\ flash[copied] = Zero

\* A start always comes to an end, whatever is in the log: the playback never
\* reads the same slot for ever, also after failed writes and cut erases.
StartCompletes == phase = "playback" ~> phase \in {"idle", "off"}
=============================================================================
