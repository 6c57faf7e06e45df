------------------------------ MODULE ViaKeymap ------------------------------
(***************************************************************************)
(* VIA's dynamic keymap, encoder map and macros in the emulated EEPROM:    *)
(* via.c, dynamic_keymap.c and nvm_dynamic_keymap.c on the Icebreaker HE.  *)
(*                                                                         *)
(* A command from the host is the list of byte writes its handler makes;   *)
(* each eeprom_update_byte is one step and power may fail between any two. *)
(* The host uploads a macro buffer in the order dynamic_keymap.h asks of   *)
(* it, may give up at any point, and the user may press a macro key at any *)
(* moment.  Each firmware build has its own date stamp and default keymap. *)
(***************************************************************************)
EXTENDS Integers, Sequences, SequencesExt, FiniteSetsExt

CONSTANTS
    DYNAMIC_KEYMAP_LAYER_COUNT, MATRIX_ROWS, MATRIX_COLS, NUM_ENCODERS,
    DYNAMIC_KEYMAP_MACRO_COUNT, DYNAMIC_KEYMAP_MACRO_EEPROM_SIZE,
    ChunkSize,          \* macro bytes in one raw HID report (28)
    Firmware,           \* the builds: [magic, keymap, encodermap, requests, images]
    KC_NO

Layers    == 0..(DYNAMIC_KEYMAP_LAYER_COUNT - 1)
Positions == Layers \X (0..(MATRIX_ROWS - 1)) \X (0..(MATRIX_COLS - 1))
Turns     == Layers \X (0..(NUM_ENCODERS - 1)) \X BOOLEAN

\* The layout of the EEPROM: eeconfig's magic (one byte here), VIA's magic,
\* the layout options, keymap, encoder map and macros.
EECONFIG_MAGIC                     == 0
VIA_EEPROM_MAGIC_ADDR              == 1
VIA_EEPROM_LAYOUT_OPTIONS_ADDR     == VIA_EEPROM_MAGIC_ADDR + 3
DYNAMIC_KEYMAP_EEPROM_ADDR         == VIA_EEPROM_LAYOUT_OPTIONS_ADDR + 1
KeymapSize  == DYNAMIC_KEYMAP_LAYER_COUNT * MATRIX_ROWS * MATRIX_COLS * 2
DYNAMIC_KEYMAP_ENCODER_EEPROM_ADDR == DYNAMIC_KEYMAP_EEPROM_ADDR + KeymapSize
DYNAMIC_KEYMAP_MACRO_EEPROM_ADDR   ==
    DYNAMIC_KEYMAP_ENCODER_EEPROM_ADDR
        + DYNAMIC_KEYMAP_LAYER_COUNT * NUM_ENCODERS * 2 * 2

KeymapCells  == DYNAMIC_KEYMAP_EEPROM_ADDR
                  ..(DYNAMIC_KEYMAP_ENCODER_EEPROM_ADDR - 1)
EncoderCells == DYNAMIC_KEYMAP_ENCODER_EEPROM_ADDR
                  ..(DYNAMIC_KEYMAP_MACRO_EEPROM_ADDR - 1)
EepromEnd    == DYNAMIC_KEYMAP_MACRO_EEPROM_ADDR + DYNAMIC_KEYMAP_MACRO_EEPROM_SIZE
MacroCells   == DYNAMIC_KEYMAP_MACRO_EEPROM_ADDR..(EepromEnd - 1)
Addresses    == 0..(EepromEnd - 1)

Byte     == 0..255
Builds   == DOMAIN Firmware
Word     == 0..65535
Keycodes == Word
Images   == [1..DYNAMIC_KEYMAP_MACRO_EEPROM_SIZE -> Byte]

\* The commands that write, as raw_hid_receive decodes them.  A host writes
\* macros as one upload, see below.
OptionsRequest == [kind : {"options"}, value : Nat]
KeyRequest     == [kind : {"key"}, layer : Byte, row : Byte, column : Byte, keycode : Keycodes]
EncoderRequest == [kind : {"encoder"}, layer : Byte, encoder : Byte, clockwise : BOOLEAN,
                   keycode : Keycodes]
BufferRequest  == [kind : {"keymap"}, offset : Word, data : Seq(Byte)]
ResetRequest   == [kind : {"reset", "macro_reset"}]
Requests == OptionsRequest \cup KeyRequest \cup EncoderRequest
              \cup BufferRequest \cup ResetRequest

ASSUME SizesAreSane ==
    /\ {DYNAMIC_KEYMAP_LAYER_COUNT, MATRIX_ROWS, MATRIX_COLS} \subseteq Nat \ {0}
    /\ {NUM_ENCODERS, DYNAMIC_KEYMAP_MACRO_COUNT} \subseteq Nat
    /\ {DYNAMIC_KEYMAP_MACRO_EEPROM_SIZE, ChunkSize} \subseteq Nat \ {0}

\* The magic is year, month and day of the build in BCD; no day is zero.
\* A macro buffer is a list of strings, each ended by a zero byte.
ASSUME BuildsAreSane ==
    \A b \in Builds :
        /\ Firmware[b].magic \in [1..3 -> Byte]
        /\ Firmware[b].magic[3] \in 1..49
        /\ Firmware[b].keymap \in [Positions -> Keycodes]
        /\ Firmware[b].encodermap \in [Turns -> Keycodes]
        /\ Firmware[b].requests \subseteq Requests
        /\ Firmware[b].images \subseteq {i \in Images : Last(i) = 0}

VARIABLES
    eeprom,             \* the bytes, as the wear-leveling driver reads them
    build,              \* the firmware in flash
    on,
    command,            \* the command being executed, or the last one
    todo,               \* the byte writes it has still to make
    upload              \* the host's macro upload: image and bytes sent

vars == <<eeprom, build, on, command, todo, upload>>

NoUpload == [image |-> <<>>, sent |-> 0]
Zeroed   == [a \in Addresses |-> 0]

-----------------------------------------------------------------------------
(* The byte writes of each handler.                                        *)

Write(address, value) == [address |-> address, value |-> value]

\* Big endian, so the host can read and write the bytes directly.
KeycodeBytes(keycode) == <<keycode \div 256, keycode % 256>>

KeycodeWritesLittleEndian(address, keycode) == \* mutant: bytes swapped
    <<Write(address, keycode % 256), Write(address + 1, keycode \div 256)>>

KeycodeWrites(address, keycode) ==
    <<Write(address, KeycodeBytes(keycode)[1]), Write(address + 1, KeycodeBytes(keycode)[2])>>

\* dynamic_keymap_key_to_eeprom_address
KeyAddress(layer, row, column) ==
    DYNAMIC_KEYMAP_EEPROM_ADDR + (layer * MATRIX_ROWS * MATRIX_COLS * 2)
        + (row * MATRIX_COLS * 2) + (column * 2)

\* dynamic_keymap_encoder_to_eeprom_address
EncoderAddress(layer, encoder, clockwise) ==
    DYNAMIC_KEYMAP_ENCODER_EEPROM_ADDR + (layer * NUM_ENCODERS * 2 * 2)
        + (encoder * 2 * 2) + (IF clockwise THEN 0 ELSE 2)

\* nvm_dynamic_keymap_update_keycode
SetKeycode(layer, row, column, keycode) ==
    IF <<layer, row, column>> \notin Positions THEN <<>>
    ELSE KeycodeWrites(KeyAddress(layer, row, column), keycode)

\* nvm_dynamic_keymap_update_encoder
SetEncoder(layer, encoder, clockwise, keycode) ==
    IF <<layer, encoder, clockwise>> \notin Turns THEN <<>>
    ELSE KeycodeWrites(EncoderAddress(layer, encoder, clockwise), keycode)

BufferWritesOffsetOnly(start, size, offset, data) == \* mutant: bounds the start
    [i \in 1..(IF offset < size THEN Len(data) ELSE 0) |->
        Write(start + offset + i - 1, data[i])]

\* nvm_dynamic_keymap_update_buffer and _macro_update_buffer: the bytes that
\* fall behind the end are not written.
BufferWrites(start, size, offset, data) ==
    [i \in 1..Min({Len(data), size - offset}) |-> Write(start + offset + i - 1, data[i])]

KeymapBufferWrites(offset, data) ==
    BufferWrites(DYNAMIC_KEYMAP_EEPROM_ADDR, KeymapSize, offset, data)
MacroBufferWrites(offset, data) ==
    BufferWrites(DYNAMIC_KEYMAP_MACRO_EEPROM_ADDR,
                 DYNAMIC_KEYMAP_MACRO_EEPROM_SIZE, offset, data)

\* dynamic_keymap_reset: layer by layer, keys by row and column, then encoders.
KeymapReset(b) ==
    LET key(l, k)  == SetKeycode(l, k \div MATRIX_COLS, k % MATRIX_COLS,
                          Firmware[b].keymap[<<l, k \div MATRIX_COLS, k % MATRIX_COLS>>])
        turn(l, e, clockwise) ==
            SetEncoder(l, e, clockwise, Firmware[b].encodermap[<<l, e, clockwise>>])
    IN  FlattenSeq([l \in 1..DYNAMIC_KEYMAP_LAYER_COUNT |->
            FlattenSeq([k \in 1..(MATRIX_ROWS * MATRIX_COLS) |-> key(l - 1, k - 1)])
            \o FlattenSeq([e \in 1..NUM_ENCODERS |->
                    turn(l - 1, e - 1, TRUE) \o turn(l - 1, e - 1, FALSE)])])

\* nvm_dynamic_keymap_macro_reset; its 16-byte blocks reach the flash in
\* address order, and a half written block of zeros reads as zeros.
MacroReset ==
    [i \in 1..DYNAMIC_KEYMAP_MACRO_EEPROM_SIZE |->
        Write(DYNAMIC_KEYMAP_MACRO_EEPROM_ADDR + i - 1, 0)]

\* via_set_layout_options: one byte of the 32-bit value.
SetLayoutOptions(value) == <<Write(VIA_EEPROM_LAYOUT_OPTIONS_ADDR, value % 256)>>

\* via_eeprom_set_valid
SetMagic(magic) == [i \in 1..3 |-> Write(VIA_EEPROM_MAGIC_ADDR + i - 1, magic[i])]

InitViaMagicFirst(b) == \* mutant: the magic is not saved last
    SetMagic(Firmware[b].magic) \o SetLayoutOptions(0) \o KeymapReset(b) \o MacroReset

\* eeconfig_init_via
InitVia(b) ==
    SetMagic(<<255, 255, 255>>)
        \o SetLayoutOptions(0) \o KeymapReset(b) \o MacroReset
        \o SetMagic(Firmware[b].magic)

\* raw_hid_receive: the commands that write.
CommandWrites(q) ==
    CASE q.kind = "options"     -> SetLayoutOptions(q.value)
      [] q.kind = "key"         -> SetKeycode(q.layer, q.row, q.column, q.keycode)
      [] q.kind = "encoder"     -> SetEncoder(q.layer, q.encoder, q.clockwise, q.keycode)
      [] q.kind = "keymap"      -> KeymapBufferWrites(q.offset, q.data)
      [] q.kind = "macros"      -> MacroBufferWrites(q.offset, q.data)
      [] q.kind = "reset"       -> KeymapReset(build)
      [] q.kind = "macro_reset" -> MacroReset

-----------------------------------------------------------------------------
(* Reads.                                                                  *)

\* via_eeprom_is_valid
Valid(b) == \A i \in 1..3 : eeprom[VIA_EEPROM_MAGIC_ADDR + i - 1] = Firmware[b].magic[i]

\* eeconfig_is_enabled
Enabled == eeprom[EECONFIG_MAGIC] = 1 /\ Valid(build)

\* nvm_dynamic_keymap_read_keycode and _read_encoder
KeycodeAt(address) == eeprom[address] * 256 + eeprom[address + 1]

GetKeycode(layer, row, column) ==
    IF <<layer, row, column>> \notin Positions THEN KC_NO
    ELSE KeycodeAt(KeyAddress(layer, row, column))

GetEncoder(layer, encoder, clockwise) ==
    IF <<layer, encoder, clockwise>> \notin Turns THEN KC_NO
    ELSE KeycodeAt(EncoderAddress(layer, encoder, clockwise))

\* nvm_dynamic_keymap_macro_read_buffer, one byte: zero behind the end.
MacroByte(offset) ==
    IF offset < DYNAMIC_KEYMAP_MACRO_EEPROM_SIZE
    THEN eeprom[DYNAMIC_KEYMAP_MACRO_EEPROM_ADDR + offset] ELSE 0

-----------------------------------------------------------------------------
(* Sending a macro.                                                        *)

SS_QMK_PREFIX == 1
KeyCodes      == 1..3       \* SS_TAP_CODE, SS_DOWN_CODE, SS_UP_CODE
SS_DELAY_CODE == 4
Digits        == 48..57

\* A sequence of three bytes may start at the last one of the buffer.
Reach == DYNAMIC_KEYMAP_MACRO_EEPROM_SIZE + 3

\* What the getter returns, offset by offset.
Buffer == [o \in 0..(Reach + 2) |-> MacroByte(o)]

\* send_string_with_delay_impl: what is sent from `offset` on.  A sequence
\* starts with SS_QMK_PREFIX; a delay is digits and one more byte.
SendString(bytes, offset) ==
    LET digits[o \in 0..Reach] == IF bytes[o] \in Digits THEN digits[o + 1] ELSE o
        from[o \in 0..Reach] ==
            LET code == bytes[o + 1] IN
            CASE bytes[o] = 0                        -> <<>>
              [] bytes[o] \notin {0, SS_QMK_PREFIX}  -> <<bytes[o]>> \o from[o + 1]
              [] bytes[o] = SS_QMK_PREFIX ->
                    CASE code = 0             -> <<>>
                      [] code \in KeyCodes    -> <<code, bytes[o + 2]>> \o from[o + 3]
                      [] code = SS_DELAY_CODE ->
                            IF bytes[digits[o + 2]] = 0 THEN <<>>
                            ELSE from[digits[o + 2] + 1]
                      [] OTHER                -> from[o + 2]
    IN  from[offset]

SendableAnyway == TRUE \* mutant: the valid flag is ignored

\* The last byte is not zero while a buffer is being written.
Sendable == MacroByte(DYNAMIC_KEYMAP_MACRO_EEPROM_SIZE - 1) = 0

\* The first offset behind `id` zero bytes, or nowhere.
MacroStart(id) ==
    LET passed[o \in 0..DYNAMIC_KEYMAP_MACRO_EEPROM_SIZE] ==
            IF o = 0 THEN 0
            ELSE passed[o - 1] + (IF MacroByte(o - 1) = 0 THEN 1 ELSE 0)
        behind == {o \in 0..DYNAMIC_KEYMAP_MACRO_EEPROM_SIZE : passed[o] = id}
    IN  IF behind = {} THEN -1 ELSE Min(behind)

\* dynamic_keymap_macro_send
MacroSend(id) ==
    IF id >= DYNAMIC_KEYMAP_MACRO_COUNT \/ ~Sendable \/ MacroStart(id) = -1
    THEN <<>>
    ELSE SendString(Buffer, MacroStart(id))

-----------------------------------------------------------------------------
NoCommand   == [kind |-> "none"]
InitCommand == [kind |-> "init"]

MacroRequest == [kind : {"macros"}, offset : Nat, data : Seq(Byte)]

Commands == {NoCommand, InitCommand} \cup Requests \cup MacroRequest

TypeOK ==
    /\ eeprom \in [Addresses -> Byte]
    /\ build \in Builds
    /\ on \in BOOLEAN
    /\ command \in Commands
    /\ todo \in Seq([address : Addresses, value : Byte])
    /\ upload \in {NoUpload} \cup
          [image : Firmware[build].images, sent : 0..(DYNAMIC_KEYMAP_MACRO_EEPROM_SIZE - 1)]

\* A blank EEPROM.
Init ==
    /\ eeprom = Zeroed
    /\ build \in Builds
    /\ on = FALSE
    /\ command = NoCommand /\ todo = <<>> /\ upload = NoUpload

\* keyboard_pre_init_kb: eeconfig_init erases, enables and calls
\* eeconfig_init_via.  via_init and quantum_init then find all in order.
PowerOn ==
    /\ ~on /\ on' = TRUE
    /\ IF Enabled
       THEN UNCHANGED <<eeprom, todo, command>>
       ELSE /\ eeprom' = Zeroed
            /\ todo' = <<Write(EECONFIG_MAGIC, 1)>> \o InitVia(build)
            /\ command' = InitCommand
    /\ UNCHANGED <<build, upload>>

\* eeprom_update_byte
WriteByte ==
    /\ on /\ todo # <<>>
    /\ eeprom' = [eeprom EXCEPT ![Head(todo).address] = Head(todo).value]
    /\ todo' = Tail(todo)
    /\ UNCHANGED <<build, on, command, upload>>

Idle == on /\ todo = <<>>

Execute(q) == command' = q /\ todo' = CommandWrites(q)

\* A command from the host; it does not reset macros during its own upload.
HostCommand(q) ==
    /\ Idle
    /\ q.kind = "macro_reset" => upload = NoUpload
    /\ Execute(q)
    /\ UNCHANGED <<eeprom, build, on, upload>>

MacroSetBuffer(offset, data) ==
    Execute([kind |-> "macros", offset |-> offset, data |-> data])

\* The host's upload: flag the buffer as being written, send it in order, and
\* clear the flag with or after the last chunk.
UploadBegin(image) ==
    /\ Idle /\ upload = NoUpload
    /\ upload' = [image |-> image, sent |-> 0]
    /\ MacroSetBuffer(DYNAMIC_KEYMAP_MACRO_EEPROM_SIZE - 1, <<255>>)
    /\ UNCHANGED <<eeprom, build, on>>

UploadChunk ==
    /\ Idle /\ upload # NoUpload
    /\ LET next == Min({upload.sent + ChunkSize, Len(upload.image)}) IN
        /\ MacroSetBuffer(upload.sent, SubSeq(upload.image, upload.sent + 1, next))
        /\ upload' = IF next = Len(upload.image) THEN NoUpload
                     ELSE [upload EXCEPT !.sent = next]
    /\ UNCHANGED <<eeprom, build, on>>

\* The transfer is cut on the host's side; another may be started.
UploadAbort ==
    /\ Idle /\ upload # NoUpload /\ upload' = NoUpload
    /\ UNCHANGED <<eeprom, build, on, command, todo>>

\* QK_CLEAR_EEPROM: eeconfig_disable erases everything, then a soft reset.
ClearEeprom ==
    /\ Idle
    /\ eeprom' = [Zeroed EXCEPT ![EECONFIG_MAGIC] = 255]
    /\ on' = FALSE /\ command' = NoCommand /\ upload' = NoUpload
    /\ UNCHANGED <<build, todo>>

PowerLoss ==
    /\ on /\ on' = FALSE
    /\ command' = NoCommand /\ todo' = <<>> /\ upload' = NoUpload
    /\ UNCHANGED <<eeprom, build>>

Reflash(b) ==
    /\ ~on /\ build' = b
    /\ UNCHANGED <<eeprom, on, command, todo, upload>>

Next ==
    \/ PowerOn \/ WriteByte
    \/ \E q \in Firmware[build].requests : HostCommand(q)
    \/ \E image \in Firmware[build].images : UploadBegin(image)
    \/ UploadChunk \/ UploadAbort
    \/ ClearEeprom \/ PowerLoss
    \/ \E b \in Builds : Reflash(b)

Spec == Init /\ [][Next]_vars

-----------------------------------------------------------------------------
(* Properties.                                                             *)

DataOf(q) ==
    IF q.kind \in {"key", "encoder"} THEN Range(KeycodeBytes(q.keycode))
    ELSE IF q.kind = "keymap" THEN Range(q.data) ELSE {}

\* What a build and its host store as keycodes.
KeycodesOf(b) ==
    UNION ({DataOf(q) : q \in Firmware[b].requests}
           \cup {Range(KeycodeBytes(Firmware[b].keymap[p])) : p \in Positions}
           \cup {Range(KeycodeBytes(Firmware[b].encodermap[t])) : t \in Turns})

\* The builds the magic cannot tell from `b`: those of the same day.
SameDay(b) == {c \in Builds : Firmware[c].magic = Firmware[b].magic}

\* Everything the builds of a day and their hosts may have stored.
KeymapBytes == [b \in Builds |-> UNION {KeycodesOf(c) : c \in SameDay(b)}]
MacroBytes  ==
    [b \in Builds |->
        {0, 255} \cup UNION {Range(i) : i \in UNION {Firmware[c].images : c \in SameDay(b)}}]

\* "Save the magic number last, in case saving was interrupted": an EEPROM that
\* carries a build's magic holds the keymap and macros of builds of that day and
\* nothing of another build or of a blank chip, through any sequence of cut
\* initialisations and of firmware up- and downgrades.
MagicMeansOwnData ==
    \A b \in Builds : eeprom[EECONFIG_MAGIC] = 1 /\ Valid(b) =>
        /\ \A a \in KeymapCells \cup EncoderCells : eeprom[a] \in KeymapBytes[b]
        /\ \A a \in MacroCells : eeprom[a] \in MacroBytes[b]

\* Once a command is done, reading the same place returns what was written, on
\* both ways to it (keycode by keycode, and as one buffer of big-endian pairs).
CommandReadsBack ==
    Idle =>
        /\ command.kind = "key" =>
                GetKeycode(command.layer, command.row, command.column)
                    = IF <<command.layer, command.row, command.column>> \in Positions
                      THEN command.keycode ELSE KC_NO
        /\ command.kind = "encoder" =>
                GetEncoder(command.layer, command.encoder, command.clockwise)
                    = IF <<command.layer, command.encoder, command.clockwise>> \in Turns
                      THEN command.keycode ELSE KC_NO
        /\ command.kind = "keymap" =>
                \A p \in Positions :
                    LET at    == KeyAddress(p[1], p[2], p[3]) - DYNAMIC_KEYMAP_EEPROM_ADDR
                        first == at - command.offset + 1
                    IN  {first, first + 1} \subseteq DOMAIN command.data =>
                            GetKeycode(p[1], p[2], p[3])
                                = command.data[first] * 256 + command.data[first + 1]

\* The cells a command may touch.
Region(q) ==
    CASE q.kind = "options" -> {VIA_EEPROM_LAYOUT_OPTIONS_ADDR}
      [] q.kind = "key"     -> LET a == KeyAddress(q.layer, q.row, q.column) IN {a, a + 1}
      [] q.kind = "encoder" -> LET a == EncoderAddress(q.layer, q.encoder, q.clockwise)
                               IN  {a, a + 1}
      [] q.kind = "keymap"  -> KeymapCells
      [] q.kind \in {"macros", "macro_reset"} -> MacroCells
      [] q.kind = "reset"   -> KeymapCells \cup EncoderCells
      [] OTHER              -> Addresses

\* No command disturbs a neighbour: a buffer write that runs over the end of
\* the keymap leaves the encoder map alone, one over the end of the macros
\* leaves the EEPROM, and no command touches the magic.
CommandsKeepToTheirRegion ==
    [][todo # <<>> /\ on' =>
        \A a \in Addresses : eeprom'[a] # eeprom[a] => a \in Region(command)]_vars

\* Where the n-th string (from 0) of a macro buffer starts: at the beginning or
\* behind a zero byte, with n of them before it.
Starts(image, n) ==
    {p \in 0..Len(image) : /\ p = 0 \/ image[p] = 0
                           /\ Cardinality({i \in 1..p : image[i] = 0}) = n}

\* What a key sends for the n-th string: the buffer from there on, then zeros.
NthMacro(image, n) ==
    LET bytes == [o \in 0..(Reach + 2) |-> IF o < Len(image) THEN image[o + 1] ELSE 0]
    IN  IF Starts(image, n) = {} THEN <<>>
        ELSE SendString(bytes, CHOOSE p \in Starts(image, n) : TRUE)

\* An image whose first k bytes a (possibly cut) macro reset has cleared.
Cleared(image, k) == [i \in DOMAIN image |-> IF i <= k THEN 0 ELSE image[i]]

MacroIds == 0..(DYNAMIC_KEYMAP_MACRO_COUNT - 1)

\* The buffers a host uploaded, and the one a macro reset leaves.
Blank       == [i \in 1..DYNAMIC_KEYMAP_MACRO_EEPROM_SIZE |-> 0]
KnownImages == {Blank} \cup UNION {Firmware[b].images : b \in Builds}

\* What the macro keys send when the buffer is whole.
WholeBuffers ==
    { [id \in MacroIds |-> NthMacro(Cleared(image, k), id)] :
        image \in KnownImages, k \in 0..DYNAMIC_KEYMAP_MACRO_EEPROM_SIZE }

\* "so macro sending is disabled during writing a new buffer, should it happen
\* during, or after an interrupted transfer": whenever a macro key is pressed,
\* nothing is sent, or every key sends exactly its own macro of one complete
\* buffer, never a mixture of two uploads.  Only a macro reset cut by a power
\* failure leaves part of a buffer, without its beginning.
SendsWholeMacros ==
    Idle => LET sends == [id \in MacroIds |-> MacroSend(id)]
            IN  (\A id \in MacroIds : sends[id] = <<>>) \/ sends \in WholeBuffers
=============================================================================
