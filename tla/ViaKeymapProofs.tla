--------------------------- MODULE ViaKeymapProofs ---------------------------
(***************************************************************************)
(* Proofs about ViaKeymap, for every size of keymap, encoder map and macro *)
(* buffer, every set of builds, requests and uploads.  A command is a list *)
(* of byte writes still to make, so the invariants say where the cells of  *)
(* the EEPROM end when that list is worked off.                            *)
(***************************************************************************)
EXTENDS ViaKeymap, SequenceTheorems, FiniteSetTheorems, WellFoundedInduction, TLAPS

-----------------------------------------------------------------------------
(* The inductive invariant.                                                *)

WriteOps == [address : Addresses, value : Byte]

\* Worked off, the writes `q` leave the value `v` in cell `a`.
Lands(q, e, a, v) ==
    \/ /\ e[a] = v
       /\ \A n \in 1..Len(q) : q[n].address # a
    \/ \E n \in 1..Len(q) :
          /\ q[n].address = a /\ q[n].value = v
          /\ \A m \in 1..Len(q) : m > n => q[m].address # a

\* Cell `a` holds a member of S or will be written, with members of S only.
Fills(q, e, a, S) ==
    /\ \A n \in 1..Len(q) : q[n].address = a => q[n].value \in S
    /\ e[a] \in S \/ \E n \in 1..Len(q) : q[n].address = a

Quiet ==
    /\ ~on => command = NoCommand /\ upload = NoUpload
    /\ command = NoCommand => todo = <<>>

\* A command keeps to its region, and only the initialisation writes the magic.
InRegion ==
    \A n \in 1..Len(todo) :
        /\ todo[n].address \in Region(command)
        /\ command # InitCommand => todo[n].address > 3

\* The writes `q` store bytes of the build `b`.
OwnIn(b, q) ==
    \A n \in 1..Len(q) :
        /\ q[n].address \in KeymapCells \cup EncoderCells => q[n].value \in KeymapBytes[b]
        /\ q[n].address \in MacroCells => q[n].value \in MacroBytes[b]

OwnBytes == OwnIn(build, todo)

MAGIC_DAY_ADDR == VIA_EEPROM_MAGIC_ADDR + 2

\* The initialisation writes every cell, and the day, the last byte of the
\* magic, is no day before its last write.
InitialisesIn(b, q, e) ==
    /\ Fills(q, e, EECONFIG_MAGIC, {1})
    /\ \A i \in 1..3 : Lands(q, e, VIA_EEPROM_MAGIC_ADDR + i - 1, Firmware[b].magic[i])
    /\ \A a \in KeymapCells \cup EncoderCells : Fills(q, e, a, KeymapBytes[b])
    /\ \A a \in MacroCells :
          /\ e[a] = 0
          /\ \A n \in 1..Len(q) : q[n].address = a => q[n].value = 0
    /\ q # <<>> =>
          /\ e[MAGIC_DAY_ADDR] \in {0, 255}
          /\ \A n \in 1..(Len(q) - 1) :
                q[n].address = MAGIC_DAY_ADDR => q[n].value \in {0, 255}

Initialising == command = InitCommand => InitialisesIn(build, todo, eeprom)

Booted ==
    on /\ (todo = <<>> \/ command # InitCommand) =>
        eeprom[EECONFIG_MAGIC] = 1 /\ Valid(build)

\* The bytes of keycode `k` are in place at `a` or will be written there.
KeycodeIn(q, e, a, k) == Fills(q, e, a, {k \div 256}) /\ Fills(q, e, a + 1, {k % 256})

\* What the command `c` has written or will write is what reads back.
StoresIn(c, q, e) ==
    /\ c.kind = "key" /\ <<c.layer, c.row, c.column>> \in Positions =>
          KeycodeIn(q, e, KeyAddress(c.layer, c.row, c.column), c.keycode)
    /\ c.kind = "encoder" /\ <<c.layer, c.encoder, c.clockwise>> \in Turns =>
          KeycodeIn(q, e, EncoderAddress(c.layer, c.encoder, c.clockwise), c.keycode)
    /\ c.kind = "keymap" =>
          \A i \in 1..Len(c.data) : c.offset + i - 1 < KeymapSize =>
              Fills(q, e, DYNAMIC_KEYMAP_EEPROM_ADDR + c.offset + i - 1, {c.data[i]})

Stores == StoresIn(command, todo, eeprom)

KeymapInv ==
    /\ TypeOK /\ Quiet /\ InRegion /\ OwnBytes
    /\ Initialising /\ Booted /\ Stores /\ MagicMeansOwnData

\* The last byte of the macro buffer: not zero while a buffer is being written.
FlagCell == EepromEnd - 1

MacroCell(i) == DYNAMIC_KEYMAP_MACRO_EEPROM_ADDR + i - 1

Holds(e, image) == \A i \in 1..DYNAMIC_KEYMAP_MACRO_EEPROM_SIZE : e[MacroCell(i)] = image[i]

\* The buffer is flagged, or it is one whole buffer (with a cleared beginning).
WholeIn(e) ==
    \/ e[FlagCell] # 0
    \/ \E image \in KnownImages, k \in 0..DYNAMIC_KEYMAP_MACRO_EEPROM_SIZE :
          Holds(e, Cleared(image, k))

\* During an upload the flag is set and the bytes sent are in place.
UploadingIn(u, q, e) ==
    u # NoUpload =>
        /\ Fills(q, e, FlagCell, {255})
        /\ \A i \in 1..u.sent : Fills(q, e, MacroCell(i), {u.image[i]})

\* The writes `q` complete a buffer.
CompletesIn(q, e) ==
    \E image \in KnownImages : \A i \in 1..DYNAMIC_KEYMAP_MACRO_EEPROM_SIZE :
        Fills(q, e, MacroCell(i), {image[i]})

\* A macro write sets the flag, or it runs with the flag set; only the last
\* write of the last chunk clears it, and then the buffer is complete.
FlaggingIn(c, q, e) ==
    c.kind = "macros" /\ q # <<>> =>
        \/ Len(q) = 1 /\ q[1] = Write(FlagCell, 255)
        \/ /\ e[FlagCell] # 0
           /\ \A n \in 1..(Len(q) - 1) : q[n].address # FlagCell
           /\ q[Len(q)].address # FlagCell \/ CompletesIn(q, e)

\* A macro reset clears the buffer from its beginning.
ClearingIn(c, q, e) ==
    c.kind = "macro_reset" =>
        /\ Len(q) <= DYNAMIC_KEYMAP_MACRO_EEPROM_SIZE
        /\ \A n \in 1..Len(q) : q[n] = Write(EepromEnd - Len(q) + n - 1, 0)
        /\ \A i \in 1..(DYNAMIC_KEYMAP_MACRO_EEPROM_SIZE - Len(q)) : e[MacroCell(i)] = 0

\* No other command writes macros.
ElsewhereIn(c, q) ==
    c # InitCommand /\ c.kind # "macros" /\ c.kind # "macro_reset" =>
        \A n \in 1..Len(q) : q[n].address \notin MacroCells

Whole     == WholeIn(eeprom)
Uploading == UploadingIn(upload, todo, eeprom)
Flagging  == FlaggingIn(command, todo, eeprom)
Clearing  == ClearingIn(command, todo, eeprom)
Elsewhere == ElsewhereIn(command, todo)

MacroInv == Whole /\ Uploading /\ Flagging /\ Clearing /\ Elsewhere

-----------------------------------------------------------------------------
(* The layout of the EEPROM.                                               *)

\* A product of natural numbers is one.
LEMMA ProductIsNat ==
    ASSUME NEW a \in Nat, NEW b \in Nat
    PROVE  a * b \in Nat
OBVIOUS

\* nvm_dynamic_keymap.c's regions follow each other: VIA's block, the keymap,
\* the encoder map and the macros.
LEMMA Layout ==
    /\ DYNAMIC_KEYMAP_EEPROM_ADDR = 5 /\ VIA_EEPROM_LAYOUT_OPTIONS_ADDR = 4
    /\ VIA_EEPROM_MAGIC_ADDR = 1 /\ EECONFIG_MAGIC = 0 /\ MAGIC_DAY_ADDR = 3
    /\ KeymapSize \in Nat
    /\ DYNAMIC_KEYMAP_ENCODER_EEPROM_ADDR = 5 + KeymapSize
    /\ DYNAMIC_KEYMAP_ENCODER_EEPROM_ADDR \in Nat
    /\ DYNAMIC_KEYMAP_MACRO_EEPROM_ADDR \in Nat
    /\ DYNAMIC_KEYMAP_ENCODER_EEPROM_ADDR <= DYNAMIC_KEYMAP_MACRO_EEPROM_ADDR
    /\ EepromEnd \in Nat /\ DYNAMIC_KEYMAP_MACRO_EEPROM_ADDR < EepromEnd
    /\ EepromEnd = DYNAMIC_KEYMAP_MACRO_EEPROM_ADDR + DYNAMIC_KEYMAP_MACRO_EEPROM_SIZE
    /\ DYNAMIC_KEYMAP_MACRO_EEPROM_SIZE \in Nat /\ DYNAMIC_KEYMAP_MACRO_EEPROM_SIZE >= 1
<1>1. /\ DYNAMIC_KEYMAP_EEPROM_ADDR = 5 /\ VIA_EEPROM_LAYOUT_OPTIONS_ADDR = 4
      /\ VIA_EEPROM_MAGIC_ADDR = 1 /\ EECONFIG_MAGIC = 0 /\ MAGIC_DAY_ADDR = 3
  BY DEF DYNAMIC_KEYMAP_EEPROM_ADDR, VIA_EEPROM_LAYOUT_OPTIONS_ADDR,
         VIA_EEPROM_MAGIC_ADDR, EECONFIG_MAGIC, MAGIC_DAY_ADDR
<1>2. KeymapSize \in Nat
  BY SizesAreSane DEF KeymapSize
<1>3. DYNAMIC_KEYMAP_LAYER_COUNT * NUM_ENCODERS * 2 * 2 \in Nat
  BY SizesAreSane
<1> DEFINE turns == DYNAMIC_KEYMAP_LAYER_COUNT * NUM_ENCODERS * 2 * 2
<1>4. DYNAMIC_KEYMAP_MACRO_EEPROM_ADDR = DYNAMIC_KEYMAP_ENCODER_EEPROM_ADDR + turns
  BY DEF DYNAMIC_KEYMAP_MACRO_EEPROM_ADDR
<1> HIDE DEF turns
<1>5. turns \in Nat
  BY <1>3 DEF turns
<1>6. DYNAMIC_KEYMAP_ENCODER_EEPROM_ADDR = 5 + KeymapSize
  BY <1>1 DEF DYNAMIC_KEYMAP_ENCODER_EEPROM_ADDR
<1> QED BY <1>1, <1>2, <1>4, <1>5, <1>6, SizesAreSane DEF EepromEnd

\* dynamic_keymap_key_to_eeprom_address stays in the keymap, with both bytes.
LEMMA KeyAddressRange ==
    ASSUME NEW l, NEW r, NEW c, <<l, r, c>> \in Positions
    PROVE  /\ KeyAddress(l, r, c) \in KeymapCells
           /\ KeyAddress(l, r, c) + 1 \in KeymapCells
           /\ KeyAddress(l, r, c) \in Nat
           /\ KeyAddress(l, r, c) = 5 + 2 * ((l * MATRIX_ROWS + r) * MATRIX_COLS + c)
<1> DEFINE L == DYNAMIC_KEYMAP_LAYER_COUNT
           R == MATRIX_ROWS
           C == MATRIX_COLS
<1>1. /\ L \in Nat \ {0} /\ R \in Nat \ {0} /\ C \in Nat \ {0}
      /\ l \in 0..(L - 1) /\ r \in 0..(R - 1) /\ c \in 0..(C - 1)
  BY SizesAreSane DEF Positions, Layers
<1>2. KeyAddress(l, r, c) = 5 + (l * R * C * 2) + (r * C * 2) + (c * 2)
  BY Layout DEF KeyAddress
<1>3. KeymapSize = L * R * C * 2
  BY DEF KeymapSize
<1> HIDE DEF L, R, C
<1>4. l * R + r <= L * R - 1 /\ l * R + r \in Nat /\ L * R \in Nat
  <2>1. l * R <= (L - 1) * R
    BY <1>1
  <2>2. (L - 1) * R = L * R - R
    BY <1>1
  <2> QED BY <1>1, <2>1, <2>2
<1> DEFINE k == l * R + r
           K == L * R
<1>5. k * C + c <= K * C - 1 /\ k * C + c \in Nat /\ K * C \in Nat
  <2> HIDE DEF k, K
  <2>0. k <= K - 1 /\ k \in Nat /\ K \in Nat
    BY <1>4 DEF k, K
  <2>1. k * C <= (K - 1) * C
    BY <1>1, <2>0
  <2>2. (K - 1) * C = K * C - C
    BY <1>1, <2>0
  <2> QED BY <1>1, <2>0, <2>1, <2>2
<1>6. (l * R * C * 2) + (r * C * 2) + (c * 2) = 2 * (k * C + c)
  BY <1>1
<1>7. L * R * C * 2 = 2 * (K * C)
  BY <1>1
<1> DEFINE i == k * C + c
           N == K * C
<1> HIDE DEF i, N
<1>8. KeyAddress(l, r, c) = 5 + 2 * i /\ KeymapSize = 2 * N
  <2>1. KeyAddress(l, r, c) = 5 + (2 * (k * C + c))
    BY <1>1, <1>2, <1>6
  <2> QED BY <2>1, <1>3, <1>7 DEF i, N
<1>9. i \in Nat /\ N \in Nat /\ i <= N - 1
  BY <1>5 DEF i, N
<1>10. 5 + 2 * i \in KeymapCells /\ 5 + 2 * i + 1 \in KeymapCells
  BY <1>8, <1>9, Layout DEF KeymapCells
<1>11. 2 * i = 2 * ((l * MATRIX_ROWS + r) * MATRIX_COLS + c)
  BY DEF i, k, R, C
<1> QED BY <1>8, <1>9, <1>10, <1>11

\* dynamic_keymap_encoder_to_eeprom_address stays in the encoder map.
LEMMA EncoderAddressRange ==
    ASSUME NEW l, NEW e, NEW w, <<l, e, w>> \in Turns
    PROVE  /\ EncoderAddress(l, e, w) \in EncoderCells
           /\ EncoderAddress(l, e, w) + 1 \in EncoderCells
           /\ EncoderAddress(l, e, w) \in Nat
           /\ EncoderAddress(l, e, w) = DYNAMIC_KEYMAP_ENCODER_EEPROM_ADDR
                  + 4 * (l * NUM_ENCODERS + e) + (IF w THEN 0 ELSE 2)
<1> DEFINE L == DYNAMIC_KEYMAP_LAYER_COUNT
           E == NUM_ENCODERS
           A == DYNAMIC_KEYMAP_ENCODER_EEPROM_ADDR
           d == IF w THEN 0 ELSE 2
<1>1. /\ L \in Nat \ {0} /\ E \in Nat /\ l \in 0..(L - 1) /\ e \in 0..(E - 1)
  BY SizesAreSane DEF Turns, Layers
<1>2. EncoderAddress(l, e, w) = A + (l * E * 2 * 2) + (e * 2 * 2) + d
  BY DEF EncoderAddress
<1>3. DYNAMIC_KEYMAP_MACRO_EEPROM_ADDR = A + L * E * 2 * 2
  BY DEF DYNAMIC_KEYMAP_MACRO_EEPROM_ADDR
<1>4. A \in Nat /\ d \in {0, 2}
  BY Layout
<1> HIDE DEF L, E, A, d
<1> DEFINE k == l * E + e
           K == L * E
<1>5. k <= K - 1 /\ k \in Nat /\ K \in Nat
  <2>1. l * E <= (L - 1) * E
    BY <1>1
  <2>2. (L - 1) * E = L * E - E
    BY <1>1
  <2> QED BY <1>1, <2>1, <2>2
<1>6. (l * E * 2 * 2) + (e * 2 * 2) = 4 * k /\ L * E * 2 * 2 = 4 * K
  BY <1>1
<1>7. EncoderAddress(l, e, w) = A + 4 * k + d
  <2>1. l * E * 2 * 2 \in Nat /\ e * 2 * 2 \in Nat
    BY <1>1
  <2> QED BY <1>2, <1>4, <1>6, <2>1
<1>8. DYNAMIC_KEYMAP_MACRO_EEPROM_ADDR = A + 4 * K
  BY <1>3, <1>6
<1>9. 4 * k = 4 * (l * NUM_ENCODERS + e)
  BY DEF E
<1> HIDE DEF k, K
<1>10. A + 4 * k + d \in A..((A + 4 * K) - 1) /\ A + 4 * k + d + 1 \in A..((A + 4 * K) - 1)
       /\ A + 4 * k + d \in Nat
  BY <1>4, <1>5
<1>11. EncoderCells = A..((A + 4 * K) - 1)
  BY <1>8 DEF EncoderCells, A
<1>12. A + 4 * k + d = DYNAMIC_KEYMAP_ENCODER_EEPROM_ADDR
                  + 4 * (l * NUM_ENCODERS + e) + (IF w THEN 0 ELSE 2)
  BY <1>9 DEF A, d
<1> QED BY <1>7, <1>10, <1>11, <1>12, Zenon

\* The bytes of a keycode, and the keycode they make.
LEMMA KeycodeBytesType ==
    ASSUME NEW k \in Keycodes
    PROVE  /\ k \div 256 \in Byte /\ k % 256 \in Byte
           /\ (k \div 256) * 256 + (k % 256) = k
           /\ KeycodeBytes(k)[1] = k \div 256 /\ KeycodeBytes(k)[2] = k % 256
           /\ Range(KeycodeBytes(k)) = {k \div 256, k % 256}
<1>1. k \in Nat /\ k <= 65535
  BY DEF Keycodes, Word
<1>2. /\ k \div 256 \in Int /\ k % 256 \in 0..255
      /\ k = 256 * (k \div 256) + (k % 256)
  BY <1>1
<1>3. k \div 256 \in 0..255
  BY <1>1, <1>2
<1>4. KeycodeBytes(k) = <<k \div 256, k % 256>>
  BY DEF KeycodeBytes
<1>5. Range(KeycodeBytes(k)) = {k \div 256, k % 256}
  <2>1. DOMAIN <<k \div 256, k % 256>> = {1, 2}
    OBVIOUS
  <2> QED BY <1>4, <2>1 DEF Range
<1> QED BY <1>2, <1>3, <1>4, <1>5 DEF Byte
-----------------------------------------------------------------------------
(* Sequences of writes.                                                    *)

\* A function on 1..n is a sequence of length n.
LEMMA FunctionIsSeq ==
    ASSUME NEW S, NEW n \in Nat, NEW f \in [1..n -> S]
    PROVE  f \in Seq(S) /\ Len(f) = n
<1>1. f \in Seq(S)
  BY SeqDef
<1>2. Len(f) \in Nat /\ 1..Len(f) = 1..n
  BY <1>1, LenProperties
<1>3. ASSUME NEW k \in Nat, 1..k = 1..n PROVE k = n
  <2>1. \A i \in Int : 1 <= i /\ i <= k <=> 1 <= i /\ i <= n
    BY <1>3
  <2>2. (1 <= k => k <= n) /\ (1 <= n => n <= k)
    BY <2>1
  <2> QED BY <2>2
<1> QED BY <1>1, <1>2, <1>3

\* What is left after the first of some writes, and the one before it.
LEMMA TailIndices ==
    ASSUME NEW S, NEW q \in Seq(S), q # <<>>
    PROVE  /\ Tail(q) \in Seq(S) /\ Len(q) \in Nat /\ Len(q) >= 1
           /\ Len(Tail(q)) = Len(q) - 1
           /\ Head(q) = q[1] /\ q[1] \in S
           /\ \A n \in 1..(Len(q) - 1) : Tail(q)[n] = q[n + 1]
<1>1. /\ Len(q) \in Nat /\ Len(q) >= 1 /\ q[1] \in S
  BY EmptySeq, ElementOfSeq, LenProperties
<1>2. Tail(q) \in Seq(S) /\ Len(Tail(q)) = Len(q) - 1
  BY HeadTailProperties
<1>3. \A n \in 1..(Len(q) - 1) : Tail(q)[n] = q[n + 1]
  BY HeadTailProperties
<1>4. Head(q) = q[1]
  OBVIOUS
<1> QED BY <1>1, <1>2, <1>3, <1>4

\* One write on: a cell still lands where it was going to land.
LEMMA LandsStep ==
    ASSUME NEW q \in Seq(WriteOps), q # <<>>, NEW e \in [Addresses -> Byte],
           NEW a \in Addresses, NEW v, Lands(q, e, a, v)
    PROVE  Lands(Tail(q), [e EXCEPT ![Head(q).address] = Head(q).value], a, v)
<1> DEFINE f == [e EXCEPT ![Head(q).address] = Head(q).value]
           t == Tail(q)
<1>1. /\ Len(q) \in Nat /\ Len(q) >= 1 /\ Len(t) = Len(q) - 1
      /\ Head(q) = q[1] /\ q[1] \in WriteOps
      /\ \A n \in 1..(Len(q) - 1) : t[n] = q[n + 1]
  BY TailIndices
<1>2. f[a] = IF q[1].address = a THEN q[1].value ELSE e[a]
  BY <1>1 DEF WriteOps
<1> HIDE DEF f, t
<1>3. CASE e[a] = v /\ \A n \in 1..Len(q) : q[n].address # a
  BY <1>1, <1>2, <1>3 DEF Lands, f, t
<1>4. CASE \E n \in 1..Len(q) :
              /\ q[n].address = a /\ q[n].value = v
              /\ \A m \in 1..Len(q) : m > n => q[m].address # a
  <2>1. PICK n \in 1..Len(q) :
              /\ q[n].address = a /\ q[n].value = v
              /\ \A m \in 1..Len(q) : m > n => q[m].address # a
    BY <1>4
  <2>2. CASE n = 1
    <3>1. f[a] = v
      BY <1>2, <2>1, <2>2
    <3>2. \A m \in 1..Len(t) : t[m].address # a
      BY <1>1, <2>1, <2>2
    <3> QED BY <3>1, <3>2 DEF Lands, f, t
  <2>3. CASE n > 1
    <3>1. n - 1 \in 1..Len(t) /\ t[n - 1] = q[n]
      BY <1>1, <2>3
    <3>2. \A m \in 1..Len(t) : m > n - 1 => t[m].address # a
      BY <1>1, <2>1, <2>3
    <3> QED BY <2>1, <3>1, <3>2 DEF Lands, f, t
  <2> QED BY <2>2, <2>3
<1> QED BY <1>3, <1>4 DEF Lands

\* One write on: a cell is still filled from the same set.
LEMMA FillsStep ==
    ASSUME NEW q \in Seq(WriteOps), q # <<>>, NEW e \in [Addresses -> Byte],
           NEW a \in Addresses, NEW S, Fills(q, e, a, S)
    PROVE  Fills(Tail(q), [e EXCEPT ![Head(q).address] = Head(q).value], a, S)
<1> DEFINE f == [e EXCEPT ![Head(q).address] = Head(q).value]
           t == Tail(q)
<1>1. /\ Len(q) \in Nat /\ Len(q) >= 1 /\ Len(t) = Len(q) - 1
      /\ Head(q) = q[1] /\ q[1] \in WriteOps
      /\ \A n \in 1..(Len(q) - 1) : t[n] = q[n + 1]
  BY TailIndices
<1>2. f[a] = IF q[1].address = a THEN q[1].value ELSE e[a]
  BY <1>1 DEF WriteOps
<1> HIDE DEF f, t
<1>3. \A n \in 1..Len(t) : t[n].address = a => t[n].value \in S
  BY <1>1 DEF Fills
<1>4. CASE q[1].address = a
  <2>1. f[a] \in S
    BY <1>1, <1>2, <1>4 DEF Fills
  <2> QED BY <1>3, <2>1 DEF Fills, f, t
<1>5. CASE q[1].address # a
  <2>1. CASE e[a] \in S
    BY <1>2, <1>3, <1>5, <2>1 DEF Fills, f, t
  <2>2. CASE \E n \in 1..Len(q) : q[n].address = a
    <3>1. PICK n \in 1..Len(q) : q[n].address = a
      BY <2>2
    <3>2. n > 1
      BY <1>5, <3>1
    <3>3. n - 1 \in 1..Len(t) /\ t[n - 1].address = a
      BY <1>1, <3>1, <3>2
    <3> QED BY <1>3, <3>3 DEF Fills, f, t
  <2> QED BY <2>1, <2>2 DEF Fills
<1> QED BY <1>4, <1>5

\* When nothing is left to write, the cells hold what they were filled with.
LEMMA Settled ==
    ASSUME NEW q, q = <<>>, NEW e, NEW a
    PROVE  /\ \A v : Lands(q, e, a, v) => e[a] = v
           /\ \A S : Fills(q, e, a, S) => e[a] \in S
<1>1. Len(q) = 0
  OBVIOUS
<1> QED BY <1>1 DEF Lands, Fills

\* Writes elsewhere leave a filled cell alone.
LEMMA FillsElsewhere ==
    ASSUME NEW q, NEW e, NEW a, NEW S, e[a] \in S, \A n \in 1..Len(q) : q[n].address # a
    PROVE  Fills(q, e, a, S)
BY DEF Fills
-----------------------------------------------------------------------------
(* Flattening.                                                             *)

\* Induction over the natural numbers, for a set.
LEMMA NatSetInduction ==
    ASSUME NEW S, 0 \in S, \A n \in Nat : n \in S => n + 1 \in S
    PROVE  Nat \subseteq S
<1> DEFINE Less == {ss \in Nat \X Nat : ss[1] < ss[2]}
<1>1. OpToRel(<, Nat) = Less
  BY Zenon DEF OpToRel
<1>2. IsWellFoundedOn(OpToRel(<, Nat), Nat)
  BY NatLessThanWellFounded
<1>3. IsWellFoundedOn(Less, Nat)
  BY <1>1, <1>2, Zenon
<1>4. \A x, y \in Nat : y < x => <<y, x>> \in Less
  OBVIOUS
<1> HIDE DEF Less
<1> SUFFICES ASSUME Nat \ S # {} PROVE FALSE
  OBVIOUS
<1> DEFINE T == Nat \ S
<1>5. T \subseteq Nat /\ T # {}
  OBVIOUS
<1> HIDE DEF T
<1>6. PICK x \in T : \A y \in T : ~ (<<y, x>> \in Less)
  BY <1>3, <1>5, WFMin
<1>7. x \in Nat /\ ~(x \in S)
  BY DEF T
<1>8. x - 1 \in Nat /\ x - 1 < x
  BY <1>7
<1>9. x - 1 \in S
  BY <1>4, <1>6, <1>7, <1>8 DEF T
<1>10. (x - 1) + 1 = x
  BY <1>7
<1> QED BY <1>7, <1>8, <1>9, <1>10

Elements(q) == {q[n] : n \in 1..Len(q)}

\* Writes one after the other are the writes of both.
LEMMA ConcatElements ==
    ASSUME NEW S, NEW p \in Seq(S), NEW q \in Seq(S)
    PROVE  /\ p \o q \in Seq(S)
           /\ Elements(p \o q) = Elements(p) \cup Elements(q)
<1>1. /\ p \o q \in Seq(S) /\ Len(p \o q) = Len(p) + Len(q)
      /\ Len(p) \in Nat /\ Len(q) \in Nat
      /\ \A i \in 1..(Len(p) + Len(q)) :
            (p \o q)[i] = IF i <= Len(p) THEN p[i] ELSE q[i - Len(p)]
  BY ConcatProperties, LenProperties
<1> DEFINE r == p \o q
<1> HIDE DEF r
<1>2. ASSUME NEW x \in Elements(r) PROVE x \in Elements(p) \cup Elements(q)
  <2>1. PICK i \in 1..(Len(p) + Len(q)) : x = r[i]
    BY <1>1, <1>2 DEF Elements, r
  <2>2. CASE i <= Len(p)
    BY <1>1, <2>1, <2>2 DEF Elements, r
  <2>3. CASE i > Len(p)
    <3>1. i - Len(p) \in 1..Len(q) /\ x = q[i - Len(p)]
      BY <1>1, <2>1, <2>3 DEF r
    <3> QED BY <3>1 DEF Elements
  <2> QED BY <1>1, <2>1, <2>2, <2>3
<1>3. ASSUME NEW x \in Elements(p) PROVE x \in Elements(r)
  <2>1. PICK i \in 1..Len(p) : x = p[i]
    BY <1>3 DEF Elements
  <2>2. i \in 1..Len(r) /\ r[i] = x
    BY <1>1, <2>1 DEF r
  <2> QED BY <2>2 DEF Elements
<1>4. ASSUME NEW x \in Elements(q) PROVE x \in Elements(r)
  <2>1. PICK i \in 1..Len(q) : x = q[i]
    BY <1>4 DEF Elements
  <2>2. i + Len(p) \in 1..Len(r) /\ r[i + Len(p)] = x
    BY <1>1, <2>1 DEF r
  <2> QED BY <2>2 DEF Elements
<1> QED BY <1>1, <1>2, <1>3, <1>4 DEF r

\* The running concatenation that FlattenSeq ends with.
Then(p, q) == p \o q
Flattens(f, n, g) ==
    g = [i \in 1..n |-> IF i = 1 THEN f[i] ELSE Then(g[i - 1], f[i])]

\* It exists for every number of parts.
LEMMA FlattensExists ==
    ASSUME NEW f
    PROVE  \A n \in Nat : \E g : Flattens(f, n, g)
<1> DEFINE S == {n \in Nat : \E g : Flattens(f, n, g)}
<1>1. 0 \in S
  <2>1. Flattens(f, 0, [i \in 1..0 |-> i])
    BY DEF Flattens
  <2> QED BY <2>1
<1>2. ASSUME NEW n \in Nat, n \in S PROVE n + 1 \in S
  <2>1. PICK g : Flattens(f, n, g)
    BY <1>2
  <2> DEFINE last == IF n + 1 = 1 THEN f[n + 1] ELSE Then(g[n], f[n + 1])
             h == [i \in 1..(n + 1) |-> IF i = n + 1 THEN last ELSE g[i]]
  <2> HIDE DEF last
  <2>2. /\ \A i \in 1..n : h[i] = g[i]
        /\ h[n + 1] = last
        /\ h = [i \in 1..(n + 1) |-> h[i]]
    OBVIOUS
  <2> HIDE DEF h
  <2>3. ASSUME NEW i \in 1..(n + 1) PROVE h[i] = IF i = 1 THEN f[i] ELSE Then(h[i - 1], f[i])
    <3>1. CASE i = n + 1 /\ i = 1
      BY <2>2, <3>1 DEF last
    <3>2. CASE i = n + 1 /\ i # 1
      <4>1. h[n] = g[n] /\ i - 1 = n
        BY <2>2, <3>2
      <4> QED BY <2>2, <3>2, <4>1 DEF last
    <3>3. CASE i # n + 1
      <4>1. g[i] = IF i = 1 THEN f[i] ELSE Then(g[i - 1], f[i])
        BY <2>1, <3>3 DEF Flattens
      <4>2. h[i] = g[i] /\ (i # 1 => h[i - 1] = g[i - 1])
        <5>1. i \in 1..n /\ (i # 1 => i - 1 \in 1..n)
          BY <3>3
        <5> QED BY <2>2, <5>1
      <4> QED BY <4>1, <4>2
    <3> QED BY <3>1, <3>2, <3>3
  <2>4. Flattens(f, n + 1, h)
    BY <2>2, <2>3 DEF Flattens
  <2> QED BY <2>4
<1> HIDE DEF S
<1>3. Nat \subseteq S
  BY <1>1, <1>2, NatSetInduction
<1> QED BY <1>3 DEF S

\* The writes of the first n parts.
Parts(f, n) == UNION {Elements(f[i]) : i \in 1..n}

\* One part more.
LEMMA PartsStep ==
    ASSUME NEW f, NEW n \in Nat
    PROVE  Parts(f, n + 1) = Parts(f, n) \cup Elements(f[n + 1])
<1>1. 1..(n + 1) = 1..n \cup {n + 1}
  OBVIOUS
<1> DEFINE I == 1..n
           k == n + 1
<1> HIDE DEF I, k
<1>2. UNION {Elements(f[i]) : i \in I \cup {k}}
        = (UNION {Elements(f[i]) : i \in I}) \cup Elements(f[k])
  BY Zenon
<1> QED BY <1>1, <1>2 DEF I, k, Parts

\* Its writes are those of the parts it has come to.
LEMMA FlattensElements ==
    ASSUME NEW S, NEW n \in Nat, NEW f \in [1..n -> Seq(S)], NEW g, Flattens(f, n, g)
    PROVE  \A m \in Nat : m + 1 <= n =>
              g[m + 1] \in Seq(S) /\ Elements(g[m + 1]) = Parts(f, m + 1)
<1> DEFINE Good(m) == g[m + 1] \in Seq(S) /\ Elements(g[m + 1]) = Parts(f, m + 1)
           T == {m \in Nat : m + 1 <= n => Good(m)}
<1>0. \A k \in Nat : Parts(f, k + 1) = Parts(f, k) \cup Elements(f[k + 1])
  BY PartsStep
<1>1. 0 \in T
  <2>1. ASSUME 1 <= n PROVE g[1] = f[1] /\ f[1] \in Seq(S)
    BY <2>1 DEF Flattens
  <2>2. Parts(f, 0 + 1) = Elements(f[0 + 1])
    <3>1. Parts(f, 0) = {}
      <4>1. 1..0 = {}
        OBVIOUS
      <4> QED BY <4>1 DEF Parts
    <3>2. 0 \in Nat
      OBVIOUS
    <3>3. Parts(f, 0 + 1) = Parts(f, 0) \cup Elements(f[0 + 1])
      BY <1>0, <3>2, Zenon
    <3> QED BY <3>1, <3>3, Zenon
  <2>3. 0 + 1 = 1
    OBVIOUS
  <2> QED BY <2>1, <2>2, <2>3
<1>2. ASSUME NEW m \in Nat, m \in T PROVE m + 1 \in T
  <2> SUFFICES ASSUME m + 1 + 1 <= n PROVE Good(m + 1)
    OBVIOUS
  <2> DEFINE p == g[m + 1]
             q == f[m + 1 + 1]
  <2>1. g[m + 1 + 1] = p \o q
    <3>1. m + 1 + 1 \in 1..n /\ m + 1 + 1 # 1 /\ (m + 1 + 1) - 1 = m + 1
      OBVIOUS
    <3> DEFINE k == m + 1 + 1
    <3> HIDE DEF k
    <3>2. g[k] = Then(g[k - 1], f[k])
      BY <3>1 DEF Flattens, k
    <3> QED BY <3>1, <3>2 DEF k, Then
  <2>2. p \in Seq(S) /\ q \in Seq(S)
    BY <1>2
  <2>3. Elements(p) = Parts(f, m + 1)
    BY <1>2
  <2>4. Parts(f, m + 1 + 1) = Parts(f, m + 1) \cup Elements(q)
    <3>1. m + 1 \in Nat
      OBVIOUS
    <3> QED BY <1>0, <3>1, Zenon
  <2> HIDE DEF p, q
  <2>5. p \o q \in Seq(S) /\ Elements(p \o q) = Elements(p) \cup Elements(q)
    BY <2>2, ConcatElements
  <2> QED BY <2>1, <2>3, <2>4, <2>5, Zenon
<1> HIDE DEF T
<1>3. Nat \subseteq T
  BY <1>1, <1>2, NatSetInduction
<1> QED BY <1>3 DEF T

\* Flattening a list of lists of writes keeps exactly their writes.
LEMMA FlattenElements ==
    ASSUME NEW S, NEW n \in Nat, NEW f \in [1..n -> Seq(S)]
    PROVE  FlattenSeq(f) \in Seq(S) /\ Elements(FlattenSeq(f)) = Parts(f, n)
<1>1. f \in Seq(Seq(S)) /\ Len(f) = n
  BY FunctionIsSeq
<1>2. CASE n = 0
  <2>1. FlattenSeq(f) = f
    BY <1>1, <1>2 DEF FlattenSeq
  <2>2. f = <<>>
    BY <1>1, <1>2, EmptySeq
  <2>3. f \in Seq(S) /\ Elements(f) = {}
    BY <1>1, <1>2, <2>2 DEF Elements
  <2>4. Parts(f, n) = {}
    <3>1. 1..n = {}
      BY <1>2
    <3> QED BY <3>1 DEF Parts
  <2> QED BY <2>1, <2>3, <2>4
<1>3. CASE n > 0
  <2> DEFINE Good(g) == Flattens(f, n, g)
             G == CHOOSE g : Good(g)
  <2>1. FlattenSeq(f) = G[n]
    BY <1>1, <1>3 DEF FlattenSeq, Flattens, Then
  <2>2. Good(G)
    <3>1. \E g : Good(g)
      BY FlattensExists
    <3> HIDE DEF Good
    <3> QED BY <3>1, Zenon
  <2> HIDE DEF G
  <2>3. n - 1 \in Nat /\ (n - 1) + 1 = n
    BY <1>3
  <2>4. \A m \in Nat : m + 1 <= n =>
            G[m + 1] \in Seq(S) /\ Elements(G[m + 1]) = Parts(f, m + 1)
    BY <2>2, FlattensElements
  <2>5. G[(n - 1) + 1] \in Seq(S) /\ Elements(G[(n - 1) + 1]) = Parts(f, (n - 1) + 1)
    <3>1. (n - 1) + 1 <= n
      BY <2>3
    <3> QED BY <2>3, <2>4, <3>1, Zenon
  <2> QED BY <2>1, <2>3, <2>5
<1> QED BY <1>2, <1>3

-----------------------------------------------------------------------------
(* Every cell belongs to a key or to a turn.                               *)

\* Integer division has quotient and remainder, the quotient within bounds.
LEMMA Division ==
    ASSUME NEW a \in Nat, NEW b \in Nat \ {0}, NEW m \in Nat, a < m * b
    PROVE  /\ a \div b \in 0..(m - 1) /\ a % b \in 0..(b - 1)
           /\ a = (a \div b) * b + (a % b)
<1> DEFINE p == a \div b
           r == a % b
<1>1. p \in Int /\ r \in 0..(b - 1) /\ a = p * b + r
  OBVIOUS
<1> HIDE DEF p, r
<1>2. p >= 0
  <2> SUFFICES ASSUME p <= -1 PROVE FALSE
    BY <1>1
  <2>1. p * b <= -b
    BY <1>1
  <2> QED BY <1>1, <2>1
<1>3. p <= m - 1
  <2> SUFFICES ASSUME p >= m PROVE FALSE
    BY <1>1
  <2>1. p * b >= m * b
    BY <1>1
  <2> QED BY <1>1, <2>1
<1>4. p \in 0..(m - 1)
  BY <1>1, <1>2, <1>3
<1> QED BY <1>1, <1>4 DEF p, r

\* Row and column of the k-th key of a layer.
LEMMA KeyPosition ==
    ASSUME NEW l \in Layers, NEW k \in Nat, k < MATRIX_ROWS * MATRIX_COLS
    PROVE  /\ <<l, k \div MATRIX_COLS, k % MATRIX_COLS>> \in Positions
           /\ KeyAddress(l, k \div MATRIX_COLS, k % MATRIX_COLS)
                = 5 + 2 * (l * (MATRIX_ROWS * MATRIX_COLS) + k)
<1> DEFINE r == k \div MATRIX_COLS
           c == k % MATRIX_COLS
<1>1. MATRIX_ROWS \in Nat \ {0} /\ MATRIX_COLS \in Nat \ {0} /\ l \in Nat
  BY SizesAreSane DEF Layers
<1>2. r \in 0..(MATRIX_ROWS - 1) /\ c \in 0..(MATRIX_COLS - 1) /\ k = r * MATRIX_COLS + c
  BY <1>1, Division
<1> HIDE DEF r, c
<1>3. <<l, r, c>> \in Positions
  BY <1>2 DEF Positions
<1>4. KeyAddress(l, r, c) = 5 + 2 * ((l * MATRIX_ROWS + r) * MATRIX_COLS + c)
  BY <1>3, KeyAddressRange
<1>5. (l * MATRIX_ROWS + r) * MATRIX_COLS + c = l * (MATRIX_ROWS * MATRIX_COLS) + k
  <2>1. (l * MATRIX_ROWS + r) * MATRIX_COLS = l * (MATRIX_ROWS * MATRIX_COLS) + r * MATRIX_COLS
    BY <1>1, <1>2
  <2>2. l * (MATRIX_ROWS * MATRIX_COLS) \in Nat /\ r * MATRIX_COLS \in Nat
    BY <1>1, <1>2
  <2> QED BY <1>2, <2>1, <2>2
<1> QED BY <1>3, <1>4, <1>5 DEF r, c

\* Every cell of the keymap is a byte of one key.
LEMMA CellOfKey ==
    ASSUME NEW a \in KeymapCells
    PROVE  \E l \in Layers, k \in 0..(MATRIX_ROWS * MATRIX_COLS - 1) :
              a \in {KeyAddress(l, k \div MATRIX_COLS, k % MATRIX_COLS),
                     KeyAddress(l, k \div MATRIX_COLS, k % MATRIX_COLS) + 1}
<1> DEFINE N == MATRIX_ROWS * MATRIX_COLS
           L == DYNAMIC_KEYMAP_LAYER_COUNT
           p == (a - 5) \div 2
           l == p \div N
           k == p % N
<1>1. /\ MATRIX_ROWS \in Nat \ {0} /\ MATRIX_COLS \in Nat \ {0} /\ L \in Nat \ {0}
  BY SizesAreSane
<1>2. N \in Nat \ {0}
  <2>1. MATRIX_ROWS * MATRIX_COLS >= 1
    BY <1>1
  <2> QED BY <1>1, <2>1
<1>3. KeymapSize = 2 * (L * N)
  <2>1. L * MATRIX_ROWS * MATRIX_COLS * 2 = 2 * (L * (MATRIX_ROWS * MATRIX_COLS))
    BY <1>1
  <2> QED BY <2>1 DEF KeymapSize
<1> HIDE DEF N, L
<1>4. L * N \in Nat
  BY <1>1, <1>2
<1>5. a \in Int /\ 5 <= a /\ a <= (5 + 2 * (L * N)) - 1
  BY <1>3, Layout DEF KeymapCells
<1>6. p \in Nat /\ p < L * N /\ (a = 5 + 2 * p \/ a = 5 + 2 * p + 1)
  <2> DEFINE M == L * N
  <2> HIDE DEF M
  <2>1. M \in Nat /\ a <= (5 + 2 * M) - 1
    BY <1>4, <1>5 DEF M
  <2>2. p \in Int /\ (a - 5 = 2 * p \/ a - 5 = 2 * p + 1)
    BY <1>5
  <2> HIDE DEF p
  <2>3. p \in Nat /\ p < M
    BY <1>5, <2>1, <2>2
  <2>4. a = 5 + 2 * p \/ a = 5 + 2 * p + 1
    BY <1>5, <2>2
  <2> QED BY <2>3, <2>4 DEF M
<1> HIDE DEF p
<1>7. l \in 0..(L - 1) /\ k \in 0..(N - 1) /\ p = l * N + k
  BY <1>1, <1>2, <1>6, Division
<1> HIDE DEF l, k
<1>8. l \in Layers /\ k \in Nat /\ k < MATRIX_ROWS * MATRIX_COLS
  BY <1>2, <1>7 DEF Layers, L, N
<1>9. KeyAddress(l, k \div MATRIX_COLS, k % MATRIX_COLS) = 5 + 2 * (l * N + k)
  BY <1>8, KeyPosition DEF N
<1>10. KeyAddress(l, k \div MATRIX_COLS, k % MATRIX_COLS) = 5 + 2 * p
  BY <1>7, <1>9
<1>11. k \in 0..(MATRIX_ROWS * MATRIX_COLS - 1)
  BY <1>7 DEF N
<1>12. a \in {KeyAddress(l, k \div MATRIX_COLS, k % MATRIX_COLS),
              KeyAddress(l, k \div MATRIX_COLS, k % MATRIX_COLS) + 1}
  BY <1>6, <1>10
<1> QED BY <1>8, <1>11, <1>12

\* Every cell of the encoder map is a byte of one turn.
LEMMA CellOfTurn ==
    ASSUME NEW a \in EncoderCells
    PROVE  \E l \in Layers, e \in 0..(NUM_ENCODERS - 1), w \in BOOLEAN :
              a \in {EncoderAddress(l, e, w), EncoderAddress(l, e, w) + 1}
<1> DEFINE N == NUM_ENCODERS
           L == DYNAMIC_KEYMAP_LAYER_COUNT
           A == DYNAMIC_KEYMAP_ENCODER_EEPROM_ADDR
           p == (a - A) \div 4
           l == p \div N
           e == p % N
<1>1. N \in Nat /\ L \in Nat \ {0} /\ A \in Nat
  BY SizesAreSane, Layout
<1>2. DYNAMIC_KEYMAP_MACRO_EEPROM_ADDR = A + 4 * (L * N)
  <2>1. L * N * 2 * 2 = 4 * (L * N)
    BY <1>1
  <2> QED BY <2>1 DEF DYNAMIC_KEYMAP_MACRO_EEPROM_ADDR
<1> HIDE DEF A, L, N
<1>3. L * N \in Nat
  BY <1>1
<1>4. a \in Int /\ A <= a /\ a <= (A + 4 * (L * N)) - 1
  BY <1>1, <1>2, <1>3 DEF EncoderCells, A
<1>5. p \in Nat /\ p < L * N
      /\ \/ a = A + 4 * p \/ a = A + 4 * p + 1
         \/ a = A + 4 * p + 2 \/ a = A + 4 * p + 3
  <2> DEFINE M == L * N
             d == a - A
             r == d % 4
  <2> HIDE DEF M
  <2>1. M \in Nat /\ d \in Int /\ 0 <= d /\ d <= 4 * M - 1 /\ a = A + d
    BY <1>1, <1>3, <1>4 DEF M
  <2> HIDE DEF d
  <2>2. p \in Int /\ r \in {0, 1, 2, 3} /\ d = 4 * p + r
    BY <2>1 DEF d
  <2> HIDE DEF p, r
  <2>4. p \in Nat /\ p < M
    BY <2>1, <2>2
  <2>5. a = A + 4 * p + r
    BY <1>1, <2>1, <2>2
  <2>6. A + 4 * p + 0 = A + 4 * p
    BY <1>1, <2>2
  <2> QED BY <2>2, <2>4, <2>5, <2>6 DEF M
<1>6. N \in Nat \ {0}
  <2> SUFFICES ASSUME N = 0 PROVE FALSE
    BY <1>1
  <2>1. L * N = 0
    BY <1>1
  <2> QED BY <1>5, <2>1
<1> HIDE DEF p
<1>7. l \in 0..(L - 1) /\ e \in 0..(N - 1) /\ p = l * N + e
  BY <1>1, <1>5, <1>6, Division
<1> HIDE DEF l, e
<1>8. l \in Layers /\ e \in 0..(NUM_ENCODERS - 1)
  BY <1>7 DEF Layers, L, N
<1>9. \A x \in BOOLEAN : EncoderAddress(l, e, x) = A + 4 * p + (IF x THEN 0 ELSE 2)
  <2> TAKE x \in BOOLEAN
  <2>1. <<l, e, x>> \in Turns
    BY <1>8 DEF Turns
  <2>2. EncoderAddress(l, e, x) = DYNAMIC_KEYMAP_ENCODER_EEPROM_ADDR
                  + 4 * (l * NUM_ENCODERS + e) + (IF x THEN 0 ELSE 2)
    BY <2>1, EncoderAddressRange
  <2> QED BY <1>7, <2>2 DEF A, N
<1>10. CASE a = A + 4 * p \/ a = A + 4 * p + 1
  <2>1. EncoderAddress(l, e, TRUE) = A + 4 * p + 0 /\ A + 4 * p + 0 = A + 4 * p
    <3>1. A + 4 * p + 0 = A + 4 * p
      BY <1>1, <1>5
    <3> QED BY <1>9, <3>1
  <2> QED BY <1>8, <1>10, <2>1
<1>11. CASE a = A + 4 * p + 2 \/ a = A + 4 * p + 3
  <2>1. EncoderAddress(l, e, FALSE) = A + 4 * p + 2
    BY <1>1, <1>5, <1>9
  <2>2. A + 4 * p + 2 + 1 = A + 4 * p + 3
    BY <1>1, <1>5
  <2> QED BY <1>8, <1>11, <2>1, <2>2
<1> QED BY <1>5, <1>10, <1>11
-----------------------------------------------------------------------------
(* The writes of the handlers.                                             *)

\* The regions are addresses and do not overlap.
LEMMA Regions ==
    /\ KeymapCells \subseteq Addresses /\ EncoderCells \subseteq Addresses
    /\ MacroCells \subseteq Addresses
    /\ \A a \in KeymapCells \cup EncoderCells : a > 4 /\ a \notin MacroCells
    /\ \A a \in KeymapCells : a \notin EncoderCells
    /\ \A a \in MacroCells : a > 4
    /\ 0..4 \subseteq Addresses
BY Layout DEF KeymapCells, EncoderCells, MacroCells, Addresses

\* A write is an address and a value.
LEMMA WriteIs ==
    ASSUME NEW a, NEW v
    PROVE  /\ Write(a, v).address = a /\ Write(a, v).value = v
           /\ a \in Addresses /\ v \in Byte => Write(a, v) \in WriteOps
BY DEF Write, WriteOps

\* A list of two writes.
LEMMA PairElements ==
    ASSUME NEW S, NEW x \in S, NEW y \in S
    PROVE  /\ <<x, y>> \in Seq(S) /\ Len(<<x, y>>) = 2
           /\ Elements(<<x, y>>) = {x, y}
<1>1. <<x, y>> \in Seq(S) /\ Len(<<x, y>>) = 2
  OBVIOUS
<1>2. 1..2 = {1, 2}
  OBVIOUS
<1> QED BY <1>1, <1>2 DEF Elements

\* nvm_dynamic_keymap_update_keycode's two bytes.
LEMMA KeycodeWritesElements ==
    ASSUME NEW a \in Addresses, a + 1 \in Addresses, NEW k \in Keycodes
    PROVE  /\ KeycodeWrites(a, k) \in Seq(WriteOps)
           /\ Elements(KeycodeWrites(a, k))
                = {Write(a, k \div 256), Write(a + 1, k % 256)}
<1> DEFINE x == Write(a, k \div 256)
           y == Write(a + 1, k % 256)
<1>1. x \in WriteOps /\ y \in WriteOps
  BY KeycodeBytesType, WriteIs
<1>2. KeycodeWrites(a, k) = <<x, y>>
  BY KeycodeBytesType DEF KeycodeWrites
<1> HIDE DEF x, y
<1>3. <<x, y>> \in Seq(WriteOps) /\ Elements(<<x, y>>) = {x, y}
  BY <1>1, PairElements
<1> QED BY <1>2, <1>3 DEF x, y

\* The empty list writes nothing.
LEMMA NoElements ==
    ASSUME NEW S
    PROVE  <<>> \in Seq(S) /\ Elements(<<>>) = {} /\ Len(<<>>) = 0
BY DEF Elements

\* nvm_dynamic_keymap_update_keycode writes the keycode to its position.
LEMMA SetKeycodeElements ==
    ASSUME NEW l, NEW r, NEW c, NEW k \in Keycodes
    PROVE  /\ SetKeycode(l, r, c, k) \in Seq(WriteOps)
           /\ <<l, r, c>> \in Positions => Elements(SetKeycode(l, r, c, k))
                = {Write(KeyAddress(l, r, c), k \div 256),
                   Write(KeyAddress(l, r, c) + 1, k % 256)}
           /\ <<l, r, c>> \notin Positions => SetKeycode(l, r, c, k) = <<>>
<1>1. CASE <<l, r, c>> \in Positions
  <2> DEFINE a == KeyAddress(l, r, c)
  <2>1. a \in Addresses /\ a + 1 \in Addresses
    BY <1>1, KeyAddressRange, Regions
  <2>2. SetKeycode(l, r, c, k) = KeycodeWrites(a, k)
    BY <1>1 DEF SetKeycode
  <2> HIDE DEF a
  <2>3. /\ KeycodeWrites(a, k) \in Seq(WriteOps)
        /\ Elements(KeycodeWrites(a, k)) = {Write(a, k \div 256), Write(a + 1, k % 256)}
    BY <2>1, KeycodeWritesElements
  <2> QED BY <1>1, <2>2, <2>3 DEF a
<1>2. CASE <<l, r, c>> \notin Positions
  BY <1>2, NoElements DEF SetKeycode
<1> QED BY <1>1, <1>2

\* nvm_dynamic_keymap_update_encoder writes the keycode of its turn.
LEMMA SetEncoderElements ==
    ASSUME NEW l, NEW e, NEW w, NEW k \in Keycodes
    PROVE  /\ SetEncoder(l, e, w, k) \in Seq(WriteOps)
           /\ <<l, e, w>> \in Turns => Elements(SetEncoder(l, e, w, k))
                = {Write(EncoderAddress(l, e, w), k \div 256),
                   Write(EncoderAddress(l, e, w) + 1, k % 256)}
           /\ <<l, e, w>> \notin Turns => SetEncoder(l, e, w, k) = <<>>
<1>1. CASE <<l, e, w>> \in Turns
  <2> DEFINE a == EncoderAddress(l, e, w)
  <2>1. a \in Addresses /\ a + 1 \in Addresses
    BY <1>1, EncoderAddressRange, Regions
  <2>2. SetEncoder(l, e, w, k) = KeycodeWrites(a, k)
    BY <1>1 DEF SetEncoder
  <2> HIDE DEF a
  <2>3. /\ KeycodeWrites(a, k) \in Seq(WriteOps)
        /\ Elements(KeycodeWrites(a, k)) = {Write(a, k \div 256), Write(a + 1, k % 256)}
    BY <2>1, KeycodeWritesElements
  <2> QED BY <1>1, <2>2, <2>3 DEF a
<1>2. CASE <<l, e, w>> \notin Turns
  BY <1>2, NoElements DEF SetEncoder
<1> QED BY <1>1, <1>2

\* The smaller of two numbers.
LEMMA MinOfTwo ==
    ASSUME NEW a \in Int, NEW b \in Int
    PROVE  Min({a, b}) = IF a <= b THEN a ELSE b
BY DEF Min

\* The writes `q` store the data from the offset on, up to the size, from `start`.
StoresData(start, size, offset, data, q) ==
    /\ q \in Seq(WriteOps)
    /\ Len(q) \in Nat /\ Len(q) <= Len(data)
    /\ \A i \in 1..Len(data) : i <= Len(q) <=> offset + i - 1 < size
    /\ \A i \in 1..Len(q) : q[i] = Write(start + offset + i - 1, data[i])

\* The buffer commands write the data from their offset on, up to the end of the
\* region and not beyond.
LEMMA BufferWritesElements ==
    ASSUME NEW start \in Nat, NEW size \in Nat, NEW offset \in Nat,
           NEW data \in Seq(Byte), start + size <= EepromEnd
    PROVE  StoresData(start, size, offset, data, BufferWrites(start, size, offset, data))
<1> DEFINE m == Min({Len(data), size - offset})
           n == IF m < 0 THEN 0 ELSE m
           q == BufferWrites(start, size, offset, data)
<1>1. Len(data) \in Nat /\ \A i \in 1..Len(data) : data[i] \in Byte
  BY LenProperties, ElementOfSeq
<1>2. m = IF Len(data) <= size - offset THEN Len(data) ELSE size - offset
  BY <1>1, MinOfTwo
<1>3. q = [i \in 1..m |-> Write(start + offset + i - 1, data[i])]
  BY DEF BufferWrites
<1> HIDE DEF m, q
<1>4. m \in Int /\ n \in Nat /\ 1..m = 1..n
  BY <1>1, <1>2
<1>5. n <= Len(data) /\ \A i \in 1..Len(data) : i <= n <=> offset + i - 1 < size
  BY <1>1, <1>2
<1> HIDE DEF n
<1>6. \A i \in 1..n : start + offset + i - 1 \in Addresses
  BY <1>1, <1>4, <1>5, Layout DEF Addresses
<1>7. \A i \in 1..n : Write(start + offset + i - 1, data[i]) \in WriteOps
  <2>1. \A i \in 1..n : i \in 1..Len(data) /\ data[i] \in Byte
    BY <1>1, <1>4, <1>5
  <2> QED BY <1>6, <2>1, WriteIs
<1>8. q = [i \in 1..n |-> Write(start + offset + i - 1, data[i])]
  BY <1>3, <1>4
<1>9. q \in [1..n -> WriteOps]
  BY <1>7, <1>8
<1>10. q \in Seq(WriteOps) /\ Len(q) = n
  BY <1>4, <1>9, FunctionIsSeq
<1>11. StoresData(start, size, offset, data, q)
  BY <1>4, <1>5, <1>8, <1>10 DEF StoresData
<1> QED BY <1>11 DEF q

\* A part of dynamic_keymap_reset: one key, one encoder, one layer.
KeyReset(b, l, k) ==
    SetKeycode(l, k \div MATRIX_COLS, k % MATRIX_COLS,
               Firmware[b].keymap[<<l, k \div MATRIX_COLS, k % MATRIX_COLS>>])
TurnReset(b, l, e, w) == SetEncoder(l, e, w, Firmware[b].encodermap[<<l, e, w>>])
EncoderReset(b, l, e) == TurnReset(b, l, e, TRUE) \o TurnReset(b, l, e, FALSE)
KeysReset(b, l)       == [k \in 1..(MATRIX_ROWS * MATRIX_COLS) |-> KeyReset(b, l, k - 1)]
EncodersReset(b, l)   == [e \in 1..NUM_ENCODERS |-> EncoderReset(b, l, e - 1)]
LayerReset(b, l)      == FlattenSeq(KeysReset(b, l)) \o FlattenSeq(EncodersReset(b, l))
LayersReset(b)        == [l \in 1..DYNAMIC_KEYMAP_LAYER_COUNT |-> LayerReset(b, l - 1)]

\* dynamic_keymap_reset is its layers one after the other.
LEMMA ResetIsLayers ==
    ASSUME NEW b
    PROVE  KeymapReset(b) = FlattenSeq(LayersReset(b))
BY DEF KeymapReset, LayersReset, LayerReset, KeysReset, EncodersReset, EncoderReset,
       TurnReset, KeyReset

\* A write of a build's default keycode: its bytes, in the keymap or encoder map.
DefaultWrites(b) ==
    {w \in WriteOps : w.address \in KeymapCells \cup EncoderCells /\ w.value \in KeycodesOf(b)}

\* Resetting a key writes both of its bytes from the build's keymap.
LEMMA KeyResetElements ==
    ASSUME NEW b \in Builds, NEW l \in Layers, NEW k \in Nat,
           k < MATRIX_ROWS * MATRIX_COLS
    PROVE  /\ KeyReset(b, l, k) \in Seq(WriteOps)
           /\ Elements(KeyReset(b, l, k)) \subseteq DefaultWrites(b)
           /\ LET a == KeyAddress(l, k \div MATRIX_COLS, k % MATRIX_COLS)
              IN  \A x \in {a, a + 1} : \E w \in Elements(KeyReset(b, l, k)) : w.address = x
<1> DEFINE r == k \div MATRIX_COLS
           c == k % MATRIX_COLS
           p == <<l, r, c>>
           kc == Firmware[b].keymap[p]
           a == KeyAddress(l, r, c)
<1>1. p \in Positions
  BY KeyPosition
<1>2. kc \in Keycodes
  BY <1>1, BuildsAreSane
<1>3. Range(KeycodeBytes(kc)) \subseteq KeycodesOf(b)
  <2> HIDE DEF kc
  <2>1. kc \in {Firmware[b].keymap[x] : x \in Positions}
    BY <1>1 DEF kc
  <2> QED BY <1>1 DEF KeycodesOf, kc
<1>4. KeyReset(b, l, k) = SetKeycode(l, r, c, kc)
  BY DEF KeyReset
<1> HIDE DEF r, c, kc
<1>5. a \in KeymapCells /\ a + 1 \in KeymapCells
  BY <1>1, KeyAddressRange
<1>6. /\ SetKeycode(l, r, c, kc) \in Seq(WriteOps)
      /\ Elements(SetKeycode(l, r, c, kc))
                = {Write(a, kc \div 256), Write(a + 1, kc % 256)}
  BY <1>1, <1>2, SetKeycodeElements
<1> HIDE DEF a
<1>7. /\ Write(a, kc \div 256) \in WriteOps /\ Write(a + 1, kc % 256) \in WriteOps
      /\ Write(a, kc \div 256).address = a /\ Write(a + 1, kc % 256).address = a + 1
      /\ Write(a, kc \div 256).value \in KeycodesOf(b)
      /\ Write(a + 1, kc % 256).value \in KeycodesOf(b)
  BY <1>2, <1>3, <1>5, KeycodeBytesType, WriteIs, Regions
<1>8. Elements(KeyReset(b, l, k)) \subseteq DefaultWrites(b)
  BY <1>4, <1>5, <1>6, <1>7 DEF DefaultWrites
<1>9. \A x \in {a, a + 1} : \E w \in Elements(KeyReset(b, l, k)) : w.address = x
  BY <1>4, <1>6, <1>7
<1> QED BY <1>4, <1>6, <1>8, <1>9 DEF a, r, c

\* Resetting a turn writes both of its bytes from the build's encoder map.
LEMMA TurnResetElements ==
    ASSUME NEW b \in Builds, NEW l \in Layers, NEW e \in 0..(NUM_ENCODERS - 1),
           NEW w \in BOOLEAN
    PROVE  /\ TurnReset(b, l, e, w) \in Seq(WriteOps)
           /\ Elements(TurnReset(b, l, e, w)) \subseteq DefaultWrites(b)
           /\ LET a == EncoderAddress(l, e, w)
              IN  \A x \in {a, a + 1} : \E y \in Elements(TurnReset(b, l, e, w)) : y.address = x
<1> DEFINE p == <<l, e, w>>
           kc == Firmware[b].encodermap[p]
           a == EncoderAddress(l, e, w)
<1>1. p \in Turns
  BY DEF Turns
<1>2. kc \in Keycodes
  BY <1>1, BuildsAreSane
<1>3. Range(KeycodeBytes(kc)) \subseteq KeycodesOf(b)
  BY <1>1 DEF KeycodesOf
<1>4. TurnReset(b, l, e, w) = SetEncoder(l, e, w, kc)
  BY DEF TurnReset
<1> HIDE DEF kc
<1>5. a \in EncoderCells /\ a + 1 \in EncoderCells
  BY <1>1, EncoderAddressRange
<1>6. /\ SetEncoder(l, e, w, kc) \in Seq(WriteOps)
      /\ Elements(SetEncoder(l, e, w, kc))
                = {Write(a, kc \div 256), Write(a + 1, kc % 256)}
  BY <1>1, <1>2, SetEncoderElements
<1> HIDE DEF a
<1>7. /\ Write(a, kc \div 256) \in WriteOps /\ Write(a + 1, kc % 256) \in WriteOps
      /\ Write(a, kc \div 256).address = a /\ Write(a + 1, kc % 256).address = a + 1
      /\ Write(a, kc \div 256).value \in KeycodesOf(b)
      /\ Write(a + 1, kc % 256).value \in KeycodesOf(b)
  BY <1>2, <1>3, <1>5, KeycodeBytesType, WriteIs, Regions
<1>8. Elements(TurnReset(b, l, e, w)) \subseteq DefaultWrites(b)
  BY <1>4, <1>5, <1>6, <1>7 DEF DefaultWrites
<1>9. \A x \in {a, a + 1} : \E y \in Elements(TurnReset(b, l, e, w)) : y.address = x
  BY <1>4, <1>6, <1>7
<1> QED BY <1>4, <1>6, <1>8, <1>9 DEF a

\* Resetting a layer is resetting its keys, then its encoders' turns.
LEMMA LayerResetElements ==
    ASSUME NEW b \in Builds, NEW l \in Layers
    PROVE  /\ LayerReset(b, l) \in Seq(WriteOps)
           /\ Elements(LayerReset(b, l)) \subseteq DefaultWrites(b)
           /\ \A k \in 0..(MATRIX_ROWS * MATRIX_COLS - 1) :
                Elements(KeyReset(b, l, k)) \subseteq Elements(LayerReset(b, l))
           /\ \A e \in 0..(NUM_ENCODERS - 1), w \in BOOLEAN :
                Elements(TurnReset(b, l, e, w)) \subseteq Elements(LayerReset(b, l))
<1> DEFINE N == MATRIX_ROWS * MATRIX_COLS
           E == NUM_ENCODERS
           f == KeysReset(b, l)
           g == EncodersReset(b, l)
<1>1. N \in Nat /\ E \in Nat
  BY SizesAreSane
<1>2. \A k \in 1..N : f[k] = KeyReset(b, l, k - 1)
  BY DEF KeysReset
<1>3. \A e \in 1..E : g[e] = EncoderReset(b, l, e - 1)
  BY DEF EncodersReset
<1>4. DOMAIN f = 1..N /\ f = [k \in 1..N |-> f[k]] /\ DOMAIN g = 1..E /\ g = [e \in 1..E |-> g[e]]
  BY DEF KeysReset, EncodersReset
<1>5. LayerReset(b, l) = FlattenSeq(f) \o FlattenSeq(g)
  BY DEF LayerReset
<1> HIDE DEF f, g
<1>6. ASSUME NEW k \in 1..N
      PROVE  f[k] \in Seq(WriteOps) /\ Elements(f[k]) \subseteq DefaultWrites(b)
  <2>1. k - 1 \in Nat /\ k - 1 < MATRIX_ROWS * MATRIX_COLS
    BY <1>1
  <2>2. /\ KeyReset(b, l, k - 1) \in Seq(WriteOps)
        /\ Elements(KeyReset(b, l, k - 1)) \subseteq DefaultWrites(b)
    BY <2>1, KeyResetElements
  <2> QED BY <1>2, <2>2
<1>7. ASSUME NEW e \in 1..E
      PROVE  /\ g[e] \in Seq(WriteOps) /\ Elements(g[e]) \subseteq DefaultWrites(b)
             /\ Elements(g[e]) = Elements(TurnReset(b, l, e - 1, TRUE))
                                   \cup Elements(TurnReset(b, l, e - 1, FALSE))
  <2> DEFINE p == TurnReset(b, l, e - 1, TRUE)
             q == TurnReset(b, l, e - 1, FALSE)
  <2>1. e - 1 \in 0..(NUM_ENCODERS - 1)
    BY <1>1
  <2>2. /\ p \in Seq(WriteOps) /\ Elements(p) \subseteq DefaultWrites(b)
        /\ q \in Seq(WriteOps) /\ Elements(q) \subseteq DefaultWrites(b)
    BY <2>1, TurnResetElements
  <2>3. g[e] = p \o q
    BY <1>3 DEF EncoderReset
  <2> HIDE DEF p, q
  <2>4. p \o q \in Seq(WriteOps) /\ Elements(p \o q) = Elements(p) \cup Elements(q)
    BY <2>2, ConcatElements
  <2> QED BY <2>2, <2>3, <2>4 DEF p, q
<1>8. f \in [1..N -> Seq(WriteOps)] /\ g \in [1..E -> Seq(WriteOps)]
  BY <1>4, <1>6, <1>7
<1> HIDE DEF N, E
<1>9. /\ FlattenSeq(f) \in Seq(WriteOps) /\ Elements(FlattenSeq(f)) = Parts(f, N)
      /\ FlattenSeq(g) \in Seq(WriteOps) /\ Elements(FlattenSeq(g)) = Parts(g, E)
  BY <1>1, <1>8, FlattenElements
<1>10. /\ LayerReset(b, l) \in Seq(WriteOps)
       /\ Elements(LayerReset(b, l)) = Parts(f, N) \cup Parts(g, E)
  <2>1. /\ FlattenSeq(f) \o FlattenSeq(g) \in Seq(WriteOps)
        /\ Elements(FlattenSeq(f) \o FlattenSeq(g))
             = Elements(FlattenSeq(f)) \cup Elements(FlattenSeq(g))
    BY <1>9, ConcatElements
  <2> QED BY <1>5, <1>9, <2>1
<1>11. Parts(f, N) \subseteq DefaultWrites(b) /\ Parts(g, E) \subseteq DefaultWrites(b)
  BY <1>6, <1>7 DEF Parts
<1>12. /\ \A k \in 1..N : Elements(f[k]) \subseteq Parts(f, N)
       /\ \A e \in 1..E : Elements(g[e]) \subseteq Parts(g, E)
  BY DEF Parts
<1>13. ASSUME NEW k \in 0..(MATRIX_ROWS * MATRIX_COLS - 1)
       PROVE  Elements(KeyReset(b, l, k)) \subseteq Elements(LayerReset(b, l))
  <2>1. k + 1 \in 1..N /\ (k + 1) - 1 = k
    BY <1>1 DEF N
  <2>2. f[k + 1] = KeyReset(b, l, k)
    BY <1>2, <2>1
  <2> QED BY <1>10, <1>12, <2>1, <2>2
<1>14. ASSUME NEW e \in 0..(NUM_ENCODERS - 1), NEW w \in BOOLEAN
       PROVE  Elements(TurnReset(b, l, e, w)) \subseteq Elements(LayerReset(b, l))
  <2>1. e + 1 \in 1..E /\ (e + 1) - 1 = e
    BY <1>1 DEF E
  <2>2. Elements(g[e + 1]) = Elements(TurnReset(b, l, e, TRUE))
                               \cup Elements(TurnReset(b, l, e, FALSE))
    BY <1>7, <2>1
  <2>3. Elements(TurnReset(b, l, e, w)) \subseteq Elements(g[e + 1])
    BY <2>2
  <2> QED BY <1>10, <1>12, <2>1, <2>3
<1> QED BY <1>10, <1>11, <1>13, <1>14

\* dynamic_keymap_reset writes default keycodes only, and it writes every cell of
\* the keymap and of the encoder map.
LEMMA KeymapResetElements ==
    ASSUME NEW b \in Builds
    PROVE  /\ KeymapReset(b) \in Seq(WriteOps)
           /\ Elements(KeymapReset(b)) \subseteq DefaultWrites(b)
           /\ \A a \in KeymapCells \cup EncoderCells :
                \E w \in Elements(KeymapReset(b)) : w.address = a
<1> DEFINE L == DYNAMIC_KEYMAP_LAYER_COUNT
           f == LayersReset(b)
<1>1. L \in Nat
  BY SizesAreSane
<1>2. \A l \in 1..L : f[l] = LayerReset(b, l - 1)
  BY DEF LayersReset
<1>3. f = [l \in 1..L |-> f[l]]
  BY DEF LayersReset
<1>4. KeymapReset(b) = FlattenSeq(f)
  BY ResetIsLayers
<1> HIDE DEF f
<1>5. ASSUME NEW l \in 1..L
      PROVE  f[l] \in Seq(WriteOps) /\ Elements(f[l]) \subseteq DefaultWrites(b)
  <2>1. l - 1 \in Layers
    BY <1>1 DEF Layers
  <2> QED BY <1>2, <2>1, LayerResetElements
<1>6. f \in [1..L -> Seq(WriteOps)]
  BY <1>3, <1>5
<1> HIDE DEF L
<1>7. FlattenSeq(f) \in Seq(WriteOps) /\ Elements(FlattenSeq(f)) = Parts(f, L)
  BY <1>1, <1>6, FlattenElements
<1>8. Parts(f, L) \subseteq DefaultWrites(b)
  BY <1>5 DEF Parts
<1>9. ASSUME NEW l \in Layers PROVE Elements(LayerReset(b, l)) \subseteq Parts(f, L)
  <2>1. l + 1 \in 1..L /\ (l + 1) - 1 = l
    BY <1>1 DEF Layers, L
  <2>2. f[l + 1] = LayerReset(b, l)
    BY <1>2, <2>1
  <2> QED BY <2>1, <2>2 DEF Parts
<1>10. ASSUME NEW a \in KeymapCells PROVE \E w \in Parts(f, L) : w.address = a
  <2>1. PICK l \in Layers, k \in 0..(MATRIX_ROWS * MATRIX_COLS - 1) :
              a \in {KeyAddress(l, k \div MATRIX_COLS, k % MATRIX_COLS),
                     KeyAddress(l, k \div MATRIX_COLS, k % MATRIX_COLS) + 1}
    BY CellOfKey
  <2>2. k \in Nat /\ k < MATRIX_ROWS * MATRIX_COLS
    BY SizesAreSane
  <2>3. \E w \in Elements(KeyReset(b, l, k)) : w.address = a
    BY <2>1, <2>2, KeyResetElements
  <2>4. Elements(KeyReset(b, l, k)) \subseteq Elements(LayerReset(b, l))
    BY LayerResetElements
  <2> QED BY <1>9, <2>3, <2>4
<1>11. ASSUME NEW a \in EncoderCells PROVE \E w \in Parts(f, L) : w.address = a
  <2>1. PICK l \in Layers, e \in 0..(NUM_ENCODERS - 1), w \in BOOLEAN :
              a \in {EncoderAddress(l, e, w), EncoderAddress(l, e, w) + 1}
    BY CellOfTurn
  <2>2. \E x \in Elements(TurnReset(b, l, e, w)) : x.address = a
    BY <2>1, TurnResetElements
  <2>3. Elements(TurnReset(b, l, e, w)) \subseteq Elements(LayerReset(b, l))
    BY LayerResetElements
  <2> QED BY <1>9, <2>2, <2>3
<1> QED BY <1>4, <1>7, <1>8, <1>10, <1>11
\* nvm_dynamic_keymap_macro_reset clears the macro cells in order.
LEMMA MacroResetElements ==
    /\ MacroReset \in Seq(WriteOps) /\ Len(MacroReset) = DYNAMIC_KEYMAP_MACRO_EEPROM_SIZE
    /\ \A i \in 1..DYNAMIC_KEYMAP_MACRO_EEPROM_SIZE : MacroReset[i] = Write(MacroCell(i), 0)
    /\ \A w \in Elements(MacroReset) : w.address \in MacroCells /\ w.value = 0
<1> DEFINE N == DYNAMIC_KEYMAP_MACRO_EEPROM_SIZE
<1>1. N \in Nat
  BY Layout
<1>2. MacroReset = [i \in 1..N |-> Write(MacroCell(i), 0)]
  BY DEF MacroReset, MacroCell
<1>3. \A i \in 1..N : MacroCell(i) \in MacroCells
  BY Layout DEF MacroCell, MacroCells
<1> HIDE DEF N
<1>4. 0 \in Byte
  BY DEF Byte
<1>5. \A i \in 1..N : /\ MacroReset[i] = Write(MacroCell(i), 0)
                      /\ MacroReset[i] \in WriteOps
                      /\ MacroReset[i].address \in MacroCells
                      /\ MacroReset[i].value = 0
  BY <1>2, <1>3, <1>4, WriteIs, Regions
<1>6. MacroReset \in [1..N -> WriteOps]
  BY <1>2, <1>5
<1>7. MacroReset \in Seq(WriteOps) /\ Len(MacroReset) = N
  BY <1>1, <1>6, FunctionIsSeq
<1> QED BY <1>5, <1>7 DEF Elements, N

\* via_eeprom_set_valid writes the three bytes of a magic.
LEMMA SetMagicElements ==
    ASSUME NEW m, m[1] \in Byte, m[2] \in Byte, m[3] \in Byte
    PROVE  /\ SetMagic(m) \in Seq(WriteOps) /\ Len(SetMagic(m)) = 3
           /\ \A i \in 1..3 : SetMagic(m)[i].address = i /\ SetMagic(m)[i].value = m[i]
<1>1. SetMagic(m) = [i \in 1..3 |-> Write(VIA_EEPROM_MAGIC_ADDR + i - 1, m[i])]
  BY DEF SetMagic
<1>2. \A i \in 1..3 : VIA_EEPROM_MAGIC_ADDR + i - 1 = i /\ i \in 0..4
  BY Layout
<1>3. \A i \in 1..3 : i = 1 \/ i = 2 \/ i = 3
  OBVIOUS
<1>4. \A i \in 1..3 : /\ SetMagic(m)[i] \in WriteOps
                      /\ SetMagic(m)[i].address = i /\ SetMagic(m)[i].value = m[i]
  BY <1>1, <1>2, <1>3, WriteIs, Regions
<1>5. SetMagic(m) \in [1..3 -> WriteOps]
  BY <1>1, <1>4
<1>6. SetMagic(m) \in Seq(WriteOps) /\ Len(SetMagic(m)) = 3
  BY <1>5, FunctionIsSeq
<1> QED BY <1>4, <1>6

\* via_set_layout_options writes one byte.
LEMMA SetLayoutElements ==
    ASSUME NEW v \in Nat
    PROVE  /\ SetLayoutOptions(v) \in Seq(WriteOps) /\ Len(SetLayoutOptions(v)) = 1
           /\ SetLayoutOptions(v)[1].address = 4
           /\ \A w \in Elements(SetLayoutOptions(v)) : w.address = 4
<1> DEFINE x == Write(VIA_EEPROM_LAYOUT_OPTIONS_ADDR, v % 256)
<1>1. v % 256 \in Byte
  BY DEF Byte
<1>2. x \in WriteOps /\ x.address = 4
  BY <1>1, Layout, Regions, WriteIs
<1>3. SetLayoutOptions(v) = <<x>>
  BY DEF SetLayoutOptions
<1> HIDE DEF x
<1>4. <<x>> \in Seq(WriteOps) /\ Len(<<x>>) = 1 /\ <<x>>[1] = x
  BY <1>2
<1>5. 1..1 = {1}
  OBVIOUS
<1> QED BY <1>2, <1>3, <1>4, <1>5 DEF Elements

\* The writes of a first start: everything but the build's magic, in some order,
\* and then that magic.
FirstWrites(b) == <<Write(EECONFIG_MAGIC, 1)>> \o InitVia(b)

Invalid == SetMagic(<<255, 255, 255>>)
Defaults(b) == ((Invalid \o SetLayoutOptions(0)) \o KeymapReset(b)) \o MacroReset
BeforeMagic(b) == <<Write(EECONFIG_MAGIC, 1)>> \o Defaults(b)

\* eeconfig_init_via saves the magic last.
LEMMA FirstWritesAre ==
    ASSUME NEW b \in Builds
    PROVE  /\ BeforeMagic(b) \in Seq(WriteOps)
           /\ SetMagic(Firmware[b].magic) \in Seq(WriteOps)
           /\ FirstWrites(b) = BeforeMagic(b) \o SetMagic(Firmware[b].magic)
           /\ Elements(BeforeMagic(b)) =
                {Write(EECONFIG_MAGIC, 1)} \cup Elements(Invalid)
                  \cup Elements(SetLayoutOptions(0)) \cup Elements(KeymapReset(b))
                  \cup Elements(MacroReset)
<1> DEFINE x  == Write(EECONFIG_MAGIC, 1)
           X  == <<x>>
           M  == SetMagic(Firmware[b].magic)
           I  == Invalid
           O  == SetLayoutOptions(0)
           K  == KeymapReset(b)
           R  == MacroReset
<1>1. /\ I \in Seq(WriteOps) /\ M \in Seq(WriteOps)
  <2>1. <<255, 255, 255>>[1] = 255 /\ <<255, 255, 255>>[2] = 255 /\ <<255, 255, 255>>[3] = 255
    OBVIOUS
  <2>2. 255 \in Byte
    BY DEF Byte
  <2>3. \A i \in 1..3 : Firmware[b].magic[i] \in Byte
    BY BuildsAreSane
  <2> DEFINE m == Firmware[b].magic
             z == <<255, 255, 255>>
  <2>4. m[1] \in Byte /\ m[2] \in Byte /\ m[3] \in Byte
    BY <2>3
  <2>5. z[1] \in Byte /\ z[2] \in Byte /\ z[3] \in Byte
    BY <2>1, <2>2
  <2> HIDE DEF m, z
  <2>6. SetMagic(m) \in Seq(WriteOps)
    BY <2>4, SetMagicElements
  <2>7. SetMagic(z) \in Seq(WriteOps)
    BY <2>5, SetMagicElements
  <2> QED BY <2>6, <2>7 DEF m, z, Invalid
<1>2. O \in Seq(WriteOps) /\ K \in Seq(WriteOps) /\ R \in Seq(WriteOps)
  BY SetLayoutElements, KeymapResetElements, MacroResetElements
<1>3. x \in WriteOps
  <2>1. EECONFIG_MAGIC \in Addresses /\ 1 \in Byte
    BY Layout, Regions DEF Byte
  <2> QED BY <2>1, WriteIs
<1>4. FirstWrites(b) = X \o ((((I \o O) \o K) \o R) \o M)
  BY DEF FirstWrites, InitVia, Invalid
<1>5. BeforeMagic(b) = X \o (((I \o O) \o K) \o R)
  BY DEF BeforeMagic, Defaults
<1> HIDE DEF x, M, I, O, K, R
<1>6. X \in Seq(WriteOps) /\ Elements(X) = {x}
  <2>1. <<x>> \in Seq(WriteOps) /\ Len(<<x>>) = 1 /\ <<x>>[1] = x
    BY <1>3
  <2>2. 1..1 = {1}
    OBVIOUS
  <2> QED BY <2>1, <2>2 DEF Elements
<1> HIDE DEF X
<1> DEFINE A == I \o O
           B == A \o K
           C == B \o R
<1>7. A \in Seq(WriteOps) /\ Elements(A) = Elements(I) \cup Elements(O)
  BY <1>1, <1>2, ConcatElements
<1> HIDE DEF A
<1>8. B \in Seq(WriteOps) /\ Elements(B) = Elements(A) \cup Elements(K)
  BY <1>2, <1>7, ConcatElements
<1> HIDE DEF B
<1>9. C \in Seq(WriteOps) /\ Elements(C) = Elements(B) \cup Elements(R)
  BY <1>2, <1>8, ConcatElements
<1> HIDE DEF C
<1>10. X \o C \in Seq(WriteOps) /\ Elements(X \o C) = Elements(X) \cup Elements(C)
  BY <1>6, <1>9, ConcatElements
<1>11. FirstWrites(b) = X \o (C \o M) /\ BeforeMagic(b) = X \o C
  BY <1>4, <1>5 DEF A, B, C
<1>12. X \o (C \o M) = (X \o C) \o M
  <2>1. X \in Seq(WriteOps) /\ C \in Seq(WriteOps) /\ M \in Seq(WriteOps)
    BY <1>1, <1>6, <1>9
  <2>2. \A s, t, u \in Seq(WriteOps) : (s \o t) \o u = s \o (t \o u)
    BY ConcatAssociative
  <2> QED BY <2>1, <2>2, Zenon
<1>13. Elements(X \o C) = {x} \cup Elements(I) \cup Elements(O) \cup Elements(K) \cup Elements(R)
  BY <1>6, <1>7, <1>8, <1>9, <1>10
<1>14. SetMagic(Firmware[b].magic) = M /\ Invalid = I /\ SetLayoutOptions(0) = O
       /\ KeymapReset(b) = K /\ MacroReset = R /\ Write(EECONFIG_MAGIC, 1) = x
  BY DEF M, I, O, K, R, x
<1> QED BY <1>1, <1>10, <1>11, <1>12, <1>13, <1>14, Zenon
\* What a build stores is of its day, and builds of one day share their bytes.
LEMMA DayBytes ==
    ASSUME NEW b \in Builds
    PROVE  /\ KeycodesOf(b) \subseteq KeymapBytes[b]
           /\ 0 \in MacroBytes[b] /\ 255 \in MacroBytes[b]
           /\ \A i \in Firmware[b].images : Range(i) \subseteq MacroBytes[b]
           /\ \A c \in Builds : Firmware[c].magic = Firmware[b].magic =>
                 KeymapBytes[c] = KeymapBytes[b] /\ MacroBytes[c] = MacroBytes[b]
<1>1. b \in SameDay(b)
  BY DEF SameDay
<1>2. KeycodesOf(b) \subseteq KeymapBytes[b]
  BY <1>1 DEF KeymapBytes
<1>3. /\ 0 \in MacroBytes[b] /\ 255 \in MacroBytes[b]
      /\ \A i \in Firmware[b].images : Range(i) \subseteq MacroBytes[b]
  BY <1>1 DEF MacroBytes
<1>4. ASSUME NEW c \in Builds, Firmware[c].magic = Firmware[b].magic
      PROVE  KeymapBytes[c] = KeymapBytes[b] /\ MacroBytes[c] = MacroBytes[b]
  <2>1. SameDay(c) = SameDay(b)
    BY <1>4 DEF SameDay
  <2> QED BY <2>1 DEF KeymapBytes, MacroBytes
<1> QED BY <1>2, <1>3, <1>4

\* The writes before the magic, one by one.
LEMMA BeforeMagicCases ==
    ASSUME NEW b \in Builds, NEW w \in Elements(BeforeMagic(b))
    PROVE  \/ w = Write(EECONFIG_MAGIC, 1)
           \/ w.address \in 1..3 /\ w.value = 255
           \/ w.address = 4
           \/ w \in DefaultWrites(b)
           \/ w.address \in MacroCells /\ w.value = 0
<1>1. w \in {Write(EECONFIG_MAGIC, 1)} \cup Elements(Invalid)
             \cup Elements(SetLayoutOptions(0)) \cup Elements(KeymapReset(b))
             \cup Elements(MacroReset)
  BY FirstWritesAre, Zenon
<1>2. CASE w \in Elements(Invalid)
  <2> DEFINE z == <<255, 255, 255>>
  <2>1. z[1] = 255 /\ z[2] = 255 /\ z[3] = 255 /\ \A i \in 1..3 : z[i] = 255
    OBVIOUS
  <2>2. z[1] \in Byte /\ z[2] \in Byte /\ z[3] \in Byte
    BY <2>1 DEF Byte
  <2> HIDE DEF z
  <2>3. /\ Len(SetMagic(z)) = 3
        /\ \A i \in 1..3 : SetMagic(z)[i].address = i /\ SetMagic(z)[i].value = z[i]
    BY <2>2, SetMagicElements
  <2>4. Invalid = SetMagic(z)
    BY DEF Invalid, z
  <2>5. PICK i \in 1..3 : w = SetMagic(z)[i]
    BY <1>2, <2>3, <2>4 DEF Elements
  <2> QED BY <2>1, <2>3, <2>5
<1>3. CASE w \in Elements(SetLayoutOptions(0))
  BY <1>3, SetLayoutElements
<1>4. CASE w \in Elements(KeymapReset(b))
  BY <1>4, KeymapResetElements
<1>5. CASE w \in Elements(MacroReset)
  BY <1>5, MacroResetElements
<1> QED BY <1>1, <1>2, <1>3, <1>4, <1>5

\* The writes of a first start, by position.
LEMMA FirstWritesCases ==
    ASSUME NEW b \in Builds
    PROVE  LET X == BeforeMagic(b)
               q == FirstWrites(b)
           IN  /\ q \in Seq(WriteOps) /\ Len(X) \in Nat /\ Len(q) = Len(X) + 3
               /\ \A n \in 1..Len(X) : q[n] \in Elements(X)
               /\ \A w \in Elements(X) : \E n \in 1..Len(X) : q[n] = w
               /\ \A i \in 1..3 : /\ q[Len(X) + i].address = i
                                  /\ q[Len(X) + i].value = Firmware[b].magic[i]
<1> DEFINE X == BeforeMagic(b)
           m == Firmware[b].magic
           M == SetMagic(m)
           q == FirstWrites(b)
<1>1. X \in Seq(WriteOps) /\ M \in Seq(WriteOps) /\ q = X \o M
  BY FirstWritesAre
<1>2. m[1] \in Byte /\ m[2] \in Byte /\ m[3] \in Byte
  BY BuildsAreSane
<1> HIDE DEF m
<1>3. Len(M) = 3 /\ \A i \in 1..3 : M[i].address = i /\ M[i].value = m[i]
  BY <1>2, SetMagicElements
<1> HIDE DEF X, M, q
<1>4. /\ q \in Seq(WriteOps) /\ Len(q) = Len(X) + Len(M) /\ Len(X) \in Nat
      /\ \A i \in 1..(Len(X) + Len(M)) :
            q[i] = IF i <= Len(X) THEN X[i] ELSE M[i - Len(X)]
  BY <1>1, ConcatProperties, LenProperties
<1>5. \A n \in 1..Len(X) : q[n] = X[n]
  BY <1>3, <1>4
<1>6. /\ \A n \in 1..Len(X) : q[n] \in Elements(X)
      /\ \A w \in Elements(X) : \E n \in 1..Len(X) : q[n] = w
  BY <1>5 DEF Elements
<1>7. \A i \in 1..3 : q[Len(X) + i] = M[i]
  <2> TAKE i \in 1..3
  <2>1. /\ Len(X) + i \in 1..(Len(X) + Len(M)) /\ ~(Len(X) + i <= Len(X))
        /\ (Len(X) + i) - Len(X) = i
    BY <1>3, <1>4
  <2> QED BY <1>4, <2>1
<1> QED BY <1>3, <1>4, <1>6, <1>7 DEF X, q, m
\* On an erased EEPROM eeconfig_init_via writes every cell with data of its build.
LEMMA FirstStart ==
    ASSUME NEW b \in Builds
    PROVE  /\ FirstWrites(b) \in Seq(WriteOps)
           /\ OwnIn(b, FirstWrites(b))
           /\ InitialisesIn(b, FirstWrites(b), Zeroed)
<1> DEFINE X == BeforeMagic(b)
           q == FirstWrites(b)
           m == Firmware[b].magic
<1>1. /\ q \in Seq(WriteOps) /\ Len(X) \in Nat /\ Len(q) = Len(X) + 3
      /\ \A n \in 1..Len(X) : q[n] \in Elements(X)
      /\ \A w \in Elements(X) : \E n \in 1..Len(X) : q[n] = w
      /\ \A i \in 1..3 : q[Len(X) + i].address = i /\ q[Len(X) + i].value = m[i]
  BY FirstWritesCases
<1>2. \A w \in Elements(X) :
           \/ w.address = 0 /\ w.value = 1
           \/ w.address \in 1..3 /\ w.value = 255
           \/ w.address = 4
           \/ w \in DefaultWrites(b)
           \/ w.address \in MacroCells /\ w.value = 0
  BY BeforeMagicCases, WriteIs, Layout
<1>3. /\ \A w \in Elements(KeymapReset(b)) : w \in Elements(X)
      /\ Write(EECONFIG_MAGIC, 1) \in Elements(X)
  BY FirstWritesAre, Zenon
<1>4. \A a \in Addresses : Zeroed[a] = 0
  BY DEF Zeroed
<1>5. \A w \in DefaultWrites(b) :
         /\ w.address \in KeymapCells \cup EncoderCells /\ w.value \in KeymapBytes[b]
         /\ w.address > 4 /\ w.address \notin MacroCells
  BY DayBytes, Regions DEF DefaultWrites
<1> HIDE DEF X, q, m
<1>6. \A n \in 1..Len(q) : \/ n \in 1..Len(X) /\ q[n] \in Elements(X)
                           \/ \E i \in 1..3 : /\ n = Len(X) + i
                                              /\ q[n].address = i /\ q[n].value = m[i]
  <2> TAKE n \in 1..Len(q)
  <2>1. CASE n <= Len(X)
    BY <1>1, <2>1
  <2>2. CASE n > Len(X)
    <3>1. n - Len(X) \in 1..3 /\ n = Len(X) + (n - Len(X))
      BY <1>1, <2>2
    <3> QED BY <1>1, <3>1
  <2> QED BY <1>1, <2>1, <2>2
<1>7. OwnIn(b, q)
  BY <1>2, <1>5, <1>6, DayBytes, Regions DEF OwnIn
<1>8. Fills(q, Zeroed, EECONFIG_MAGIC, {1})
  <2>1. \A n \in 1..Len(q) : q[n].address = 0 => q[n].value = 1
    BY <1>2, <1>5, <1>6, Regions
  <2>2. \E n \in 1..Len(q) : q[n].address = 0
    <3>1. PICK n \in 1..Len(X) : q[n] = Write(EECONFIG_MAGIC, 1)
      BY <1>1, <1>3
    <3>2. n \in 1..Len(q)
      BY <1>1
    <3> QED BY <3>1, <3>2, WriteIs, Layout
  <2> QED BY <2>1, <2>2, Layout DEF Fills
<1>9. ASSUME NEW i \in 1..3
      PROVE  Lands(q, Zeroed, VIA_EEPROM_MAGIC_ADDR + i - 1, m[i])
  <2>1. VIA_EEPROM_MAGIC_ADDR + i - 1 = i
    BY Layout
  <2>2. Len(X) + i \in 1..Len(q)
    BY <1>1
  <2>3. ASSUME NEW k \in 1..Len(q), k > Len(X) + i PROVE q[k].address # i
    <3>1. k - Len(X) \in 1..3 /\ k = Len(X) + (k - Len(X)) /\ k - Len(X) # i
      BY <1>1, <2>3
    <3>2. q[k].address = k - Len(X)
      BY <1>1, <3>1
    <3> QED BY <3>1, <3>2
  <2>4. Lands(q, Zeroed, i, m[i])
    BY <1>1, <2>2, <2>3 DEF Lands
  <2> QED BY <2>1, <2>4
<1>10. ASSUME NEW a \in KeymapCells \cup EncoderCells PROVE Fills(q, Zeroed, a, KeymapBytes[b])
  <2>1. \A n \in 1..Len(q) : q[n].address = a => q[n].value \in KeymapBytes[b]
    BY <1>7 DEF OwnIn
  <2>2. PICK w \in Elements(KeymapReset(b)) : w.address = a
    BY KeymapResetElements
  <2>3. PICK n \in 1..Len(X) : q[n] = w
    BY <1>1, <1>3
  <2>4. n \in 1..Len(q)
    BY <1>1
  <2> QED BY <2>1, <2>2, <2>3, <2>4 DEF Fills
<1>11. ASSUME NEW a \in MacroCells
       PROVE  Zeroed[a] = 0 /\ \A n \in 1..Len(q) : q[n].address = a => q[n].value = 0
  BY <1>2, <1>4, <1>5, <1>6, Regions
<1>12. Zeroed[MAGIC_DAY_ADDR] = 0
  BY <1>4, Layout, Regions
<1>13. ASSUME NEW n \in 1..(Len(q) - 1), q[n].address = MAGIC_DAY_ADDR
       PROVE  q[n].value = 255
  <2>1. q[n].address = 3 /\ n \in 1..Len(q)
    BY <1>1, <1>13, Layout
  <2>2. n \in 1..Len(X) /\ q[n] \in Elements(X)
    BY <1>1, <1>6, <1>13, <2>1
  <2> QED BY <1>2, <1>5, <2>1, <2>2, Regions
<1> QED BY <1>1, <1>7, <1>8, <1>9, <1>10, <1>11, <1>12, <1>13 DEF InitialisesIn, q, m

\* One write of the initialisation on.
LEMMA InitialisesStep ==
    ASSUME NEW b \in Builds, NEW q \in Seq(WriteOps), q # <<>>,
           NEW e \in [Addresses -> Byte], InitialisesIn(b, q, e)
    PROVE  InitialisesIn(b, Tail(q), [e EXCEPT ![Head(q).address] = Head(q).value])
<1> DEFINE t == Tail(q)
           f == [e EXCEPT ![Head(q).address] = Head(q).value]
<1>1. /\ Len(q) \in Nat /\ Len(q) >= 1 /\ Len(t) = Len(q) - 1 /\ t \in Seq(WriteOps)
      /\ Head(q) = q[1] /\ q[1] \in WriteOps
      /\ \A n \in 1..(Len(q) - 1) : t[n] = q[n + 1]
  BY TailIndices
<1>2. \A a \in Addresses : f[a] = IF q[1].address = a THEN q[1].value ELSE e[a]
  BY <1>1 DEF WriteOps
<1>3. /\ EECONFIG_MAGIC \in Addresses /\ MAGIC_DAY_ADDR \in Addresses
      /\ \A i \in 1..3 : VIA_EEPROM_MAGIC_ADDR + i - 1 \in Addresses
      /\ KeymapCells \cup EncoderCells \subseteq Addresses /\ MacroCells \subseteq Addresses
  BY Layout, Regions
<1>a. \A a \in Addresses : \A S : Fills(q, e, a, S) => Fills(t, f, a, S)
  BY FillsStep
<1>b. \A a \in Addresses : \A v : Lands(q, e, a, v) => Lands(t, f, a, v)
  BY LandsStep
<1>c. /\ Fills(q, e, EECONFIG_MAGIC, {1})
      /\ \A i \in 1..3 : Lands(q, e, VIA_EEPROM_MAGIC_ADDR + i - 1, Firmware[b].magic[i])
      /\ \A a \in KeymapCells \cup EncoderCells : Fills(q, e, a, KeymapBytes[b])
  BY DEF InitialisesIn
<1> HIDE DEF t, f
<1>4. Fills(t, f, EECONFIG_MAGIC, {1})
  BY <1>3, <1>a, <1>c, Zenon
<1>5. \A i \in 1..3 : Lands(t, f, VIA_EEPROM_MAGIC_ADDR + i - 1, Firmware[b].magic[i])
  <2> TAKE i \in 1..3
  <2>1. VIA_EEPROM_MAGIC_ADDR + i - 1 \in Addresses
    BY <1>3
  <2>2. Lands(q, e, VIA_EEPROM_MAGIC_ADDR + i - 1, Firmware[b].magic[i])
    BY <1>c
  <2> QED BY <1>b, <2>1, <2>2, Zenon
<1>6. \A a \in KeymapCells \cup EncoderCells : Fills(t, f, a, KeymapBytes[b])
  <2> TAKE a \in KeymapCells \cup EncoderCells
  <2>1. a \in Addresses /\ Fills(q, e, a, KeymapBytes[b])
    BY <1>3, <1>c
  <2> QED BY <1>a, <2>1, Zenon
<1>7. ASSUME NEW a \in MacroCells
      PROVE  f[a] = 0 /\ \A n \in 1..Len(t) : t[n].address = a => t[n].value = 0
  BY <1>1, <1>2, <1>3 DEF InitialisesIn
<1>8. ASSUME t # <<>>
      PROVE  /\ f[MAGIC_DAY_ADDR] \in {0, 255}
             /\ \A n \in 1..(Len(t) - 1) :
                   t[n].address = MAGIC_DAY_ADDR => t[n].value \in {0, 255}
  <2>1. Len(t) >= 1
    BY <1>1, <1>8, EmptySeq
  <2>2. 1 \in 1..(Len(q) - 1)
    BY <1>1, <2>1
  <2>3. f[MAGIC_DAY_ADDR] \in {0, 255}
    BY <1>2, <1>3, <2>2 DEF InitialisesIn
  <2>4. ASSUME NEW n \in 1..(Len(t) - 1), t[n].address = MAGIC_DAY_ADDR
        PROVE  t[n].value \in {0, 255}
    <3>1. n + 1 \in 1..(Len(q) - 1) /\ t[n] = q[n + 1]
      BY <1>1
    <3> QED BY <2>4, <3>1 DEF InitialisesIn
  <2> QED BY <2>3, <2>4
<1> QED BY <1>4, <1>5, <1>6, <1>7, <1>8 DEF InitialisesIn, t, f
\* A list of writes keeps to the cells R.
Within(q, R) == \A n \in 1..Len(q) : q[n].address \in R

\* Elements and positions of a list.
LEMMA ByElement ==
    ASSUME NEW S, NEW q \in Seq(S)
    PROVE  /\ \A n \in 1..Len(q) : q[n] \in Elements(q)
           /\ \A w \in Elements(q) : \E n \in 1..Len(q) : q[n] = w
BY DEF Elements

\* The two writes of a keycode at `a` store it there.
LEMMA KeycodeStored ==
    ASSUME NEW q \in Seq(WriteOps), NEW a \in Nat, NEW k \in Keycodes,
           Elements(q) = {Write(a, k \div 256), Write(a + 1, k % 256)}
    PROVE  /\ \A e : KeycodeIn(q, e, a, k)
           /\ Within(q, {a, a + 1})
           /\ \A n \in 1..Len(q) : q[n].value \in {k \div 256, k % 256}
<1> DEFINE hi == k \div 256
           lo == k % 256
           x == Write(a, hi)
           y == Write(a + 1, lo)
<1>1. x.address = a /\ x.value = hi /\ y.address = a + 1 /\ y.value = lo
  BY WriteIs
<1>2. Elements(q) = {x, y}
  OBVIOUS
<1>3. a # a + 1
  OBVIOUS
<1> HIDE DEF hi, lo, x, y
<1>4. /\ \A n \in 1..Len(q) : q[n] \in Elements(q)
      /\ \A w \in Elements(q) : \E n \in 1..Len(q) : q[n] = w
  BY ByElement
<1>5. \A n \in 1..Len(q) : q[n] = x \/ q[n] = y
  BY <1>2, <1>4
<1>6. (\E n \in 1..Len(q) : q[n] = x) /\ (\E n \in 1..Len(q) : q[n] = y)
  BY <1>2, <1>4
<1>7. ASSUME NEW e PROVE Fills(q, e, a, {hi}) /\ Fills(q, e, a + 1, {lo})
  BY <1>1, <1>3, <1>5, <1>6 DEF Fills
<1>8. \A n \in 1..Len(q) : q[n].address \in {a, a + 1} /\ q[n].value \in {hi, lo}
  BY <1>1, <1>5
<1> QED BY <1>7, <1>8 DEF KeycodeIn, Within, hi, lo

\* raw_hid_receive's writes, for the build `b`.
WritesOf(b, q) ==
    CASE q.kind = "options"     -> SetLayoutOptions(q.value)
      [] q.kind = "key"         -> SetKeycode(q.layer, q.row, q.column, q.keycode)
      [] q.kind = "encoder"     -> SetEncoder(q.layer, q.encoder, q.clockwise, q.keycode)
      [] q.kind = "keymap"      -> KeymapBufferWrites(q.offset, q.data)
      [] q.kind = "macros"      -> MacroBufferWrites(q.offset, q.data)
      [] q.kind = "reset"       -> KeymapReset(b)
      [] q.kind = "macro_reset" -> MacroReset

\* What is to be known of a request's writes.
GoodWrites(b, c, q) ==
    /\ q \in Seq(WriteOps)
    /\ Within(q, Region(c)) /\ OwnIn(b, q)
    /\ \A n \in 1..Len(q) : q[n].address > 3
    /\ \A e : StoresIn(c, q, e)
    /\ c.kind # "macro_reset" => \A n \in 1..Len(q) : q[n].address \notin MacroCells

\* id_set_keyboard_value, layout options.
LEMMA OptionsGood ==
    ASSUME NEW b \in Builds, NEW c \in OptionsRequest
    PROVE  GoodWrites(b, c, SetLayoutOptions(c.value))
<1> DEFINE q == SetLayoutOptions(c.value)
<1>1. c.kind = "options" /\ c.value \in Nat
  BY DEF OptionsRequest
<1>2. q \in Seq(WriteOps) /\ \A n \in 1..Len(q) : q[n].address = 4
  BY <1>1, SetLayoutElements, ByElement
<1>3. Region(c) = {4}
  BY <1>1, Layout DEF Region
<1> HIDE DEF q
<1>4. /\ "options" # "key" /\ "options" # "encoder" /\ "options" # "keymap"
  OBVIOUS
<1>5. \A e : StoresIn(c, q, e)
  BY <1>1, <1>4 DEF StoresIn
<1>6. OwnIn(b, q) /\ \A n \in 1..Len(q) : q[n].address > 3 /\ q[n].address \notin MacroCells
  BY <1>2, Regions DEF OwnIn
<1> QED BY <1>2, <1>3, <1>5, <1>6 DEF GoodWrites, Within, q

\* id_dynamic_keymap_set_keycode.
LEMMA KeyGood ==
    ASSUME NEW b \in Builds, NEW c \in Firmware[b].requests,
           c \in KeyRequest
    PROVE  GoodWrites(b, c, SetKeycode(c.layer, c.row, c.column, c.keycode))
<1> DEFINE q == SetKeycode(c.layer, c.row, c.column, c.keycode)
           a == KeyAddress(c.layer, c.row, c.column)
           k == c.keycode
           in == <<c.layer, c.row, c.column>> \in Positions
<1>1. c.kind = "key" /\ k \in Keycodes
  BY DEF KeyRequest
<1>2. /\ q \in Seq(WriteOps)
      /\ in => Elements(q) = {Write(a, k \div 256), Write(a + 1, k % 256)}
      /\ ~in => q = <<>>
  BY <1>1, SetKeycodeElements
<1>3. in => a \in KeymapCells /\ a + 1 \in KeymapCells /\ a \in Nat
  BY KeyAddressRange
<1>4. Region(c) = {a, a + 1}
  BY <1>1 DEF Region
<1>5. {k \div 256, k % 256} \subseteq KeymapBytes[b]
  <2>1. DataOf(c) = Range(KeycodeBytes(k))
    BY <1>1 DEF DataOf
  <2>2. DataOf(c) \subseteq KeycodesOf(b)
    BY DEF KeycodesOf
  <2> QED BY <1>1, <2>1, <2>2, KeycodeBytesType, DayBytes
<1>6. \A e : StoresIn(c, q, e) <=> (in => KeycodeIn(q, e, a, k))
  BY <1>1 DEF StoresIn
<1> HIDE DEF q, a, k, in
<1>7. CASE in
  <2>1. /\ \A e : KeycodeIn(q, e, a, k)
        /\ \A n \in 1..Len(q) : /\ q[n].address = a \/ q[n].address = a + 1
                                /\ q[n].value \in {k \div 256, k % 256}
    BY <1>1, <1>2, <1>3, <1>7, KeycodeStored DEF Within
  <2>2. \A n \in 1..Len(q) : /\ q[n].address \in KeymapCells /\ q[n].address > 3
                             /\ q[n].address \notin MacroCells
                             /\ q[n].value \in KeymapBytes[b]
    BY <1>3, <1>5, <1>7, <2>1, Regions
  <2>3. OwnIn(b, q)
    BY <2>2 DEF OwnIn
  <2>4. Within(q, Region(c))
    BY <1>4, <2>1 DEF Within
  <2> QED BY <1>2, <1>6, <2>1, <2>2, <2>3, <2>4 DEF GoodWrites, q
<1>8. CASE ~in
  <2>1. Len(q) = 0
    BY <1>2, <1>8, NoElements
  <2> QED BY <1>2, <1>6, <1>8, <2>1 DEF GoodWrites, Within, OwnIn, q
<1> QED BY <1>7, <1>8

\* id_dynamic_keymap_set_encoder.
LEMMA EncoderGood ==
    ASSUME NEW b \in Builds, NEW c \in Firmware[b].requests,
           c \in EncoderRequest
    PROVE  GoodWrites(b, c, SetEncoder(c.layer, c.encoder, c.clockwise, c.keycode))
<1> DEFINE q == SetEncoder(c.layer, c.encoder, c.clockwise, c.keycode)
           a == EncoderAddress(c.layer, c.encoder, c.clockwise)
           k == c.keycode
           in == <<c.layer, c.encoder, c.clockwise>> \in Turns
<1>1. c.kind = "encoder" /\ k \in Keycodes
  BY DEF EncoderRequest
<1>2. /\ q \in Seq(WriteOps)
      /\ in => Elements(q) = {Write(a, k \div 256), Write(a + 1, k % 256)}
      /\ ~in => q = <<>>
  BY <1>1, SetEncoderElements
<1>3. in => a \in EncoderCells /\ a + 1 \in EncoderCells /\ a \in Nat
  BY EncoderAddressRange
<1>4. Region(c) = {a, a + 1}
  BY <1>1 DEF Region
<1>5. {k \div 256, k % 256} \subseteq KeymapBytes[b]
  <2>1. DataOf(c) = Range(KeycodeBytes(k))
    BY <1>1 DEF DataOf
  <2>2. DataOf(c) \subseteq KeycodesOf(b)
    BY DEF KeycodesOf
  <2> QED BY <1>1, <2>1, <2>2, KeycodeBytesType, DayBytes
<1>6. \A e : StoresIn(c, q, e) <=> (in => KeycodeIn(q, e, a, k))
  BY <1>1 DEF StoresIn
<1> HIDE DEF q, a, k, in
<1>7. CASE in
  <2>1. /\ \A e : KeycodeIn(q, e, a, k)
        /\ \A n \in 1..Len(q) : /\ q[n].address = a \/ q[n].address = a + 1
                                /\ q[n].value \in {k \div 256, k % 256}
    BY <1>1, <1>2, <1>3, <1>7, KeycodeStored DEF Within
  <2>2. \A n \in 1..Len(q) : /\ q[n].address \in EncoderCells /\ q[n].address > 3
                             /\ q[n].address \notin MacroCells
                             /\ q[n].value \in KeymapBytes[b]
    BY <1>3, <1>5, <1>7, <2>1, Regions
  <2>3. OwnIn(b, q)
    BY <2>2 DEF OwnIn
  <2>4. Within(q, Region(c))
    BY <1>4, <2>1 DEF Within
  <2> QED BY <1>2, <1>6, <2>1, <2>2, <2>3, <2>4 DEF GoodWrites, q
<1>8. CASE ~in
  <2>1. Len(q) = 0
    BY <1>2, <1>8, NoElements
  <2> QED BY <1>2, <1>6, <1>8, <2>1 DEF GoodWrites, Within, OwnIn, q
<1> QED BY <1>7, <1>8

\* Keymap, encoder map and macros are behind the magic.
LEMMA BehindMagic ==
    \A a \in KeymapCells \cup EncoderCells \cup MacroCells : a > 3 /\ a \in Nat
BY Layout DEF KeymapCells, EncoderCells, MacroCells

\* What a buffer request carries.
LEMMA BufferFields ==
    ASSUME NEW c \in BufferRequest
    PROVE  c.kind = "keymap" /\ c.offset \in Nat /\ c.data \in Seq(Byte)
<1>1. ASSUME NEW K, NEW O, NEW S, NEW d \in [kind : K, offset : O, data : S]
      PROVE  d.kind \in K /\ d.offset \in O /\ d.data \in S
  OBVIOUS
<1>2. c \in [kind : {"keymap"}, offset : Word, data : Seq(Byte)]
  BY Zenon DEF BufferRequest
<1>3. c.kind \in {"keymap"} /\ c.offset \in Word /\ c.data \in Seq(Byte)
  BY <1>1, <1>2, Zenon
<1>4. Word \subseteq Nat
  BY SMT DEF Word
<1> QED BY <1>3, <1>4, Zenon

\* id_dynamic_keymap_set_buffer: what runs over the end of the keymap is dropped.
LEMMA BufferGood ==
    ASSUME NEW b \in Builds, NEW c \in Firmware[b].requests,
           c \in BufferRequest
    PROVE  GoodWrites(b, c, KeymapBufferWrites(c.offset, c.data))
<1> DEFINE A == DYNAMIC_KEYMAP_EEPROM_ADDR
           d == c.data
           o == c.offset
           q == KeymapBufferWrites(o, d)
<1>1. c.kind = "keymap" /\ o \in Nat /\ d \in Seq(Byte)
  BY BufferFields
<1>2. A \in Nat /\ KeymapSize \in Nat /\ A + KeymapSize <= EepromEnd
  BY Layout
<1>3. Region(c) = KeymapCells
  BY <1>1 DEF Region
<1>4. q = BufferWrites(A, KeymapSize, o, d)
  BY DEF KeymapBufferWrites
<1>5. \A e : StoresIn(c, q, e) <=>
         \A i \in 1..Len(d) : o + i - 1 < KeymapSize => Fills(q, e, A + o + i - 1, {d[i]})
  BY <1>1 DEF StoresIn
<1>6. \A i \in 1..Len(d) : d[i] \in KeymapBytes[b]
  <2>1. DataOf(c) = Range(d)
    BY <1>1 DEF DataOf
  <2>2. DataOf(c) \subseteq KeycodesOf(b)
    BY DEF KeycodesOf
  <2>3. \A i \in 1..Len(d) : d[i] \in Range(d)
    BY <1>1, LenProperties DEF Range
  <2> QED BY <2>1, <2>2, <2>3, DayBytes
<1> HIDE DEF A, d, o, q
<1>7. /\ q \in Seq(WriteOps) /\ Len(q) \in Nat /\ Len(q) <= Len(d)
      /\ \A i \in 1..Len(d) : i <= Len(q) <=> o + i - 1 < KeymapSize
      /\ \A i \in 1..Len(q) : q[i] = Write(A + o + i - 1, d[i])
  <2>1. StoresData(A, KeymapSize, o, d, q)
    BY <1>1, <1>2, <1>4, BufferWritesElements
  <2> QED BY <2>1, Zenon DEF StoresData
<1>8. Len(d) \in Nat
  BY <1>1, LenProperties
<1>9. \A n \in 1..Len(q) : /\ q[n].address = A + o + n - 1
                           /\ q[n].value = d[n]
                           /\ n \in 1..Len(d) /\ o + n - 1 < KeymapSize
  BY <1>7, <1>8, WriteIs
<1>10. \A n \in 1..Len(q) : A + o + n - 1 \in KeymapCells
  <2>1. KeymapCells = A..(A + KeymapSize - 1)
    BY Layout DEF KeymapCells, A
  <2> QED BY <1>1, <1>2, <1>7, <1>9, <2>1
<1>11. \A n \in 1..Len(q) : /\ q[n].address \in KeymapCells /\ q[n].address > 3
                            /\ q[n].address \notin MacroCells
                            /\ q[n].value \in KeymapBytes[b]
  BY <1>6, <1>9, <1>10, Regions, BehindMagic
<1>12. ASSUME NEW e, NEW i \in 1..Len(d), o + i - 1 < KeymapSize
       PROVE  Fills(q, e, A + o + i - 1, {d[i]})
  <2>1. i \in 1..Len(q)
    BY <1>7, <1>8, <1>12
  <2>2. \A n \in 1..Len(q) : A + o + n - 1 = A + o + i - 1 => n = i
    BY <1>1, <1>2, <1>7, <2>1
  <2> QED BY <1>9, <2>1, <2>2 DEF Fills
<1>13. \A e : StoresIn(c, q, e)
  BY <1>5, <1>12
<1>14. Within(q, Region(c)) /\ OwnIn(b, q)
  BY <1>3, <1>11 DEF Within, OwnIn
<1>15. GoodWrites(b, c, q)
  BY <1>7, <1>11, <1>13, <1>14, Zenon DEF GoodWrites
<1> QED BY <1>15 DEF q, o, d

\* id_dynamic_keymap_reset.
LEMMA ResetGood ==
    ASSUME NEW b \in Builds, NEW c, c.kind = "reset"
    PROVE  GoodWrites(b, c, KeymapReset(b))
<1> DEFINE q == KeymapReset(b)
<1>1. q \in Seq(WriteOps) /\ \A n \in 1..Len(q) : q[n] \in DefaultWrites(b)
  BY KeymapResetElements, ByElement
<1>2. Region(c) = KeymapCells \cup EncoderCells
  BY DEF Region
<1> HIDE DEF q
<1>3. \A n \in 1..Len(q) : /\ q[n].address \in KeymapCells \cup EncoderCells
                           /\ q[n].address > 3 /\ q[n].address \notin MacroCells
                           /\ q[n].value \in KeymapBytes[b]
  BY <1>1, DayBytes, Regions, BehindMagic DEF DefaultWrites
<1>4. \A e : StoresIn(c, q, e)
  BY DEF StoresIn
<1> QED BY <1>1, <1>2, <1>3, <1>4 DEF GoodWrites, Within, OwnIn, q

\* id_dynamic_keymap_macro_reset.
LEMMA MacroResetGood ==
    ASSUME NEW b \in Builds, NEW c, c.kind = "macro_reset"
    PROVE  GoodWrites(b, c, MacroReset)
<1> DEFINE q == MacroReset
<1>1. q \in Seq(WriteOps) /\ \A n \in 1..Len(q) : q[n].address \in MacroCells /\ q[n].value = 0
  BY MacroResetElements, ByElement
<1>2. Region(c) = MacroCells
  BY DEF Region
<1> HIDE DEF q
<1>3. \A n \in 1..Len(q) : /\ q[n].address > 3
                           /\ q[n].address \notin KeymapCells \cup EncoderCells
                           /\ q[n].value \in MacroBytes[b]
  BY <1>1, DayBytes, Regions, BehindMagic
<1>4. \A e : StoresIn(c, q, e)
  BY DEF StoresIn
<1> QED BY <1>1, <1>2, <1>3, <1>4 DEF GoodWrites, Within, OwnIn, q

\* Every request of a host makes good writes.
LEMMA RequestGood ==
    ASSUME NEW b \in Builds, NEW c \in Firmware[b].requests
    PROVE  /\ GoodWrites(b, c, WritesOf(b, c)) /\ c \in Requests
           /\ c.kind \notin {"none", "init", "macros"}
           /\ c.kind = "macro_reset" => WritesOf(b, c) = MacroReset
<1>1. c \in Requests
  BY BuildsAreSane
<1>2. CASE c \in OptionsRequest
  <2>1. c.kind = "options"
    BY <1>2 DEF OptionsRequest
  <2>2. WritesOf(b, c) = SetLayoutOptions(c.value)
    BY <2>1 DEF WritesOf
  <2> QED BY <1>1, <1>2, <2>1, <2>2, OptionsGood
<1>3. CASE c \in KeyRequest
  <2>1. c.kind = "key"
    BY <1>3 DEF KeyRequest
  <2>2. WritesOf(b, c) = SetKeycode(c.layer, c.row, c.column, c.keycode)
    BY <2>1 DEF WritesOf
  <2> QED BY <1>1, <1>3, <2>1, <2>2, KeyGood
<1>4. CASE c \in EncoderRequest
  <2>1. c.kind = "encoder"
    BY <1>4 DEF EncoderRequest
  <2>2. WritesOf(b, c) = SetEncoder(c.layer, c.encoder, c.clockwise, c.keycode)
    BY <2>1 DEF WritesOf
  <2> QED BY <1>1, <1>4, <2>1, <2>2, EncoderGood
<1>5. CASE c \in BufferRequest
  <2>1. c.kind = "keymap"
    BY <1>5, BufferFields
  <2>2. WritesOf(b, c) = KeymapBufferWrites(c.offset, c.data)
    BY <2>1 DEF WritesOf
  <2> QED BY <1>1, <1>5, <2>1, <2>2, BufferGood
<1>6. CASE c \in ResetRequest
  <2>1. c.kind = "reset" \/ c.kind = "macro_reset"
    BY <1>6 DEF ResetRequest
  <2>2. CASE c.kind = "reset"
    <3>1. WritesOf(b, c) = KeymapReset(b)
      BY <2>2 DEF WritesOf
    <3> QED BY <1>1, <2>2, <3>1, ResetGood
  <2>3. CASE c.kind = "macro_reset"
    <3>1. WritesOf(b, c) = MacroReset
      BY <2>3 DEF WritesOf
    <3> QED BY <1>1, <2>3, <3>1, MacroResetGood
  <2> QED BY <2>1, <2>2, <2>3
<1>7. c \in OptionsRequest \/ c \in KeyRequest \/ c \in EncoderRequest
      \/ c \in BufferRequest \/ c \in ResetRequest
  BY <1>1 DEF Requests
<1> QED BY <1>2, <1>3, <1>4, <1>5, <1>6, <1>7

\* A macro buffer write stays in the macros; the bytes follow each other.
LEMMA MacroBufferGood ==
    ASSUME NEW b \in Builds,
           NEW offset \in Nat, NEW data \in Seq(Byte),
           \A i \in 1..Len(data) : data[i] \in MacroBytes[b],
           offset + Len(data) <= DYNAMIC_KEYMAP_MACRO_EEPROM_SIZE
    PROVE  LET q == MacroBufferWrites(offset, data)
           IN  /\ q \in Seq(WriteOps) /\ Len(q) = Len(data) /\ Len(q) \in Nat
               /\ Within(q, MacroCells) /\ OwnIn(b, q)
               /\ \A n \in 1..Len(q) : /\ q[n].address > 3
                                       /\ q[n] = Write(MacroCell(offset + n), data[n])
<1> DEFINE q == MacroBufferWrites(offset, data)
           A == DYNAMIC_KEYMAP_MACRO_EEPROM_ADDR
           N == DYNAMIC_KEYMAP_MACRO_EEPROM_SIZE
<1>1. q = BufferWrites(A, N, offset, data)
  BY DEF MacroBufferWrites
<1>2. A \in Nat /\ N \in Nat /\ A + N <= EepromEnd
  BY Layout
<1>3. Len(data) \in Nat
  BY LenProperties
<1>4. \A i \in Int : MacroCell(offset + i) = A + offset + i - 1
  BY <1>2 DEF MacroCell
<1>5. MacroCells = A..(A + N - 1)
  BY Layout DEF MacroCells, EepromEnd
<1> HIDE DEF q, A, N
<1>6. /\ q \in Seq(WriteOps) /\ Len(q) \in Nat /\ Len(q) <= Len(data)
      /\ \A i \in 1..Len(data) : i <= Len(q) <=> offset + i - 1 < N
      /\ \A i \in 1..Len(q) : q[i] = Write(A + offset + i - 1, data[i])
  <2>1. StoresData(A, N, offset, data, q)
    BY <1>1, <1>2, BufferWritesElements
  <2> QED BY <2>1, Zenon DEF StoresData
<1>7. offset + Len(data) <= N
  BY DEF N
<1>8. Len(q) = Len(data)
  <2> SUFFICES ASSUME Len(q) < Len(data) PROVE FALSE
    BY <1>3, <1>6
  <2>1. Len(data) \in 1..Len(data) /\ offset + Len(data) - 1 < N
    BY <1>2, <1>3, <1>6, <1>7
  <2> QED BY <1>3, <1>6, <2>1
<1>9. \A n \in 1..Len(q) : /\ q[n].address = A + offset + n - 1 /\ q[n].value = data[n]
                           /\ q[n] = Write(MacroCell(offset + n), data[n])
                           /\ n \in 1..Len(data)
  <2> TAKE n \in 1..Len(q)
  <2>1. q[n] = Write(A + offset + n - 1, data[n]) /\ n \in 1..Len(data) /\ n \in Int
    BY <1>6, <1>8
  <2>2. MacroCell(offset + n) = A + offset + n - 1
    BY <1>4, <2>1
  <2> QED BY <2>1, <2>2, WriteIs
<1>10. \A n \in 1..Len(q) : A + offset + n - 1 \in MacroCells
  BY <1>2, <1>3, <1>5, <1>6, <1>7, <1>8
<1>11. \A n \in 1..Len(q) : /\ q[n].address \in MacroCells /\ q[n].address > 3
                            /\ q[n].address \notin KeymapCells \cup EncoderCells
                            /\ q[n].value \in MacroBytes[b]
  BY <1>9, <1>10, Regions, BehindMagic
<1> QED BY <1>3, <1>6, <1>8, <1>9, <1>11 DEF Within, OwnIn, q

-----------------------------------------------------------------------------
(* The steps, cell by cell.                                                *)

ValidIn(b, e) == \A i \in 1..3 : e[VIA_EEPROM_MAGIC_ADDR + i - 1] = Firmware[b].magic[i]

\* All cells of the keymap, the encoder map and the macros are of the build's day.
OwnCells(b, e) ==
    /\ \A a \in KeymapCells \cup EncoderCells : e[a] \in KeymapBytes[b]
    /\ \A a \in MacroCells : e[a] \in MacroBytes[b]

OwnsIn(e) == \A b \in Builds : e[EECONFIG_MAGIC] = 1 /\ ValidIn(b, e) => OwnCells(b, e)

\* Cells for which two builds are valid are theirs alike.
LEMMA SameMagic ==
    ASSUME NEW b \in Builds, NEW c \in Builds, NEW e, ValidIn(b, e), ValidIn(c, e)
    PROVE  OwnCells(b, e) => OwnCells(c, e)
<1>1. Firmware[b].magic \in [1..3 -> Byte] /\ Firmware[c].magic \in [1..3 -> Byte]
  BY BuildsAreSane
<1>2. \A i \in 1..3 : Firmware[b].magic[i] = Firmware[c].magic[i]
  BY DEF ValidIn
<1>3. Firmware[b].magic = Firmware[c].magic
  BY <1>1, <1>2
<1>4. KeymapBytes[b] = KeymapBytes[c] /\ MacroBytes[b] = MacroBytes[c]
  BY <1>3, DayBytes
<1> QED BY <1>4 DEF OwnCells

\* No build is valid while the day is erased.
LEMMA NoDay ==
    ASSUME NEW b \in Builds, NEW e, e[MAGIC_DAY_ADDR] \in {0, 255}
    PROVE  ~ValidIn(b, e)
<1>1. Firmware[b].magic[3] \in 1..49
  BY BuildsAreSane
<1>2. VIA_EEPROM_MAGIC_ADDR + 3 - 1 = MAGIC_DAY_ADDR /\ 3 \in 1..3
  BY Layout
<1>3. ValidIn(b, e) => e[MAGIC_DAY_ADDR] = Firmware[b].magic[3]
  BY <1>2 DEF ValidIn
<1>4. 0 \notin 1..49 /\ 255 \notin 1..49
  BY SMT
<1> QED BY <1>1, <1>3, <1>4

\* An initialisation that has run to its end has filled all cells.
LEMMA InitialisationDone ==
    ASSUME NEW b \in Builds, NEW e, NEW q, q = <<>>, InitialisesIn(b, q, e)
    PROVE  e[EECONFIG_MAGIC] = 1 /\ ValidIn(b, e) /\ OwnCells(b, e)
<1>1. /\ Fills(q, e, EECONFIG_MAGIC, {1})
      /\ \A i \in 1..3 : Lands(q, e, VIA_EEPROM_MAGIC_ADDR + i - 1, Firmware[b].magic[i])
      /\ \A a \in KeymapCells \cup EncoderCells : Fills(q, e, a, KeymapBytes[b])
      /\ \A a \in MacroCells : e[a] = 0
  BY DEF InitialisesIn
<1>2. \A a : /\ \A v : Lands(q, e, a, v) => e[a] = v
             /\ \A S : Fills(q, e, a, S) => e[a] \in S
  BY Settled, Zenon
<1>3. e[EECONFIG_MAGIC] = 1
  <2>1. e[EECONFIG_MAGIC] \in {1}
    BY <1>1, <1>2, Zenon
  <2> QED BY <2>1
<1>4. ValidIn(b, e)
  BY <1>1, <1>2, Zenon DEF ValidIn
<1>5. \A a \in KeymapCells \cup EncoderCells : e[a] \in KeymapBytes[b]
  BY <1>1, <1>2, Zenon
<1>6. \A a \in MacroCells : e[a] \in MacroBytes[b]
  BY <1>1, DayBytes
<1> QED BY <1>3, <1>4, <1>5, <1>6 DEF OwnCells

\* At any moment of an initialisation the EEPROM is invalid, or all its own.
LEMMA InitialisationOwns ==
    ASSUME NEW b \in Builds, NEW e, NEW q, InitialisesIn(b, q, e)
    PROVE  OwnsIn(e)
<1>1. CASE q = <<>>
  <2>1. ValidIn(b, e) /\ OwnCells(b, e)
    BY <1>1, InitialisationDone
  <2> QED BY <2>1, SameMagic DEF OwnsIn
<1>2. CASE q # <<>>
  <2>1. e[MAGIC_DAY_ADDR] \in {0, 255}
    BY <1>2 DEF InitialisesIn
  <2> QED BY <2>1, NoDay DEF OwnsIn
<1> QED BY <1>1, <1>2

\* A write behind the magic, of the build's own data, keeps the EEPROM its own.
LEMMA OwnStep ==
    ASSUME NEW b \in Builds, NEW q \in Seq(WriteOps), q # <<>>,
           NEW e \in [Addresses -> Byte], OwnIn(b, q),
           \A n \in 1..Len(q) : q[n].address > 3,
           e[EECONFIG_MAGIC] = 1, ValidIn(b, e), OwnsIn(e),
           NEW f, f = [e EXCEPT ![Head(q).address] = Head(q).value]
    PROVE  f[EECONFIG_MAGIC] = 1 /\ ValidIn(b, f) /\ OwnsIn(f)
<1>1. /\ Len(q) \in Nat /\ Len(q) >= 1 /\ Head(q) = q[1] /\ q[1] \in WriteOps
  BY TailIndices
<1>2. \A a \in Addresses : f[a] = IF q[1].address = a THEN q[1].value ELSE e[a]
  BY <1>1 DEF WriteOps
<1>3. 1 \in 1..Len(q) /\ q[1].address > 3 /\ q[1].address \in Nat
  BY <1>1 DEF WriteOps, Addresses
<1>4. f[0] = e[0] /\ f[1] = e[1] /\ f[2] = e[2] /\ f[3] = e[3]
  BY <1>2, <1>3, Regions
<1>5. f[EECONFIG_MAGIC] = 1 /\ ValidIn(b, f)
  BY <1>4, Layout DEF ValidIn
<1>6. OwnCells(b, e)
  BY DEF OwnsIn
<1>7. OwnCells(b, f)
  <2>1. ASSUME NEW a \in KeymapCells \cup EncoderCells PROVE f[a] \in KeymapBytes[b]
    <3>1. a \in Addresses /\ e[a] \in KeymapBytes[b]
      BY <1>6, Regions DEF OwnCells
    <3>2. q[1].address = a => q[1].value \in KeymapBytes[b]
      BY <1>3 DEF OwnIn
    <3> QED BY <1>2, <3>1, <3>2
  <2>2. ASSUME NEW a \in MacroCells PROVE f[a] \in MacroBytes[b]
    <3>1. a \in Addresses /\ e[a] \in MacroBytes[b]
      BY <1>6, Regions DEF OwnCells
    <3>2. q[1].address = a => q[1].value \in MacroBytes[b]
      BY <1>3 DEF OwnIn
    <3> QED BY <1>2, <3>1, <3>2
  <2> QED BY <2>1, <2>2 DEF OwnCells
<1> QED BY <1>5, <1>7, SameMagic DEF OwnsIn

\* The commands that are no requests.
LEMMA CommandNames ==
    /\ NoCommand \in Commands /\ InitCommand \in Commands
    /\ NoCommand # InitCommand /\ NoCommand.kind = "none" /\ InitCommand.kind = "init"
<1>1. NoCommand \in Commands /\ InitCommand \in Commands
  BY DEF Commands
<1>2. NoCommand.kind = "none" /\ InitCommand.kind = "init"
  BY DEF NoCommand, InitCommand
<1> QED BY <1>1, <1>2

\* A macro write, as a command.
LEMMA MacroFields ==
    ASSUME NEW c \in MacroRequest
    PROVE  c.kind = "macros"
<1>1. ASSUME NEW K, NEW O, NEW S, NEW d \in [kind : K, offset : O, data : S]
      PROVE  d.kind \in K
  OBVIOUS
<1>2. c \in [kind : {"macros"}, offset : Nat, data : Seq(Byte)]
  BY Zenon DEF MacroRequest
<1>3. c.kind \in {"macros"}
  BY <1>1, <1>2, Zenon
<1> QED BY <1>3

\* A keymap command is a buffer request.
LEMMA KeymapCommand ==
    ASSUME NEW c \in Commands, c.kind = "keymap"
    PROVE  c \in BufferRequest
<1>1. c # NoCommand /\ c # InitCommand
  BY CommandNames
<1>2. c \notin OptionsRequest /\ c \notin KeyRequest /\ c \notin EncoderRequest
      /\ c \notin ResetRequest
  BY DEF OptionsRequest, KeyRequest, EncoderRequest, ResetRequest
<1>3. c \notin MacroRequest
  BY MacroFields
<1> QED BY <1>1, <1>2, <1>3, Zenon DEF Commands, Requests

\* One write on: what was to be stored still is.
LEMMA StoresStep ==
    ASSUME NEW c \in Commands, NEW q \in Seq(WriteOps), q # <<>>,
           NEW e \in [Addresses -> Byte], StoresIn(c, q, e)
    PROVE  StoresIn(c, Tail(q), [e EXCEPT ![Head(q).address] = Head(q).value])
<1> DEFINE t == Tail(q)
           f == [e EXCEPT ![Head(q).address] = Head(q).value]
<1>a. \A a \in Addresses : \A S : Fills(q, e, a, S) => Fills(t, f, a, S)
  BY FillsStep
<1> HIDE DEF t, f
<1>b. ASSUME NEW a, a \in Addresses, a + 1 \in Addresses, NEW k, KeycodeIn(q, e, a, k)
      PROVE  KeycodeIn(t, f, a, k)
  BY <1>a, <1>b, Zenon DEF KeycodeIn
<1>1. ASSUME c.kind = "key", <<c.layer, c.row, c.column>> \in Positions
      PROVE  KeycodeIn(t, f, KeyAddress(c.layer, c.row, c.column), c.keycode)
  <2>1. KeycodeIn(q, e, KeyAddress(c.layer, c.row, c.column), c.keycode)
    BY <1>1, Zenon DEF StoresIn
  <2>2. /\ KeyAddress(c.layer, c.row, c.column) \in Addresses
        /\ KeyAddress(c.layer, c.row, c.column) + 1 \in Addresses
    BY <1>1, KeyAddressRange, Regions, Zenon
  <2> QED BY <1>b, <2>1, <2>2, Zenon
<1>2. ASSUME c.kind = "encoder", <<c.layer, c.encoder, c.clockwise>> \in Turns
      PROVE  KeycodeIn(t, f, EncoderAddress(c.layer, c.encoder, c.clockwise), c.keycode)
  <2>1. KeycodeIn(q, e, EncoderAddress(c.layer, c.encoder, c.clockwise), c.keycode)
    BY <1>2, Zenon DEF StoresIn
  <2>2. /\ EncoderAddress(c.layer, c.encoder, c.clockwise) \in Addresses
        /\ EncoderAddress(c.layer, c.encoder, c.clockwise) + 1 \in Addresses
    BY <1>2, EncoderAddressRange, Regions, Zenon
  <2> QED BY <1>b, <2>1, <2>2, Zenon
<1>3. ASSUME c.kind = "keymap", NEW i \in 1..Len(c.data), c.offset + i - 1 < KeymapSize
      PROVE  Fills(t, f, DYNAMIC_KEYMAP_EEPROM_ADDR + c.offset + i - 1, {c.data[i]})
  <2> DEFINE a == DYNAMIC_KEYMAP_EEPROM_ADDR + c.offset + i - 1
  <2>1. Fills(q, e, a, {c.data[i]})
    BY <1>3, Zenon DEF StoresIn
  <2>2. c.offset \in Nat
    BY <1>3, KeymapCommand, BufferFields
  <2>3. a \in Addresses
    BY <1>3, <2>2, Layout DEF Addresses
  <2> HIDE DEF a
  <2>4. Fills(t, f, a, {c.data[i]})
    BY <1>a, <2>1, <2>3, Zenon
  <2> QED BY <2>4 DEF a
<1>4. StoresIn(c, t, f)
  BY <1>1, <1>2, <1>3, Zenon DEF StoresIn
<1> QED BY <1>4 DEF t, f

-----------------------------------------------------------------------------
(* The keymap's invariant is inductive.                                    *)

\* The invariant, in terms of the cells and the writes to come.
LEMMA InvNow ==
    ASSUME KeymapInv
    PROVE  /\ TypeOK /\ todo \in Seq(WriteOps)
           /\ ~on => command = NoCommand /\ upload = NoUpload
           /\ command = NoCommand => todo = <<>>
           /\ Within(todo, Region(command))
           /\ command # InitCommand => \A n \in 1..Len(todo) : todo[n].address > 3
           /\ OwnIn(build, todo)
           /\ command = InitCommand => InitialisesIn(build, todo, eeprom)
           /\ on /\ (todo = <<>> \/ command # InitCommand) =>
                 eeprom[EECONFIG_MAGIC] = 1 /\ ValidIn(build, eeprom)
           /\ StoresIn(command, todo, eeprom)
           /\ OwnsIn(eeprom)
<1>1. TypeOK /\ todo \in Seq(WriteOps)
  BY DEF KeymapInv, TypeOK, WriteOps
<1>2. OwnsIn(eeprom)
  BY Zenon DEF KeymapInv, MagicMeansOwnData, OwnsIn, OwnCells, Valid, ValidIn
<1>3. Within(todo, Region(command)) /\
      (command # InitCommand => \A n \in 1..Len(todo) : todo[n].address > 3)
  BY Zenon DEF KeymapInv, InRegion, Within
<1>4. on /\ (todo = <<>> \/ command # InitCommand) =>
         eeprom[EECONFIG_MAGIC] = 1 /\ ValidIn(build, eeprom)
  BY Zenon DEF KeymapInv, Booted, Valid, ValidIn
<1>5. /\ ~on => command = NoCommand /\ upload = NoUpload
      /\ command = NoCommand => todo = <<>>
  BY Zenon DEF KeymapInv, Quiet
<1> QED BY <1>1, <1>2, <1>3, <1>4, <1>5, Zenon DEF KeymapInv, OwnBytes, Initialising, Stores

\* What a step has to show.
LEMMA InvNext ==
    ASSUME TypeOK',
           ~on' => command' = NoCommand /\ upload' = NoUpload,
           command' = NoCommand => todo' = <<>>,
           Within(todo', Region(command')),
           command' # InitCommand => \A n \in 1..Len(todo') : todo'[n].address > 3,
           OwnIn(build', todo'),
           command' = InitCommand => InitialisesIn(build', todo', eeprom'),
           on' /\ (todo' = <<>> \/ command' # InitCommand) =>
                 eeprom'[EECONFIG_MAGIC] = 1 /\ ValidIn(build', eeprom'),
           StoresIn(command', todo', eeprom'),
           OwnsIn(eeprom')
    PROVE  KeymapInv'
<1>2. MagicMeansOwnData'
  BY Zenon DEF MagicMeansOwnData, OwnsIn, OwnCells, Valid, ValidIn
<1>3. InRegion'
  BY Zenon DEF InRegion, Within
<1>4. Booted'
  BY Zenon DEF Booted, Valid, ValidIn
<1>5. Quiet' /\ OwnBytes' /\ Initialising' /\ Stores'
  BY Zenon DEF Quiet, OwnBytes, Initialising, Stores
<1> QED BY <1>2, <1>3, <1>4, <1>5, Zenon DEF KeymapInv

\* Without writes, most of it holds.
LEMMA NothingToDo ==
    ASSUME NEW q, q = <<>>
    PROVE  /\ \A b : OwnIn(b, q)
           /\ \A R : Within(q, R)
           /\ \A n \in 1..Len(q) : q[n].address > 3
           /\ \A e : StoresIn(NoCommand, q, e)
<1>1. Len(q) = 0
  OBVIOUS
<1>2. \A e : StoresIn(NoCommand, q, e)
  BY CommandNames DEF StoresIn
<1> QED BY <1>1, <1>2 DEF OwnIn, Within

\* A blank EEPROM carries no magic.
LEMMA BlankOwns ==
    ASSUME NEW e, e[EECONFIG_MAGIC] # 1
    PROVE  OwnsIn(e)
BY DEF OwnsIn

\* Erased cells.
LEMMA ZeroedCells == Zeroed \in [Addresses -> Byte] /\ Zeroed[EECONFIG_MAGIC] = 0
<1>1. EECONFIG_MAGIC \in Addresses
  BY Layout, Regions
<1> QED BY <1>1 DEF Zeroed, Byte

\* The invariant holds at first.
LEMMA KeymapInvInit == Init => KeymapInv
<1> SUFFICES ASSUME Init PROVE KeymapInv
  OBVIOUS
<1>1. /\ eeprom = Zeroed /\ build \in Builds /\ on = FALSE
      /\ command = NoCommand /\ todo = <<>> /\ upload = NoUpload
  BY DEF Init
<1>2. TypeOK
  <2>1. \A S : <<>> \in Seq(S)
    OBVIOUS
  <2> QED BY <1>1, <2>1, ZeroedCells, CommandNames, Zenon DEF TypeOK, WriteOps
<1>3. MagicMeansOwnData
  BY <1>1, ZeroedCells DEF MagicMeansOwnData
<1>4. OwnIn(build, todo) /\ StoresIn(command, todo, eeprom) /\ Len(todo) = 0
  BY <1>1, NothingToDo
<1>5. Quiet /\ InRegion /\ OwnBytes /\ Stores
  BY <1>1, <1>4 DEF Quiet, InRegion, OwnBytes, Stores
<1>6. Initialising /\ Booted
  BY <1>1, CommandNames DEF Initialising, Booted
<1> QED BY <1>2, <1>3, <1>5, <1>6 DEF KeymapInv

\* eeprom_update_byte keeps the invariant.
LEMMA KeymapWriteByte == KeymapInv /\ WriteByte => KeymapInv'
<1> SUFFICES ASSUME KeymapInv, WriteByte PROVE KeymapInv'
  OBVIOUS
<1>i. /\ TypeOK /\ todo \in Seq(WriteOps)
      /\ command = NoCommand => todo = <<>>
      /\ Within(todo, Region(command))
      /\ command # InitCommand => \A n \in 1..Len(todo) : todo[n].address > 3
      /\ OwnIn(build, todo)
      /\ command = InitCommand => InitialisesIn(build, todo, eeprom)
      /\ on /\ (todo = <<>> \/ command # InitCommand) =>
            eeprom[EECONFIG_MAGIC] = 1 /\ ValidIn(build, eeprom)
      /\ StoresIn(command, todo, eeprom)
      /\ OwnsIn(eeprom)
  BY InvNow, Zenon
<1>w. /\ on /\ todo # <<>> /\ todo' = Tail(todo)
      /\ eeprom' = [eeprom EXCEPT ![Head(todo).address] = Head(todo).value]
      /\ build' = build /\ on' = on /\ command' = command /\ upload' = upload
  BY DEF WriteByte
<1>t. eeprom \in [Addresses -> Byte] /\ build \in Builds /\ command \in Commands
  BY <1>i DEF TypeOK
<1>1. /\ todo' \in Seq(WriteOps) /\ Len(todo) \in Nat /\ Len(todo) >= 1
      /\ Len(todo') = Len(todo) - 1
      /\ Head(todo) = todo[1] /\ todo[1] \in WriteOps
      /\ \A n \in 1..(Len(todo) - 1) : todo'[n] = todo[n + 1]
  BY <1>i, <1>w, TailIndices
<1>2. \A n \in 1..Len(todo') : n + 1 \in 1..Len(todo) /\ todo'[n] = todo[n + 1]
  BY <1>1
<1>3. eeprom' \in [Addresses -> Byte]
  BY <1>t, <1>w, <1>1 DEF WriteOps
<1>4. TypeOK'
  BY <1>i, <1>w, <1>1, <1>3 DEF TypeOK, WriteOps
<1>5. Within(todo', Region(command'))
  BY <1>i, <1>w, <1>2 DEF Within
<1>6. OwnIn(build', todo')
  BY <1>i, <1>w, <1>2 DEF OwnIn
<1>7. command' # InitCommand => \A n \in 1..Len(todo') : todo'[n].address > 3
  BY <1>i, <1>w, <1>2
<1>8. StoresIn(command', todo', eeprom')
  BY <1>i, <1>t, <1>w, StoresStep
<1>9. CASE command = InitCommand
  <2>1. InitialisesIn(build', todo', eeprom')
    BY <1>i, <1>t, <1>w, <1>9, InitialisesStep
  <2>2. OwnsIn(eeprom')
    BY <1>t, <1>w, <2>1, InitialisationOwns
  <2>3. todo' = <<>> => eeprom'[EECONFIG_MAGIC] = 1 /\ ValidIn(build', eeprom')
    BY <1>t, <1>w, <2>1, InitialisationDone
  <2> QED BY <1>i, <1>w, <1>4, <1>5, <1>6, <1>7, <1>8, <1>9, <2>1, <2>2, <2>3, InvNext, Zenon
<1>10. CASE command # InitCommand
  <2>1. eeprom'[EECONFIG_MAGIC] = 1 /\ ValidIn(build', eeprom') /\ OwnsIn(eeprom')
    BY <1>i, <1>t, <1>w, <1>10, OwnStep
  <2> QED BY <1>i, <1>w, <1>4, <1>5, <1>6, <1>7, <1>8, <1>10, <2>1, InvNext, Zenon
<1> QED BY <1>9, <1>10

\* keyboard_pre_init_kb keeps the invariant.
LEMMA KeymapPowerOn == KeymapInv /\ PowerOn => KeymapInv'
<1> SUFFICES ASSUME KeymapInv, PowerOn PROVE KeymapInv'
  OBVIOUS
<1>i. /\ TypeOK /\ ~on /\ command = NoCommand /\ todo = <<>> /\ OwnsIn(eeprom)
      /\ on' = TRUE /\ build' = build /\ upload' = upload
  BY InvNow, Zenon DEF PowerOn
<1>t. build \in Builds
  BY <1>i DEF TypeOK
<1>1. CASE Enabled
  <2>1. eeprom' = eeprom /\ todo' = todo /\ command' = command
    BY <1>1 DEF PowerOn
  <2>2. TypeOK'
    BY <1>i, <2>1 DEF TypeOK
  <2>3. eeprom'[EECONFIG_MAGIC] = 1 /\ ValidIn(build', eeprom')
    BY <1>1, <1>i, <2>1, Zenon DEF Enabled, Valid, ValidIn
  <2>4. /\ OwnIn(build', todo') /\ Within(todo', Region(command'))
        /\ \A n \in 1..Len(todo') : todo'[n].address > 3
        /\ StoresIn(command', todo', eeprom')
    BY <1>i, <2>1, NothingToDo
  <2>5. command' # InitCommand /\ OwnsIn(eeprom') /\ todo' = <<>>
    BY <1>i, <2>1, CommandNames
  <2> QED BY <1>i, <2>2, <2>3, <2>4, <2>5, InvNext, Zenon
<1>2. CASE ~Enabled
  <2>1. eeprom' = Zeroed /\ todo' = FirstWrites(build) /\ command' = InitCommand
    BY <1>2 DEF PowerOn, FirstWrites
  <2>2. /\ todo' \in Seq(WriteOps) /\ OwnIn(build', todo')
        /\ InitialisesIn(build', todo', eeprom')
    BY <1>i, <1>t, <2>1, FirstStart
  <2>3. TypeOK'
    BY <1>i, <2>1, <2>2, ZeroedCells, CommandNames, Zenon DEF TypeOK, WriteOps
  <2>4. Within(todo', Region(command'))
    <3>1. \A n \in 1..Len(todo') : todo'[n].address \in Addresses
      <4>1. \A n \in 1..Len(todo') : todo'[n] \in WriteOps
        BY <2>2, ElementOfSeq
      <4> QED BY <4>1 DEF WriteOps
    <3>2. Region(command') = Addresses
      BY <2>1, CommandNames DEF Region
    <3> QED BY <3>1, <3>2 DEF Within
  <2>5. OwnsIn(eeprom')
    BY <2>1, ZeroedCells, BlankOwns
  <2>6. todo' # <<>>
    <3>1. eeprom'[EECONFIG_MAGIC] # 1
      BY <2>1, ZeroedCells
    <3> QED BY <1>i, <1>t, <2>2, <3>1, InitialisationDone
  <2>7. StoresIn(command', todo', eeprom')
    BY <2>1, CommandNames DEF StoresIn
  <2> QED BY <1>i, <2>1, <2>2, <2>3, <2>4, <2>5, <2>6, <2>7, CommandNames, InvNext, Zenon
<1> QED BY <1>1, <1>2

\* raw_hid_receive's writes are the build's.
LEMMA WritesAre == ASSUME NEW q PROVE CommandWrites(q) = WritesOf(build, q)
BY Zenon DEF CommandWrites, WritesOf

\* A command of the host keeps the invariant.
LEMMA KeymapHostCommand ==
    ASSUME NEW q \in Firmware[build].requests
    PROVE  KeymapInv /\ HostCommand(q) => KeymapInv'
<1> SUFFICES ASSUME KeymapInv, HostCommand(q) PROVE KeymapInv'
  OBVIOUS
<1>w. /\ on /\ todo = <<>> /\ command' = q /\ todo' = CommandWrites(q)
      /\ eeprom' = eeprom /\ build' = build /\ on' = on /\ upload' = upload
  BY Zenon DEF HostCommand, Idle, Execute
<1>i. /\ TypeOK /\ OwnsIn(eeprom)
      /\ eeprom[EECONFIG_MAGIC] = 1 /\ ValidIn(build, eeprom)
  BY <1>w, InvNow, Zenon
<1>t. build \in Builds
  BY <1>i DEF TypeOK
<1>1. todo' = WritesOf(build, q)
  BY <1>w, WritesAre
<1>2. /\ GoodWrites(build, q, todo') /\ q \in Requests
      /\ q.kind \notin {"none", "init", "macros"}
  BY <1>t, <1>1, RequestGood
<1>3. /\ todo' \in Seq(WriteOps) /\ Within(todo', Region(q)) /\ OwnIn(build, todo')
      /\ \A n \in 1..Len(todo') : todo'[n].address > 3
      /\ StoresIn(q, todo', eeprom)
  BY <1>2, Zenon DEF GoodWrites
<1>4. q # NoCommand /\ q # InitCommand
  BY <1>2, CommandNames
<1>5. TypeOK'
  <2>1. command' \in Commands
    BY <1>w, <1>2, Zenon DEF Commands
  <2> QED BY <1>i, <1>w, <1>3, <2>1, Zenon DEF TypeOK, WriteOps
<1> QED BY <1>i, <1>w, <1>3, <1>4, <1>5, InvNext, Zenon

\* A macro write is no other command.
LEMMA MacroCommand ==
    ASSUME NEW o \in Nat, NEW d \in Seq(Byte),
           NEW c, c = [kind |-> "macros", offset |-> o, data |-> d]
    PROVE  /\ c \in Commands /\ c # NoCommand /\ c # InitCommand
           /\ c.kind = "macros" /\ c.offset = o /\ c.data = d
           /\ Region(c) = MacroCells
           /\ \A q, e : StoresIn(c, q, e)
           /\ \A b : WritesOf(b, c) = MacroBufferWrites(o, d)
<1>1. c.kind = "macros" /\ c.offset = o /\ c.data = d
  OBVIOUS
<1>2. c # NoCommand /\ c # InitCommand
  BY <1>1, CommandNames
<1>3. c \in MacroRequest
  <2>1. ASSUME NEW S, NEW s \in S
        PROVE  [kind |-> "macros", offset |-> o, data |-> s]
                    \in [kind : {"macros"}, offset : Nat, data : S]
    OBVIOUS
  <2> QED BY <2>1, Zenon DEF MacroRequest
<1>4. c \in Commands
  BY <1>3, Zenon DEF Commands
<1>5. Region(c) = MacroCells
  BY <1>1 DEF Region
<1>6. \A q, e : StoresIn(c, q, e)
  BY <1>1 DEF StoresIn
<1>7. \A b : WritesOf(b, c) = MacroBufferWrites(o, d)
  BY <1>1 DEF WritesOf
<1> QED BY <1>1, <1>2, <1>4, <1>5, <1>6, <1>7

\* id_dynamic_keymap_macro_set_buffer keeps the invariant, whatever the upload.
LEMMA KeymapMacroWrite ==
    ASSUME NEW o \in Nat, NEW d \in Seq(Byte),
           \A i \in 1..Len(d) : d[i] \in MacroBytes[build],
           o + Len(d) <= DYNAMIC_KEYMAP_MACRO_EEPROM_SIZE,
           KeymapInv, Idle, MacroSetBuffer(o, d),
           eeprom' = eeprom, build' = build, on' = on,
           upload' \in {NoUpload} \cup [image : Firmware[build].images,
                                        sent : 0..(DYNAMIC_KEYMAP_MACRO_EEPROM_SIZE - 1)]
    PROVE  KeymapInv'
<1> DEFINE c == [kind |-> "macros", offset |-> o, data |-> d]
<1>w. on /\ todo = <<>> /\ command' = c /\ todo' = CommandWrites(c)
  BY Zenon DEF Idle, MacroSetBuffer, Execute
<1>i. /\ TypeOK /\ OwnsIn(eeprom)
      /\ eeprom[EECONFIG_MAGIC] = 1 /\ ValidIn(build, eeprom)
  BY <1>w, InvNow, Zenon
<1>t. build \in Builds
  BY <1>i DEF TypeOK
<1>0. c = [kind |-> "macros", offset |-> o, data |-> d]
  OBVIOUS
<1> HIDE DEF c
<1>1. /\ c \in Commands /\ c # NoCommand /\ c # InitCommand
      /\ Region(c) = MacroCells /\ StoresIn(c, todo', eeprom)
      /\ WritesOf(build, c) = MacroBufferWrites(o, d)
  BY <1>0, MacroCommand
<1>2. todo' = MacroBufferWrites(o, d)
  BY <1>w, <1>1, WritesAre, Zenon
<1>3. /\ todo' \in Seq(WriteOps) /\ Within(todo', MacroCells) /\ OwnIn(build, todo')
      /\ \A n \in 1..Len(todo') : todo'[n].address > 3
  BY <1>t, <1>2, MacroBufferGood
<1>4. TypeOK'
  BY <1>i, <1>w, <1>1, <1>3, Zenon DEF TypeOK, WriteOps
<1> QED BY <1>i, <1>w, <1>1, <1>3, <1>4, InvNext, Zenon

\* An uploaded image: a whole buffer of bytes that ends with a zero.
LEMMA ImageIs ==
    ASSUME NEW b \in Builds, NEW image \in Firmware[b].images
    PROVE  /\ image \in Seq(Byte) /\ Len(image) = DYNAMIC_KEYMAP_MACRO_EEPROM_SIZE
           /\ image[DYNAMIC_KEYMAP_MACRO_EEPROM_SIZE] = 0
           /\ DOMAIN image = 1..DYNAMIC_KEYMAP_MACRO_EEPROM_SIZE
           /\ \A i \in 1..DYNAMIC_KEYMAP_MACRO_EEPROM_SIZE :
                 image[i] \in MacroBytes[b] /\ image[i] \in Byte
           /\ image \in KnownImages
<1> DEFINE N == DYNAMIC_KEYMAP_MACRO_EEPROM_SIZE
<1>1. N \in Nat
  BY Layout
<1>2. image \in Images /\ Last(image) = 0
  BY BuildsAreSane
<1>3. image \in [1..N -> Byte]
  BY <1>2 DEF Images
<1> HIDE DEF N
<1>4. image \in Seq(Byte) /\ Len(image) = N
  BY <1>1, <1>3, FunctionIsSeq
<1>5. image[N] = 0
  BY <1>2, <1>4 DEF Last
<1>6. DOMAIN image = 1..N /\ \A i \in 1..N : image[i] \in Byte
  BY <1>3
<1>7. \A i \in 1..N : image[i] \in MacroBytes[b]
  <2>1. \A i \in 1..N : image[i] \in Range(image)
    BY <1>6 DEF Range
  <2> QED BY <2>1, DayBytes
<1>8. image \in KnownImages
  BY DEF KnownImages
<1> QED BY <1>4, <1>5, <1>6, <1>7, <1>8 DEF N

\* `d` are the bytes of the image that follow the ones sent, to its end at most.
Chunk(image, sent, next, d) ==
    /\ next \in Nat /\ sent < next /\ next <= Len(image)
    /\ d \in Seq(Byte) /\ Len(d) = next - sent
    /\ \A i \in 1..Len(d) : d[i] = image[sent + i] /\ sent + i \in 1..Len(image)

\* A chunk of an upload is one, and it is not empty.
LEMMA ChunkIs ==
    ASSUME NEW image \in Seq(Byte), NEW sent \in Nat, sent < Len(image),
           NEW next, next = Min({sent + ChunkSize, Len(image)}),
           NEW d, d = SubSeq(image, sent + 1, next)
    PROVE  Chunk(image, sent, next, d)
<1>1. Len(image) \in Nat /\ \A i \in 1..Len(image) : image[i] \in Byte
  BY LenProperties, ElementOfSeq
<1>2. ChunkSize \in Nat /\ ChunkSize >= 1
  BY SizesAreSane
<1>3. next = IF sent + ChunkSize <= Len(image) THEN sent + ChunkSize ELSE Len(image)
  BY <1>1, <1>2, MinOfTwo
<1>4. next \in Nat /\ sent < next /\ next <= Len(image)
  BY <1>1, <1>2, <1>3
<1> DEFINE m == sent + 1
<1>5. m \in Int /\ m <= next /\ \A i \in m..next : image[i] \in Byte
  <2>1. \A i \in m..next : i \in 1..Len(image)
    BY <1>1, <1>4
  <2>2. m \in Int /\ m <= next
    BY <1>4
  <2> QED BY <1>1, <2>1, <2>2, Zenon
<1>6. d = SubSeq(image, m, next)
  OBVIOUS
<1> HIDE DEF m
<1>7. /\ d \in Seq(Byte)
      /\ Len(d) = IF m <= next THEN next - m + 1 ELSE 0
      /\ \A i \in 1..(next - m + 1) : d[i] = image[m + i - 1]
  <2>1. next \in Int
    BY <1>4
  <2>2. SubSeq(image, m, next) \in Seq(Byte)
    BY <1>5, <2>1, SubSeqProperties, Zenon
  <2>3. Len(SubSeq(image, m, next)) = IF m <= next THEN next - m + 1 ELSE 0
    BY <1>5, <2>1, SubSeqProperties, Zenon
  <2>4. \A i \in 1..(next - m + 1) : SubSeq(image, m, next)[i] = image[m + i - 1]
    BY <1>5, <2>1
  <2> QED BY <1>6, <2>2, <2>3, <2>4, Zenon
<1>8. Len(d) = next - sent
  BY <1>4, <1>5, <1>7 DEF m
<1>9. ASSUME NEW i \in 1..Len(d)
      PROVE  d[i] = image[sent + i] /\ sent + i \in 1..Len(image)
  <2>1. i \in 1..(next - m + 1) /\ m + i - 1 = sent + i /\ sent + i \in 1..Len(image)
    BY <1>1, <1>4, <1>8 DEF m
  <2> QED BY <1>7, <2>1
<1> QED BY <1>4, <1>7, <1>8, <1>9 DEF Chunk

\* The first step of an upload keeps the invariant.
LEMMA KeymapUploadBegin ==
    ASSUME NEW image \in Firmware[build].images
    PROVE  KeymapInv /\ UploadBegin(image) => KeymapInv'
<1> SUFFICES ASSUME KeymapInv, UploadBegin(image) PROVE KeymapInv'
  OBVIOUS
<1> DEFINE N == DYNAMIC_KEYMAP_MACRO_EEPROM_SIZE
           d == <<255>>
<1>w. /\ Idle /\ upload' = [image |-> image, sent |-> 0] /\ MacroSetBuffer(N - 1, d)
      /\ eeprom' = eeprom /\ build' = build /\ on' = on
  BY Zenon DEF UploadBegin
<1>t. build \in Builds
  BY DEF KeymapInv, TypeOK
<1>1. N \in Nat /\ N >= 1
  BY Layout
<1>2. d \in Seq(Byte) /\ Len(d) = 1 /\ d[1] = 255
  BY DEF Byte
<1>3. \A i \in 1..Len(d) : d[i] \in MacroBytes[build]
  BY <1>2, <1>t, DayBytes
<1>4. upload' \in [image : Firmware[build].images, sent : 0..(N - 1)]
  BY <1>w, <1>1
<1> HIDE DEF N, d
<1>5. N - 1 \in Nat /\ (N - 1) + Len(d) <= N
  BY <1>1, <1>2
<1>6. (N - 1) + Len(d) <= DYNAMIC_KEYMAP_MACRO_EEPROM_SIZE
  BY <1>5 DEF N
<1>7. upload' \in {NoUpload} \cup [image : Firmware[build].images,
                                   sent : 0..(DYNAMIC_KEYMAP_MACRO_EEPROM_SIZE - 1)]
  BY <1>4 DEF N
<1> QED BY <1>w, <1>2, <1>3, <1>5, <1>6, <1>7, KeymapMacroWrite, Zenon

\* During an upload: its image and what it has sent.
LEMMA UploadIs ==
    ASSUME TypeOK, upload # NoUpload
    PROVE  /\ upload.image \in Firmware[build].images /\ upload.sent \in Nat
           /\ upload.sent < DYNAMIC_KEYMAP_MACRO_EEPROM_SIZE
           /\ upload = [image |-> upload.image, sent |-> upload.sent]
<1>1. upload \in [image : Firmware[build].images,
                  sent : 0..(DYNAMIC_KEYMAP_MACRO_EEPROM_SIZE - 1)]
  BY DEF TypeOK
<1> QED BY <1>1, Layout

\* A chunk of an upload keeps the invariant.
LEMMA KeymapUploadChunk == KeymapInv /\ UploadChunk => KeymapInv'
<1> SUFFICES ASSUME KeymapInv, UploadChunk PROVE KeymapInv'
  OBVIOUS
<1> DEFINE N == DYNAMIC_KEYMAP_MACRO_EEPROM_SIZE
           next == Min({upload.sent + ChunkSize, Len(upload.image)})
           d == SubSeq(upload.image, upload.sent + 1, next)
<1>w. /\ Idle /\ upload # NoUpload /\ MacroSetBuffer(upload.sent, d)
      /\ upload' = IF next = Len(upload.image) THEN NoUpload
                   ELSE [upload EXCEPT !.sent = next]
      /\ eeprom' = eeprom /\ build' = build /\ on' = on
  BY Zenon DEF UploadChunk
<1>t. build \in Builds /\ TypeOK
  BY DEF KeymapInv, TypeOK
<1>1. /\ upload.image \in Firmware[build].images /\ upload.sent \in Nat
      /\ upload.sent < N
      /\ upload = [image |-> upload.image, sent |-> upload.sent]
  BY <1>w, <1>t, UploadIs
<1>2. /\ upload.image \in Seq(Byte) /\ Len(upload.image) = N
      /\ \A i \in 1..N : upload.image[i] \in MacroBytes[build]
  BY <1>t, <1>1, ImageIs
<1>n. next = Min({upload.sent + ChunkSize, Len(upload.image)})
      /\ d = SubSeq(upload.image, upload.sent + 1, next)
  OBVIOUS
<1> HIDE DEF next, d
<1>3. /\ next \in Nat /\ upload.sent < next /\ next <= Len(upload.image)
      /\ d \in Seq(Byte) /\ Len(d) = next - upload.sent
      /\ \A i \in 1..Len(d) : d[i] = upload.image[upload.sent + i]
                               /\ upload.sent + i \in 1..Len(upload.image)
  <2>1. Chunk(upload.image, upload.sent, next, d)
    BY <1>1, <1>2, <1>n, ChunkIs
  <2> QED BY <2>1, Zenon DEF Chunk
<1>4. \A i \in 1..Len(d) : d[i] \in MacroBytes[build]
  BY <1>2, <1>3
<1>5. N \in Nat
  BY Layout
<1>6. upload' \in {NoUpload} \cup [image : Firmware[build].images, sent : 0..(N - 1)]
  <2>1. next # Len(upload.image) => next \in 0..(N - 1)
    BY <1>2, <1>3, <1>5
  <2>2. next # Len(upload.image) => upload' = [image |-> upload.image, sent |-> next]
    BY <1>w, <1>1
  <2> QED BY <1>w, <1>1, <2>1, <2>2
<1>7. upload.sent + Len(d) <= N
  BY <1>1, <1>2, <1>3, <1>5
<1> QED BY <1>w, <1>1, <1>3, <1>4, <1>6, <1>7, KeymapMacroWrite, Zenon

\* A command that is over leaves the invariant to a step that only ends an
\* upload, cuts the power or changes the firmware.
LEMMA KeymapOthers ==
    ASSUME KeymapInv, UploadAbort \/ ClearEeprom \/ PowerLoss \/ \E b \in Builds : Reflash(b)
    PROVE  KeymapInv'
<1>i. /\ TypeOK /\ OwnsIn(eeprom)
      /\ ~on => command = NoCommand /\ upload = NoUpload
      /\ command = NoCommand => todo = <<>>
      /\ Within(todo, Region(command))
      /\ command # InitCommand => \A n \in 1..Len(todo) : todo[n].address > 3
      /\ OwnIn(build, todo)
      /\ command = InitCommand => InitialisesIn(build, todo, eeprom)
      /\ on /\ (todo = <<>> \/ command # InitCommand) =>
            eeprom[EECONFIG_MAGIC] = 1 /\ ValidIn(build, eeprom)
      /\ StoresIn(command, todo, eeprom)
  BY InvNow, Zenon
<1>1. CASE UploadAbort
  <2>1. /\ on /\ upload' = NoUpload /\ eeprom' = eeprom /\ build' = build /\ on' = on
        /\ command' = command /\ todo' = todo
    BY <1>1, Zenon DEF UploadAbort, Idle
  <2>2. TypeOK'
    BY <1>i, <2>1 DEF TypeOK
  <2> QED BY <1>i, <2>1, <2>2, InvNext, Zenon
<1>2. ASSUME on' = FALSE, command' = NoCommand, upload' = NoUpload, todo' = <<>>,
             build' \in Builds, eeprom' \in [Addresses -> Byte], OwnsIn(eeprom')
      PROVE  KeymapInv'
  <2>1. /\ OwnIn(build', todo') /\ Within(todo', Region(command'))
        /\ \A n \in 1..Len(todo') : todo'[n].address > 3
        /\ StoresIn(command', todo', eeprom')
    BY <1>2, NothingToDo
  <2>2. \A S : <<>> \in Seq(S)
    OBVIOUS
  <2>3. TypeOK'
    BY <1>2, <2>2, CommandNames, Zenon DEF TypeOK
  <2>4. command' # InitCommand
    BY <1>2, CommandNames
  <2> QED BY <1>2, <2>1, <2>3, <2>4, InvNext, Zenon
<1>3. CASE ClearEeprom
  <2>1. /\ todo = <<>> /\ todo' = todo /\ on' = FALSE /\ command' = NoCommand
        /\ upload' = NoUpload /\ build' = build
        /\ eeprom' = [Zeroed EXCEPT ![EECONFIG_MAGIC] = 255]
    BY <1>3, Zenon DEF ClearEeprom, Idle
  <2>2. EECONFIG_MAGIC \in Addresses
    BY Layout, Regions
  <2>3. eeprom' \in [Addresses -> Byte] /\ eeprom'[EECONFIG_MAGIC] = 255
    BY <2>1, <2>2, ZeroedCells, SMT DEF Byte
  <2>4. eeprom'[EECONFIG_MAGIC] # 1
    BY <2>3
  <2>5. OwnsIn(eeprom')
    BY <2>4, BlankOwns
  <2>6. build' \in Builds
    BY <1>i, <2>1 DEF TypeOK
  <2> QED BY <1>2, <2>1, <2>3, <2>5, <2>6, Zenon
<1>4. CASE PowerLoss
  <2>1. build' \in Builds /\ eeprom' \in [Addresses -> Byte] /\ OwnsIn(eeprom')
    BY <1>i, <1>4 DEF TypeOK, PowerLoss
  <2> QED BY <1>2, <1>4, <2>1, Zenon DEF PowerLoss
<1>5. CASE \E b \in Builds : Reflash(b)
  <2>1. /\ ~on /\ build' \in Builds /\ eeprom' = eeprom /\ on' = on /\ command' = command
        /\ todo' = todo /\ upload' = upload
    BY <1>5, Zenon DEF Reflash
  <2>2. on' = FALSE
    BY <1>i, <2>1 DEF TypeOK
  <2>3. eeprom' \in [Addresses -> Byte] /\ OwnsIn(eeprom')
    BY <1>i, <2>1 DEF TypeOK
  <2> QED BY <1>i, <1>2, <2>1, <2>2, <2>3, Zenon
<1> QED BY <1>1, <1>3, <1>4, <1>5

\* Every step keeps the invariant.
LEMMA KeymapInvNext == KeymapInv /\ [Next]_vars => KeymapInv'
<1> SUFFICES ASSUME KeymapInv, [Next]_vars PROVE KeymapInv'
  OBVIOUS
<1>1. CASE UNCHANGED vars
  <2>1. /\ eeprom' = eeprom /\ build' = build /\ on' = on /\ command' = command
        /\ todo' = todo /\ upload' = upload
    BY <1>1 DEF vars
  <2>2. TypeOK'
    BY <2>1 DEF KeymapInv, TypeOK
  <2> QED BY <2>1, <2>2, InvNow, InvNext, Zenon
<1>2. CASE \E q \in Firmware[build].requests : HostCommand(q)
  BY <1>2, KeymapHostCommand
<1>3. CASE \E image \in Firmware[build].images : UploadBegin(image)
  BY <1>3, KeymapUploadBegin
<1>4. CASE UploadAbort \/ ClearEeprom \/ PowerLoss \/ \E b \in Builds : Reflash(b)
  BY <1>4, KeymapOthers
<1> QED BY <1>1, <1>2, <1>3, <1>4, KeymapPowerOn, KeymapWriteByte, KeymapUploadChunk, Zenon
        DEF Next

\* The keymap's invariant: the EEPROM's cells and the writes a command still has
\* to make lead where the properties want them, through power failures in the
\* initialisation, commands, uploads and changes of the firmware.
THEOREM KeymapInvariant == Spec => []KeymapInv
BY KeymapInvInit, KeymapInvNext, PTL DEF Spec

\* The types of the model.
THEOREM KeymapTypes == Spec => []TypeOK
<1>1. KeymapInv => TypeOK
  BY DEF KeymapInv
<1> QED BY <1>1, KeymapInvariant, PTL

\* "Save the magic number last": an EEPROM with a build's magic holds keymap and
\* macros of that build's day only, for any number of builds and any sizes.
THEOREM OwnDataAlways == Spec => []MagicMeansOwnData
<1>1. KeymapInv => MagicMeansOwnData
  BY DEF KeymapInv
<1> QED BY <1>1, KeymapInvariant, PTL

\* A stored keycode reads back when nothing is left to write.
LEMMA KeycodeReadsBack ==
    ASSUME NEW a, NEW k \in Keycodes, NEW q, q = <<>>, KeycodeIn(q, eeprom, a, k)
    PROVE  KeycodeAt(a) = k
<1>1. eeprom[a] \in {k \div 256} /\ eeprom[a + 1] \in {k % 256}
  <2>1. \A x, S : Fills(q, eeprom, x, S) => eeprom[x] \in S
    BY Settled
  <2> QED BY <2>1, Zenon DEF KeycodeIn
<1>2. KeycodeAt(a) = (k \div 256) * 256 + (k % 256)
  BY <1>1 DEF KeycodeAt
<1> QED BY <1>2, KeycodeBytesType, Zenon

\* A key command is a key request.
LEMMA KeyCommand ==
    ASSUME NEW c \in Commands
    PROVE  c.kind = "key" \/ c.kind = "encoder" => c.keycode \in Keycodes
<1>1. c.kind = "key" \/ c.kind = "encoder" => c # NoCommand /\ c # InitCommand
  BY CommandNames
<1>2. c.kind = "key" \/ c.kind = "encoder" => c \notin OptionsRequest /\ c \notin ResetRequest
  BY DEF OptionsRequest, ResetRequest
<1>3. c.kind = "key" \/ c.kind = "encoder" => c \notin MacroRequest /\ c \notin BufferRequest
  BY MacroFields, BufferFields
<1>4. c \in KeyRequest \/ c \in EncoderRequest => c.keycode \in Keycodes
  BY DEF KeyRequest, EncoderRequest
<1> QED BY <1>1, <1>2, <1>3, <1>4, Zenon DEF Commands, Requests

\* What the invariant means for the host's reads.
LEMMA ReadsBack == KeymapInv => CommandReadsBack
<1> SUFFICES ASSUME KeymapInv, Idle PROVE CommandReadsBack
  BY Zenon DEF CommandReadsBack
<1>1. todo = <<>> /\ command \in Commands /\ StoresIn(command, todo, eeprom)
  BY InvNow, Zenon DEF Idle, TypeOK
<1>2. ASSUME command.kind = "key"
      PROVE  GetKeycode(command.layer, command.row, command.column)
                    = IF <<command.layer, command.row, command.column>> \in Positions
                      THEN command.keycode ELSE KC_NO
  <2>1. CASE <<command.layer, command.row, command.column>> \in Positions
    <3>1. KeycodeIn(todo, eeprom, KeyAddress(command.layer, command.row, command.column),
                    command.keycode)
      BY <1>1, <1>2, <2>1, Zenon DEF StoresIn
    <3>2. command.keycode \in Keycodes
      BY <1>1, <1>2, KeyCommand, Zenon
    <3>3. KeycodeAt(KeyAddress(command.layer, command.row, command.column)) = command.keycode
      BY <1>1, <3>1, <3>2, KeycodeReadsBack, Zenon
    <3> QED BY <2>1, <3>3, Zenon DEF GetKeycode
  <2>2. CASE <<command.layer, command.row, command.column>> \notin Positions
    BY <2>2, Zenon DEF GetKeycode
  <2> QED BY <2>1, <2>2
<1>3. ASSUME command.kind = "encoder"
      PROVE  GetEncoder(command.layer, command.encoder, command.clockwise)
                    = IF <<command.layer, command.encoder, command.clockwise>> \in Turns
                      THEN command.keycode ELSE KC_NO
  <2>1. CASE <<command.layer, command.encoder, command.clockwise>> \in Turns
    <3>1. KeycodeIn(todo, eeprom,
                    EncoderAddress(command.layer, command.encoder, command.clockwise),
                    command.keycode)
      BY <1>1, <1>3, <2>1, Zenon DEF StoresIn
    <3>2. command.keycode \in Keycodes
      BY <1>1, <1>3, KeyCommand, Zenon
    <3>3. KeycodeAt(EncoderAddress(command.layer, command.encoder, command.clockwise))
            = command.keycode
      BY <1>1, <3>1, <3>2, KeycodeReadsBack, Zenon
    <3> QED BY <2>1, <3>3, Zenon DEF GetEncoder
  <2>2. CASE <<command.layer, command.encoder, command.clockwise>> \notin Turns
    BY <2>2, Zenon DEF GetEncoder
  <2> QED BY <2>1, <2>2
<1>4. ASSUME command.kind = "keymap", NEW p \in Positions
      PROVE  LET at    == KeyAddress(p[1], p[2], p[3]) - DYNAMIC_KEYMAP_EEPROM_ADDR
                 first == at - command.offset + 1
             IN  {first, first + 1} \subseteq DOMAIN command.data =>
                     GetKeycode(p[1], p[2], p[3])
                         = command.data[first] * 256 + command.data[first + 1]
  <2> DEFINE A     == KeyAddress(p[1], p[2], p[3])
             d     == command.data
             o     == command.offset
             first == (A - DYNAMIC_KEYMAP_EEPROM_ADDR) - o + 1
  <2> SUFFICES ASSUME first \in DOMAIN d, first + 1 \in DOMAIN d
               PROVE  GetKeycode(p[1], p[2], p[3]) = d[first] * 256 + d[first + 1]
    OBVIOUS
  <2>1. o \in Nat /\ d \in Seq(Byte)
    BY <1>1, <1>4, KeymapCommand, BufferFields
  <2>2. <<p[1], p[2], p[3]>> \in Positions
    BY DEF Positions
  <2>3. A \in KeymapCells /\ A + 1 \in KeymapCells /\ A \in Nat
    BY <2>2, KeyAddressRange
  <2>4. \A i \in 1..Len(d) : o + i - 1 < KeymapSize =>
           Fills(todo, eeprom, DYNAMIC_KEYMAP_EEPROM_ADDR + o + i - 1, {d[i]})
    BY <1>1, <1>4, Zenon DEF StoresIn
  <2>5. GetKeycode(p[1], p[2], p[3]) = KeycodeAt(A)
    BY <2>2, Zenon DEF GetKeycode
  <2>f. first = (A - DYNAMIC_KEYMAP_EEPROM_ADDR) - o + 1
    OBVIOUS
  <2> HIDE DEF A, d, o, first
  <2>6. first \in 1..Len(d) /\ first + 1 \in 1..Len(d) /\ Len(d) \in Nat
    BY <2>1, LenProperties
  <2>7. /\ first \in Int /\ DYNAMIC_KEYMAP_EEPROM_ADDR + o + first - 1 = A
        /\ o + first - 1 < KeymapSize
        /\ DYNAMIC_KEYMAP_EEPROM_ADDR + o + (first + 1) - 1 = A + 1
        /\ o + (first + 1) - 1 < KeymapSize
    BY <2>1, <2>3, <2>f, <2>6, Layout DEF KeymapCells
  <2>8. Fills(todo, eeprom, A, {d[first]}) /\ Fills(todo, eeprom, A + 1, {d[first + 1]})
    <3>1. Fills(todo, eeprom, DYNAMIC_KEYMAP_EEPROM_ADDR + o + first - 1, {d[first]})
      BY <2>4, <2>6, <2>7
    <3>2. Fills(todo, eeprom, DYNAMIC_KEYMAP_EEPROM_ADDR + o + (first + 1) - 1,
                {d[first + 1]})
      BY <2>4, <2>6, <2>7
    <3> QED BY <2>7, <3>1, <3>2
  <2>9. eeprom[A] \in {d[first]} /\ eeprom[A + 1] \in {d[first + 1]}
    BY <1>1, <2>8, Settled, Zenon
  <2> QED BY <2>5, <2>9 DEF KeycodeAt
<1> QED BY <1>2, <1>3, <1>4, Zenon DEF CommandReadsBack

\* Once a command of the host is done, reading the same place returns what it
\* wrote, keycode by keycode and as a buffer: for every size of keymap, every
\* layer, row, column and encoder a host may name, inside the keymap or not, and
\* every offset and length of a buffer.
THEOREM ReadsBackAlways == Spec => []CommandReadsBack
BY ReadsBack, KeymapInvariant, PTL

\* A step changes cells of the command's region only.
LEMMA RegionStep ==
    KeymapInv /\ [Next]_vars =>
        (todo # <<>> /\ on' =>
            \A a \in Addresses : eeprom'[a] # eeprom[a] => a \in Region(command))
<1> SUFFICES ASSUME KeymapInv, [Next]_vars, todo # <<>>, on', NEW a \in Addresses,
                    eeprom'[a] # eeprom[a]
             PROVE  a \in Region(command)
  OBVIOUS
<1>1. /\ todo \in Seq(WriteOps) /\ Within(todo, Region(command))
      /\ ~on => todo = <<>> /\ eeprom \in [Addresses -> Byte]
  BY InvNow, Zenon DEF TypeOK
<1>2. eeprom' # eeprom
  OBVIOUS
<1>3. WriteByte
  <2>1. ~PowerOn
    BY <1>1, Zenon DEF PowerOn
  <2>2. ~UNCHANGED vars
    BY <1>2 DEF vars
  <2>3. \A q : ~HostCommand(q)
    BY Zenon DEF HostCommand, Idle
  <2>4. \A image : ~UploadBegin(image)
    BY Zenon DEF UploadBegin, Idle
  <2>5. ~UploadChunk /\ ~UploadAbort /\ ~ClearEeprom
    BY Zenon DEF UploadChunk, UploadAbort, ClearEeprom, Idle
  <2>6. ~PowerLoss /\ \A b : ~Reflash(b)
    BY <1>2, Zenon DEF PowerLoss, Reflash
  <2> QED BY <2>1, <2>2, <2>3, <2>4, <2>5, <2>6, Zenon DEF Next
<1>4. eeprom' = [eeprom EXCEPT ![Head(todo).address] = Head(todo).value]
  BY <1>3 DEF WriteByte
<1>5. Len(todo) \in Nat /\ Len(todo) >= 1 /\ Head(todo) = todo[1]
  BY <1>1, TailIndices
<1>6. todo[1].address \in Region(command)
  BY <1>1, <1>5 DEF Within
<1>7. eeprom \in [Addresses -> Byte]
  BY DEF KeymapInv, TypeOK
<1>8. a = todo[1].address
  BY <1>4, <1>5, <1>7
<1> QED BY <1>6, <1>8

\* No command disturbs a neighbour: whatever address, offset or length the host
\* sends, a command changes its own cells, and never the magic.
THEOREM RegionsKept == Spec => CommandsKeepToTheirRegion
BY RegionStep, KeymapInvariant, PTL DEF Spec, CommandsKeepToTheirRegion

-----------------------------------------------------------------------------
(* The macro buffer's invariant is inductive.                              *)

\* The cells of the macro buffer, from the first to the flag.
LEMMA MacroCellIs ==
    /\ \A i \in 1..DYNAMIC_KEYMAP_MACRO_EEPROM_SIZE :
          MacroCell(i) \in MacroCells /\ MacroCell(i) \in Addresses
    /\ FlagCell = MacroCell(DYNAMIC_KEYMAP_MACRO_EEPROM_SIZE)
    /\ FlagCell \in MacroCells /\ FlagCell \in Addresses
    /\ \A i, j \in 1..DYNAMIC_KEYMAP_MACRO_EEPROM_SIZE : MacroCell(i) = MacroCell(j) => i = j
BY Layout, Regions DEF MacroCell, MacroCells, FlagCell

\* A buffer that is all zero is whole.
LEMMA BlankWhole ==
    ASSUME NEW e, \A a \in MacroCells : e[a] = 0
    PROVE  WholeIn(e)
<1> DEFINE N == DYNAMIC_KEYMAP_MACRO_EEPROM_SIZE
<1>1. Blank \in KnownImages /\ 0 \in 0..N
  BY Layout DEF KnownImages
<1>2. DOMAIN Blank = 1..N /\ \A i \in 1..N : Blank[i] = 0
  BY DEF Blank
<1>3. \A i \in 1..N : Cleared(Blank, 0)[i] = 0
  BY <1>2 DEF Cleared
<1>4. Holds(e, Cleared(Blank, 0))
  BY <1>3, MacroCellIs DEF Holds
<1> QED BY <1>1, <1>4 DEF WholeIn

\* A complete image is whole.
LEMMA ImageWhole ==
    ASSUME NEW image \in KnownImages, NEW e,
           \A i \in 1..DYNAMIC_KEYMAP_MACRO_EEPROM_SIZE : e[MacroCell(i)] = image[i]
    PROVE  WholeIn(e)
<1> DEFINE N == DYNAMIC_KEYMAP_MACRO_EEPROM_SIZE
<1>1. DOMAIN image = 1..N
  <2>1. CASE image = Blank
    BY <2>1 DEF Blank
  <2>2. CASE image # Blank
    <3>1. PICK b \in Builds : image \in Firmware[b].images
      BY <2>2 DEF KnownImages
    <3> QED BY <3>1, ImageIs
  <2> QED BY <2>1, <2>2
<1>2. 0 \in 0..N /\ \A i \in 1..N : ~(i <= 0)
  BY Layout
<1>3. \A i \in 1..N : Cleared(image, 0)[i] = image[i]
  BY <1>1, <1>2 DEF Cleared
<1>4. Holds(e, Cleared(image, 0))
  BY <1>3 DEF Holds
<1> QED BY <1>2, <1>4 DEF WholeIn

\* Clearing one more cell behind a cleared beginning.
LEMMA ClearOne ==
    ASSUME NEW e \in [Addresses -> Byte], NEW j \in 1..DYNAMIC_KEYMAP_MACRO_EEPROM_SIZE,
           WholeIn(e), \A i \in 1..(j - 1) : e[MacroCell(i)] = 0,
           NEW f, f = [e EXCEPT ![MacroCell(j)] = 0]
    PROVE  WholeIn(f)
<1> DEFINE N == DYNAMIC_KEYMAP_MACRO_EEPROM_SIZE
<1>0. N \in Nat /\ N >= 1
  BY Layout
<1> HIDE DEF N
<1>1. \A i \in 1..N : f[MacroCell(i)] = IF i = j THEN 0 ELSE e[MacroCell(i)]
  BY MacroCellIs DEF N
<1>2. CASE j = N
  <2>1. \A i \in 1..N : f[MacroCell(i)] = 0
    BY <1>0, <1>1, <1>2
  <2>2. Blank \in KnownImages /\ \A i \in 1..N : Blank[i] = 0
    BY DEF Blank, KnownImages, N
  <2> QED BY <2>1, <2>2, ImageWhole DEF N
<1>3. CASE j # N /\ e[FlagCell] # 0
  <2>1. f[FlagCell] = e[FlagCell]
    BY <1>0, <1>1, <1>3, MacroCellIs DEF N
  <2> QED BY <1>3, <2>1 DEF WholeIn
<1>4. CASE e[FlagCell] = 0
  <2>1. PICK image \in KnownImages, k \in 0..N : Holds(e, Cleared(image, k))
    BY <1>4 DEF WholeIn, N
  <2> DEFINE m == IF k <= j THEN j ELSE k
  <2>2. m \in 0..N /\ \A i \in 1..N : i <= m <=> (i <= j \/ i <= k)
    BY <1>0 DEF N
  <2>3. DOMAIN image = 1..N
    <3>1. CASE image = Blank
      BY <3>1 DEF Blank, N
    <3>2. CASE image # Blank
      <4>1. PICK b \in Builds : image \in Firmware[b].images
        BY <3>2 DEF KnownImages
      <4> QED BY <4>1, ImageIs DEF N
    <3> QED BY <3>1, <3>2
  <2>4. \A i \in 1..N : e[MacroCell(i)] = IF i <= k THEN 0 ELSE image[i]
    BY <2>1, <2>3 DEF Holds, Cleared, N
  <2>5. \A i \in 1..N : i <= j /\ i # j => e[MacroCell(i)] = 0
    BY <1>0 DEF N
  <2> HIDE DEF m
  <2>6. \A i \in 1..N : f[MacroCell(i)] = IF i <= m THEN 0 ELSE image[i]
    <3> TAKE i \in 1..N
    <3>1. i <= m <=> (i <= j \/ i <= k)
      BY <2>2
    <3>2. f[MacroCell(i)] = IF i = j THEN 0 ELSE e[MacroCell(i)]
      BY <1>1
    <3>3. e[MacroCell(i)] = IF i <= k THEN 0 ELSE image[i]
      BY <2>4
    <3>4. i <= j /\ i # j => e[MacroCell(i)] = 0
      BY <2>5
    <3>5. i = j => i <= j
      BY <1>0
    <3> QED BY <3>1, <3>2, <3>3, <3>4, <3>5, Zenon
  <2>7. Holds(f, Cleared(image, m))
    BY <2>3, <2>6 DEF Holds, Cleared, N
  <2> QED BY <2>2, <2>7 DEF WholeIn, N
<1> QED BY <1>2, <1>3, <1>4

\* A buffer none of whose cells changes stays whole.
LEMMA SameWhole ==
    ASSUME NEW e, NEW f, \A a \in MacroCells : f[a] = e[a], WholeIn(e)
    PROVE  WholeIn(f)
<1>1. f[FlagCell] = e[FlagCell]
  BY MacroCellIs
<1>2. ASSUME NEW x, Holds(e, x) PROVE Holds(f, x)
  BY <1>2, MacroCellIs DEF Holds
<1> QED BY <1>1, <1>2, Zenon DEF WholeIn

\* One write on, an upload's bytes are still in place.
LEMMA UploadingStep ==
    ASSUME NEW u, u # NoUpload => u.sent \in Nat /\ u.sent < DYNAMIC_KEYMAP_MACRO_EEPROM_SIZE,
           NEW q \in Seq(WriteOps), q # <<>>, NEW e \in [Addresses -> Byte],
           UploadingIn(u, q, e)
    PROVE  UploadingIn(u, Tail(q), [e EXCEPT ![Head(q).address] = Head(q).value])
<1> DEFINE t == Tail(q)
           f == [e EXCEPT ![Head(q).address] = Head(q).value]
<1>a. \A a \in Addresses : \A S : Fills(q, e, a, S) => Fills(t, f, a, S)
  BY FillsStep
<1> HIDE DEF t, f
<1>1. ASSUME u # NoUpload
      PROVE  /\ Fills(t, f, FlagCell, {255})
             /\ \A i \in 1..u.sent : Fills(t, f, MacroCell(i), {u.image[i]})
  <2>1. FlagCell \in Addresses /\ \A i \in 1..u.sent : MacroCell(i) \in Addresses
    <3>1. \A i \in 1..u.sent : i \in 1..DYNAMIC_KEYMAP_MACRO_EEPROM_SIZE
      BY <1>1, Layout
    <3> QED BY <3>1, MacroCellIs
  <2>2. /\ Fills(q, e, FlagCell, {255})
        /\ \A i \in 1..u.sent : Fills(q, e, MacroCell(i), {u.image[i]})
    BY <1>1, Zenon DEF UploadingIn
  <2> QED BY <1>a, <2>1, <2>2, Zenon
<1>2. UploadingIn(u, t, f)
  BY <1>1, Zenon DEF UploadingIn
<1> QED BY <1>2 DEF t, f

\* One write of a macro buffer write on.
LEMMA FlaggingStep ==
    ASSUME NEW c, c.kind = "macros", NEW q \in Seq(WriteOps), q # <<>>,
           NEW e \in [Addresses -> Byte], FlaggingIn(c, q, e)
    PROVE  /\ FlaggingIn(c, Tail(q), [e EXCEPT ![Head(q).address] = Head(q).value])
           /\ WholeIn([e EXCEPT ![Head(q).address] = Head(q).value])
<1> DEFINE t == Tail(q)
           f == [e EXCEPT ![Head(q).address] = Head(q).value]
<1>1. /\ Len(q) \in Nat /\ Len(q) >= 1 /\ Len(t) = Len(q) - 1 /\ t \in Seq(WriteOps)
      /\ Head(q) = q[1] /\ q[1] \in WriteOps
      /\ \A n \in 1..(Len(q) - 1) : t[n] = q[n + 1]
  BY TailIndices
<1>2. \A a \in Addresses : f[a] = IF q[1].address = a THEN q[1].value ELSE e[a]
  BY <1>1 DEF WriteOps
<1>a. \A a \in Addresses : \A S : Fills(q, e, a, S) => Fills(t, f, a, S)
  BY FillsStep
<1>3. FlagCell \in Addresses
  BY MacroCellIs
<1> HIDE DEF t, f
<1>4. CompletesIn(q, e) => CompletesIn(t, f)
  BY <1>a, MacroCellIs, Zenon DEF CompletesIn
<1>5. CASE Len(q) = 1
  <2>1. t = <<>>
    BY <1>1, <1>5, EmptySeq
  <2>2. FlaggingIn(c, t, f)
    BY <2>1, Zenon DEF FlaggingIn
  <2>3. CASE q[1] = Write(FlagCell, 255)
    <3>1. q[1].address = FlagCell /\ q[1].value = 255
      BY <2>3, WriteIs
    <3>2. f[FlagCell] = 255
      BY <1>2, <1>3, <3>1
    <3>3. f[FlagCell] # 0
      BY <3>2
    <3>4. WholeIn(f)
      BY <3>3 DEF WholeIn
    <3> QED BY <2>2, <3>4 DEF t, f
  <2>4. CASE q[1] # Write(FlagCell, 255)
    <3>1. e[FlagCell] # 0 /\ (q[Len(q)].address # FlagCell \/ CompletesIn(q, e))
      BY <2>4, Zenon DEF FlaggingIn
    <3>2. CASE q[Len(q)].address # FlagCell
      <4>1. f[FlagCell] = e[FlagCell]
        BY <1>2, <1>3, <1>5, <3>2
      <4>2. WholeIn(f)
        BY <3>1, <4>1 DEF WholeIn
      <4> QED BY <2>2, <4>2 DEF t, f
    <3>3. CASE CompletesIn(q, e)
      <4>1. PICK image \in KnownImages : \A i \in 1..DYNAMIC_KEYMAP_MACRO_EEPROM_SIZE :
                Fills(t, f, MacroCell(i), {image[i]})
        BY <1>4, <3>3, Zenon DEF CompletesIn
      <4>2. \A x, S : Fills(t, f, x, S) => f[x] \in S
        BY <2>1, Settled
      <4>3. \A i \in 1..DYNAMIC_KEYMAP_MACRO_EEPROM_SIZE : f[MacroCell(i)] \in {image[i]}
        BY <4>1, <4>2, Zenon
      <4>4. \A i \in 1..DYNAMIC_KEYMAP_MACRO_EEPROM_SIZE : f[MacroCell(i)] = image[i]
        BY <4>3, Zenon
      <4>5. WholeIn(f)
        BY <4>4, ImageWhole, Zenon
      <4> QED BY <2>2, <4>5 DEF t, f
    <3> QED BY <3>1, <3>2, <3>3
  <2> QED BY <2>3, <2>4
<1>6. CASE Len(q) # 1
  <2>1. /\ e[FlagCell] # 0
        /\ \A n \in 1..(Len(q) - 1) : q[n].address # FlagCell
        /\ q[Len(q)].address # FlagCell \/ CompletesIn(q, e)
    BY <1>6, Zenon DEF FlaggingIn
  <2>2. 1 \in 1..(Len(q) - 1)
    BY <1>1, <1>6
  <2>3. f[FlagCell] # 0
    BY <1>2, <1>3, <2>1, <2>2
  <2>4. \A n \in 1..(Len(t) - 1) : t[n].address # FlagCell
    <3> TAKE n \in 1..(Len(t) - 1)
    <3>1. n + 1 \in 1..(Len(q) - 1) /\ t[n] = q[n + 1]
      BY <1>1
    <3> QED BY <2>1, <3>1
  <2>5. t[Len(t)] = q[Len(q)]
    BY <1>1, <1>6
  <2>6. FlaggingIn(c, t, f)
    BY <1>4, <2>1, <2>3, <2>4, <2>5 DEF FlaggingIn
  <2>7. WholeIn(f)
    BY <2>3 DEF WholeIn
  <2> QED BY <2>6, <2>7 DEF t, f
<1> QED BY <1>5, <1>6

\* A number up to k is k or below it.
LEMMA UpTo ==
    ASSUME NEW N \in Nat, NEW k \in 1..N, NEW x \in 1..k
    PROVE  x \in 1..N /\ (x = k \/ x \in 1..(k - 1))
OBVIOUS

\* One write of a macro reset on.
LEMMA ClearingStep ==
    ASSUME NEW c, c.kind = "macro_reset", NEW q \in Seq(WriteOps), q # <<>>,
           NEW e \in [Addresses -> Byte], ClearingIn(c, q, e), WholeIn(e)
    PROVE  /\ ClearingIn(c, Tail(q), [e EXCEPT ![Head(q).address] = Head(q).value])
           /\ WholeIn([e EXCEPT ![Head(q).address] = Head(q).value])
<1> DEFINE t == Tail(q)
           f == [e EXCEPT ![Head(q).address] = Head(q).value]
           N == DYNAMIC_KEYMAP_MACRO_EEPROM_SIZE
           A == DYNAMIC_KEYMAP_MACRO_EEPROM_ADDR
           j == (N - Len(q)) + 1
<1>0. /\ N \in Nat /\ N >= 1 /\ A \in Nat /\ EepromEnd = A + N
      /\ \A i \in Int : MacroCell(i) = A + (i - 1)
  BY Layout DEF MacroCell
<1>1. /\ Len(q) \in Nat /\ Len(q) >= 1 /\ Len(t) = Len(q) - 1 /\ t \in Seq(WriteOps)
      /\ Head(q) = q[1] /\ q[1] \in WriteOps
      /\ \A n \in 1..(Len(q) - 1) : t[n] = q[n + 1]
  BY TailIndices
<1>2. /\ Len(q) <= N
      /\ \A n \in 1..Len(q) : q[n] = Write(EepromEnd - Len(q) + n - 1, 0)
      /\ \A i \in 1..(N - Len(q)) : e[MacroCell(i)] = 0
  BY DEF ClearingIn
<1>f. f = [e EXCEPT ![Head(q).address] = Head(q).value]
  OBVIOUS
<1> HIDE DEF t, f, N, A
<1>3. j \in 1..N /\ j - 1 = N - Len(q) /\ N - Len(t) = j
  BY <1>0, <1>1, <1>2
<1>4. MacroCell(j) = EepromEnd - Len(q) + 1 - 1
  BY <1>0, <1>1, <1>3
<1> HIDE DEF j
<1>5. q[1] = Write(MacroCell(j), 0)
  <2>1. 1 \in 1..Len(q)
    BY <1>1
  <2>2. q[1] = Write(EepromEnd - Len(q) + 1 - 1, 0)
    BY <1>2, <2>1
  <2> QED BY <1>4, <2>2
<1>6. f = [e EXCEPT ![MacroCell(j)] = 0]
  <2>1. Head(q).address = MacroCell(j) /\ Head(q).value = 0
    BY <1>1, <1>5, WriteIs
  <2> QED BY <1>f, <2>1, Zenon
<1>7. \A i \in 1..(j - 1) : e[MacroCell(i)] = 0
  BY <1>2, <1>3
<1>8. WholeIn(f)
  BY <1>3, <1>6, <1>7, ClearOne DEF N
<1>9. Len(t) <= N
  BY <1>0, <1>1, <1>2
<1>10. ASSUME NEW n \in 1..Len(t) PROVE t[n] = Write(EepromEnd - Len(t) + n - 1, 0)
  <2>1. n + 1 \in 1..Len(q) /\ n \in 1..(Len(q) - 1)
    BY <1>1
  <2>2. EepromEnd - Len(q) + (n + 1) - 1 = EepromEnd - Len(t) + n - 1
    BY <1>0, <1>1
  <2>3. q[n + 1] = Write(EepromEnd - Len(q) + (n + 1) - 1, 0)
    BY <1>2, <2>1
  <2>4. t[n] = q[n + 1]
    BY <1>1, <2>1
  <2> QED BY <2>2, <2>3, <2>4
<1>11. ASSUME NEW i \in 1..(N - Len(t)) PROVE f[MacroCell(i)] = 0
  <2>1. i \in 1..N /\ (i = j \/ i \in 1..(j - 1))
    <3>1. i \in 1..j
      BY <1>3
    <3>2. j \in 1..N
      BY <1>3
    <3> QED BY <1>0, <3>1, <3>2, UpTo, Zenon
  <2>2. MacroCell(i) \in Addresses /\ MacroCell(j) \in Addresses
        /\ (MacroCell(i) = MacroCell(j) => i = j)
    BY <1>3, <2>1, MacroCellIs DEF N
  <2> QED BY <1>6, <1>7, <2>1, <2>2
<1>12. ClearingIn(c, t, f)
  BY <1>9, <1>10, <1>11 DEF ClearingIn, N
<1> QED BY <1>8, <1>12 DEF t, f

\* eeprom_update_byte keeps the macro buffer whole or flagged.
LEMMA MacroWriteByte == KeymapInv /\ MacroInv /\ WriteByte => MacroInv'
<1> SUFFICES ASSUME KeymapInv, MacroInv, WriteByte PROVE MacroInv'
  OBVIOUS
<1> DEFINE f == [eeprom EXCEPT ![Head(todo).address] = Head(todo).value]
<1>w. /\ on /\ todo # <<>> /\ todo' = Tail(todo) /\ eeprom' = f
      /\ build' = build /\ command' = command /\ upload' = upload
  BY DEF WriteByte
<1>i. /\ TypeOK /\ todo \in Seq(WriteOps)
      /\ command = InitCommand => InitialisesIn(build, todo, eeprom)
  BY InvNow, Zenon
<1>t. eeprom \in [Addresses -> Byte] /\ build \in Builds
  BY <1>i DEF TypeOK
<1>m. /\ WholeIn(eeprom) /\ UploadingIn(upload, todo, eeprom)
      /\ FlaggingIn(command, todo, eeprom) /\ ClearingIn(command, todo, eeprom)
      /\ ElsewhereIn(command, todo)
  BY DEF MacroInv, Whole, Uploading, Flagging, Clearing, Elsewhere
<1>u. upload # NoUpload =>
          upload.sent \in Nat /\ upload.sent < DYNAMIC_KEYMAP_MACRO_EEPROM_SIZE
  BY <1>i, UploadIs
<1>1. /\ Len(todo) \in Nat /\ Len(todo) >= 1 /\ Len(todo') = Len(todo) - 1
      /\ Head(todo) = todo[1] /\ todo[1] \in WriteOps
      /\ \A n \in 1..(Len(todo) - 1) : todo'[n] = todo[n + 1]
  BY <1>i, <1>w, TailIndices
<1>2. \A a \in Addresses : f[a] = IF todo[1].address = a THEN todo[1].value ELSE eeprom[a]
  BY <1>t, <1>1 DEF WriteOps
<1>3. UploadingIn(upload', todo', eeprom')
  BY <1>i, <1>t, <1>m, <1>u, <1>w, UploadingStep
<1> HIDE DEF f
<1>4. ElsewhereIn(command', todo')
  <2>1. \A n \in 1..Len(todo') : n + 1 \in 1..Len(todo) /\ todo'[n] = todo[n + 1]
    BY <1>1
  <2> QED BY <1>m, <1>w, <2>1 DEF ElsewhereIn
<1>5. WholeIn(eeprom') /\ FlaggingIn(command', todo', eeprom')
      /\ ClearingIn(command', todo', eeprom')
  <2>1. CASE command.kind = "macros"
    <3>1. FlaggingIn(command', todo', eeprom') /\ WholeIn(eeprom')
      BY <1>i, <1>t, <1>m, <1>w, <2>1, FlaggingStep DEF f
    <3>2. ClearingIn(command', todo', eeprom')
      BY <1>w, <2>1 DEF ClearingIn
    <3> QED BY <3>1, <3>2
  <2>2. CASE command.kind = "macro_reset"
    <3>1. ClearingIn(command', todo', eeprom') /\ WholeIn(eeprom')
      BY <1>i, <1>t, <1>m, <1>w, <2>2, ClearingStep DEF f
    <3>2. FlaggingIn(command', todo', eeprom')
      BY <1>w, <2>2 DEF FlaggingIn
    <3> QED BY <3>1, <3>2
  <2>3. CASE command.kind # "macros" /\ command.kind # "macro_reset"
    <3>1. FlaggingIn(command', todo', eeprom') /\ ClearingIn(command', todo', eeprom')
      BY <1>w, <2>3 DEF FlaggingIn, ClearingIn
    <3>2. CASE command = InitCommand
      <4>1. InitialisesIn(build, todo', eeprom')
        BY <1>i, <1>t, <1>w, <3>2, InitialisesStep DEF f
      <4>2. \A a \in MacroCells : eeprom'[a] = 0
        BY <4>1 DEF InitialisesIn
      <4> QED BY <3>1, <4>2, BlankWhole
    <3>3. CASE command # InitCommand
      <4>1. 1 \in 1..Len(todo) /\ todo[1].address \notin MacroCells
        BY <1>1, <1>m, <2>3, <3>3 DEF ElsewhereIn
      <4>2. \A a \in MacroCells : eeprom'[a] = eeprom[a]
        BY <1>2, <1>w, <4>1, Regions
      <4> QED BY <1>m, <3>1, <4>2, SameWhole
    <3> QED BY <3>2, <3>3
  <2> QED BY <2>1, <2>2, <2>3
<1> QED BY <1>3, <1>4, <1>5 DEF MacroInv, Whole, Uploading, Flagging, Clearing, Elsewhere

\* Between commands, the macro buffer's invariant is about the buffer and upload.
LEMMA MacroQuiet ==
    ASSUME NEW c, c.kind # "macros", c.kind # "macro_reset", NEW q, q = <<>>, NEW e
    PROVE  FlaggingIn(c, q, e) /\ ClearingIn(c, q, e) /\ ElsewhereIn(c, q)
<1>1. Len(q) = 0
  OBVIOUS
<1> QED BY <1>1 DEF FlaggingIn, ClearingIn, ElsewhereIn

\* A step that only starts, stops or changes the firmware keeps the buffer.
LEMMA MacroOthers ==
    ASSUME KeymapInv, MacroInv,
           PowerOn \/ UploadAbort \/ ClearEeprom \/ PowerLoss \/ \E b \in Builds : Reflash(b)
    PROVE  MacroInv'
<1>i. /\ TypeOK
      /\ ~on => command = NoCommand /\ upload = NoUpload
      /\ command = NoCommand => todo = <<>>
  BY InvNow, Zenon
<1>m. /\ WholeIn(eeprom) /\ UploadingIn(upload, todo, eeprom)
      /\ FlaggingIn(command, todo, eeprom) /\ ClearingIn(command, todo, eeprom)
      /\ ElsewhereIn(command, todo)
  BY DEF MacroInv, Whole, Uploading, Flagging, Clearing, Elsewhere
<1>0. ASSUME WholeIn(eeprom'), UploadingIn(upload', todo', eeprom'),
             FlaggingIn(command', todo', eeprom'), ClearingIn(command', todo', eeprom'),
             ElsewhereIn(command', todo')
      PROVE  MacroInv'
  BY <1>0 DEF MacroInv, Whole, Uploading, Flagging, Clearing, Elsewhere
<1>z. \A a \in MacroCells : Zeroed[a] = 0
  BY Regions DEF Zeroed
<1>1. ASSUME WholeIn(eeprom'), upload' = NoUpload, command' = NoCommand, todo' = <<>>
      PROVE  MacroInv'
  <2>1. command'.kind # "macros" /\ command'.kind # "macro_reset"
    BY <1>1, CommandNames
  <2>2. UploadingIn(upload', todo', eeprom')
    BY <1>1, Zenon DEF UploadingIn
  <2> QED BY <1>0, <1>1, <2>1, <2>2, MacroQuiet
<1>2. CASE PowerOn
  <2>1. ~on /\ upload = NoUpload /\ command = NoCommand /\ todo = <<>> /\ upload' = upload
    BY <1>i, <1>2, Zenon DEF PowerOn
  <2>2. CASE Enabled
    <3>1. eeprom' = eeprom /\ todo' = todo /\ command' = command
      BY <1>2, <2>2 DEF PowerOn
    <3> QED BY <1>1, <1>m, <2>1, <3>1
  <2>3. CASE ~Enabled
    <3>1. eeprom' = Zeroed /\ command' = InitCommand
      BY <1>2, <2>3 DEF PowerOn
    <3>2. WholeIn(eeprom')
      BY <1>z, <3>1, BlankWhole
    <3>3. command'.kind # "macros" /\ command'.kind # "macro_reset"
      BY <3>1, CommandNames
    <3>4. UploadingIn(upload', todo', eeprom')
      BY <2>1, Zenon DEF UploadingIn
    <3>5. FlaggingIn(command', todo', eeprom') /\ ClearingIn(command', todo', eeprom')
          /\ ElsewhereIn(command', todo')
      BY <3>1, <3>3, Zenon DEF FlaggingIn, ClearingIn, ElsewhereIn
    <3> QED BY <1>0, <3>2, <3>4, <3>5
  <2> QED BY <2>2, <2>3
<1>3. CASE UploadAbort
  <2>1. upload' = NoUpload /\ eeprom' = eeprom /\ command' = command /\ todo' = todo
    BY <1>3 DEF UploadAbort
  <2>2. UploadingIn(upload', todo', eeprom')
    BY <2>1, Zenon DEF UploadingIn
  <2> QED BY <1>0, <1>m, <2>1, <2>2
<1>4. CASE ClearEeprom
  <2>1. /\ todo = <<>> /\ todo' = todo /\ command' = NoCommand /\ upload' = NoUpload
        /\ eeprom' = [Zeroed EXCEPT ![EECONFIG_MAGIC] = 255]
    BY <1>4, Zenon DEF ClearEeprom, Idle
  <2>2. \A a \in MacroCells : a # EECONFIG_MAGIC /\ a \in Addresses
    BY Layout, Regions
  <2>3. \A a \in MacroCells : eeprom'[a] = 0
    BY <1>z, <2>1, <2>2 DEF Zeroed
  <2>4. WholeIn(eeprom')
    BY <2>3, BlankWhole
  <2> QED BY <1>1, <2>1, <2>4
<1>5. CASE PowerLoss
  BY <1>1, <1>5, <1>m DEF PowerLoss
<1>6. CASE \E b \in Builds : Reflash(b)
  <2>1. ~on /\ eeprom' = eeprom /\ command' = command /\ todo' = todo /\ upload' = upload
    BY <1>6, Zenon DEF Reflash
  <2> QED BY <1>1, <1>i, <1>m, <2>1
<1> QED BY <1>2, <1>3, <1>4, <1>5, <1>6

\* When nothing is left to write, an upload's bytes are in place, and they stay in
\* place under writes elsewhere.
LEMMA UploadSettled ==
    ASSUME NEW u, u # NoUpload, NEW q, q = <<>>, NEW e, UploadingIn(u, q, e)
    PROVE  e[FlagCell] = 255 /\ \A i \in 1..u.sent : e[MacroCell(i)] = u.image[i]
<1>1. \A x, S : Fills(q, e, x, S) => e[x] \in S
  BY Settled
<1>2. /\ Fills(q, e, FlagCell, {255})
      /\ \A i \in 1..u.sent : Fills(q, e, MacroCell(i), {u.image[i]})
  BY Zenon DEF UploadingIn
<1>3. e[FlagCell] \in {255} /\ \A i \in 1..u.sent : e[MacroCell(i)] \in {u.image[i]}
  BY <1>1, <1>2, Zenon
<1> QED BY <1>3, Zenon

\* A command of the host leaves an upload alone, or resets the macros outside one.
LEMMA MacroHostCommand ==
    ASSUME NEW q \in Firmware[build].requests
    PROVE  KeymapInv /\ MacroInv /\ HostCommand(q) => MacroInv'
<1> SUFFICES ASSUME KeymapInv, MacroInv, HostCommand(q) PROVE MacroInv'
  OBVIOUS
<1>w. /\ on /\ todo = <<>> /\ command' = q /\ todo' = CommandWrites(q)
      /\ q.kind = "macro_reset" => upload = NoUpload
      /\ eeprom' = eeprom /\ build' = build /\ upload' = upload
  BY Zenon DEF HostCommand, Idle, Execute
<1>i. TypeOK
  BY InvNow, Zenon
<1>t. build \in Builds
  BY <1>i DEF TypeOK
<1>m. WholeIn(eeprom) /\ UploadingIn(upload, todo, eeprom)
  BY DEF MacroInv, Whole, Uploading
<1>1. todo' = WritesOf(build, q)
  BY <1>w, WritesAre
<1>2. /\ GoodWrites(build, q, todo') /\ q.kind \notin {"none", "init", "macros"}
      /\ q.kind = "macro_reset" => todo' = MacroReset
  BY <1>t, <1>1, RequestGood
<1>3. q.kind # "macro_reset" => \A n \in 1..Len(todo') : todo'[n].address \notin MacroCells
  BY <1>2, Zenon DEF GoodWrites
<1>4. ElsewhereIn(command', todo')
  BY <1>3, <1>w, Zenon DEF ElsewhereIn
<1>5. FlaggingIn(command', todo', eeprom')
  BY <1>2, <1>w DEF FlaggingIn
<1>6. ClearingIn(command', todo', eeprom')
  <2> SUFFICES ASSUME q.kind = "macro_reset" PROVE ClearingIn(command', todo', eeprom')
    BY <1>w, Zenon DEF ClearingIn
  <2> DEFINE N == DYNAMIC_KEYMAP_MACRO_EEPROM_SIZE
             A == DYNAMIC_KEYMAP_MACRO_EEPROM_ADDR
  <2>0. /\ N \in Nat /\ N >= 1 /\ A \in Nat /\ EepromEnd = A + N
        /\ \A i \in Int : MacroCell(i) = A + (i - 1)
    BY Layout DEF MacroCell
  <2>1. Len(todo') = N /\ \A i \in 1..N : todo'[i] = Write(MacroCell(i), 0)
    BY <1>2, MacroResetElements
  <2> HIDE DEF N, A
  <2>2. \A n \in 1..N : MacroCell(n) = EepromEnd - N + n - 1
    BY <2>0
  <2>3. \A n \in 1..Len(todo') : todo'[n] = Write(EepromEnd - Len(todo') + n - 1, 0)
    BY <2>1, <2>2
  <2>4. Len(todo') <= N /\ ~\E i \in 1..(N - Len(todo')) : TRUE
    BY <2>0, <2>1
  <2> QED BY <2>3, <2>4 DEF ClearingIn, N
<1>7. UploadingIn(upload', todo', eeprom')
  <2> SUFFICES ASSUME upload # NoUpload PROVE UploadingIn(upload', todo', eeprom')
    BY <1>w, Zenon DEF UploadingIn
  <2>1. /\ upload.sent \in Nat /\ upload.sent < DYNAMIC_KEYMAP_MACRO_EEPROM_SIZE
    BY <1>i, UploadIs
  <2>2. eeprom[FlagCell] = 255 /\ \A i \in 1..upload.sent : eeprom[MacroCell(i)] = upload.image[i]
    BY <1>m, <1>w, UploadSettled
  <2>3. \A i \in 1..upload.sent : i \in 1..DYNAMIC_KEYMAP_MACRO_EEPROM_SIZE
    BY <2>1, Layout
  <2>4. \A a \in MacroCells : \A n \in 1..Len(todo') : todo'[n].address # a
    BY <1>3, <1>w
  <2>5. Fills(todo', eeprom, FlagCell, {255})
    BY <2>2, <2>4, MacroCellIs, FillsElsewhere
  <2>6. ASSUME NEW i \in 1..upload.sent
        PROVE  Fills(todo', eeprom, MacroCell(i), {upload.image[i]})
    <3>1. MacroCell(i) \in MacroCells /\ eeprom[MacroCell(i)] = upload.image[i]
      BY <2>2, <2>3, MacroCellIs
    <3> QED BY <2>4, <3>1, FillsElsewhere
  <2> QED BY <1>w, <2>5, <2>6, Zenon DEF UploadingIn
<1>8. WholeIn(eeprom')
  BY <1>m, <1>w
<1> QED BY <1>4, <1>5, <1>6, <1>7, <1>8 DEF MacroInv, Whole, Uploading, Flagging, Clearing, Elsewhere

\* The writes of a macro buffer command.
LEMMA MacroWritesAre ==
    ASSUME NEW o \in Nat, NEW d \in Seq(Byte),
           \A i \in 1..Len(d) : d[i] \in MacroBytes[build],
           o + Len(d) <= DYNAMIC_KEYMAP_MACRO_EEPROM_SIZE,
           TypeOK, MacroSetBuffer(o, d)
    PROVE  /\ command'.kind = "macros" /\ todo' \in Seq(WriteOps) /\ Len(todo') = Len(d)
           /\ \A n \in 1..Len(todo') : todo'[n] = Write(MacroCell(o + n), d[n])
<1> DEFINE c == [kind |-> "macros", offset |-> o, data |-> d]
<1>w. command' = c /\ todo' = CommandWrites(c)
  BY Zenon DEF MacroSetBuffer, Execute
<1>t. build \in Builds
  BY DEF TypeOK
<1>0. c = [kind |-> "macros", offset |-> o, data |-> d]
  OBVIOUS
<1> HIDE DEF c
<1>1. c.kind = "macros" /\ WritesOf(build, c) = MacroBufferWrites(o, d)
  BY <1>0, MacroCommand
<1>2. todo' = MacroBufferWrites(o, d)
  BY <1>w, <1>1, WritesAre, Zenon
<1>3. /\ todo' \in Seq(WriteOps) /\ Len(todo') = Len(d)
      /\ \A n \in 1..Len(todo') : todo'[n] = Write(MacroCell(o + n), d[n])
  BY <1>t, <1>2, MacroBufferGood
<1> QED BY <1>w, <1>1, <1>3

\* An upload begins by setting the flag.
LEMMA MacroUploadBegin ==
    ASSUME NEW image \in Firmware[build].images
    PROVE  KeymapInv /\ MacroInv /\ UploadBegin(image) => MacroInv'
<1> SUFFICES ASSUME KeymapInv, MacroInv, UploadBegin(image) PROVE MacroInv'
  OBVIOUS
<1> DEFINE N == DYNAMIC_KEYMAP_MACRO_EEPROM_SIZE
           d == <<255>>
<1>w. /\ upload' = [image |-> image, sent |-> 0] /\ MacroSetBuffer(N - 1, d)
      /\ eeprom' = eeprom
  BY Zenon DEF UploadBegin
<1>i. TypeOK
  BY InvNow, Zenon
<1>t. build \in Builds
  BY <1>i DEF TypeOK
<1>m. WholeIn(eeprom')
  BY <1>w DEF MacroInv, Whole
<1>1. N \in Nat /\ N >= 1 /\ FlagCell = MacroCell(N)
  BY Layout, MacroCellIs
<1>2. d \in Seq(Byte) /\ Len(d) = 1 /\ d[1] = 255
  BY DEF Byte
<1>3. \A i \in 1..Len(d) : d[i] \in MacroBytes[build]
  BY <1>2, <1>t, DayBytes
<1>u. upload'.sent = 0
  BY <1>w
<1> HIDE DEF d
<1>4. N - 1 \in Nat /\ (N - 1) + Len(d) <= DYNAMIC_KEYMAP_MACRO_EEPROM_SIZE
  BY <1>1, <1>2
<1> HIDE DEF N
<1> DEFINE o == N - 1
<1>o. o \in Nat /\ o + Len(d) <= DYNAMIC_KEYMAP_MACRO_EEPROM_SIZE /\ MacroSetBuffer(o, d)
  BY <1>4, <1>w, Zenon
<1>d. d \in Seq(Byte)
  BY <1>2
<1> HIDE DEF o
<1>5. /\ command'.kind = "macros" /\ Len(todo') = Len(d)
      /\ \A n \in 1..Len(todo') : todo'[n] = Write(MacroCell(o + n), d[n])
  BY <1>3, <1>d, <1>o, <1>i, MacroWritesAre
<1>6. Len(todo') = 1 /\ todo'[1] = Write(FlagCell, 255)
  <2>1. o + 1 = N /\ 1 \in 1..1
    BY <1>1 DEF o
  <2> QED BY <1>1, <1>2, <1>5, <2>1
<1>7. todo'[1].address = FlagCell /\ todo'[1].value = 255
  BY <1>6, WriteIs
<1>8. Fills(todo', eeprom', FlagCell, {255})
  BY <1>6, <1>7 DEF Fills
<1>9. UploadingIn(upload', todo', eeprom')
  BY <1>8, <1>u DEF UploadingIn
<1>10. FlaggingIn(command', todo', eeprom')
  BY <1>6, Zenon DEF FlaggingIn
<1>11. ClearingIn(command', todo', eeprom') /\ ElsewhereIn(command', todo')
  BY <1>5 DEF ClearingIn, ElsewhereIn
<1> QED BY <1>m, <1>9, <1>10, <1>11 DEF MacroInv, Whole, Uploading, Flagging, Clearing, Elsewhere

\* A chunk goes to its place behind the bytes sent; the last one clears the flag,
\* and with it the image is complete.
LEMMA MacroUploadChunk == KeymapInv /\ MacroInv /\ UploadChunk => MacroInv'
<1> SUFFICES ASSUME KeymapInv, MacroInv, UploadChunk PROVE MacroInv'
  OBVIOUS
<1> DEFINE N == DYNAMIC_KEYMAP_MACRO_EEPROM_SIZE
           image == upload.image
           sent == upload.sent
           next == Min({sent + ChunkSize, Len(image)})
           d == SubSeq(image, sent + 1, next)
<1>w. /\ todo = <<>> /\ upload # NoUpload /\ MacroSetBuffer(sent, d)
      /\ upload' = IF next = Len(image) THEN NoUpload ELSE [upload EXCEPT !.sent = next]
      /\ eeprom' = eeprom
  BY Zenon DEF UploadChunk, Idle
<1>t. build \in Builds /\ TypeOK
  BY DEF KeymapInv, TypeOK
<1>m. WholeIn(eeprom') /\ UploadingIn(upload, todo, eeprom)
  BY <1>w DEF MacroInv, Whole, Uploading
<1>1. /\ image \in Firmware[build].images /\ sent \in Nat /\ sent < N
      /\ upload = [image |-> image, sent |-> sent]
  BY <1>w, <1>t, UploadIs
<1>2. /\ image \in Seq(Byte) /\ Len(image) = N /\ image \in KnownImages
      /\ \A i \in 1..N : image[i] \in MacroBytes[build]
  BY <1>t, <1>1, ImageIs
<1>n. /\ next = Min({sent + ChunkSize, Len(image)})
      /\ d = SubSeq(image, sent + 1, next)
  OBVIOUS
<1>3. eeprom[FlagCell] = 255 /\ \A i \in 1..sent : eeprom[MacroCell(i)] = image[i]
  BY <1>m, <1>w, UploadSettled
<1>u. next # Len(image) => upload'.image = image /\ upload'.sent = next
  BY <1>w, <1>1
<1>v. next = Len(image) => upload' = NoUpload
  BY <1>w
<1> HIDE DEF next, d, image, sent
<1>4. Chunk(image, sent, next, d)
  BY <1>1, <1>2, <1>n, ChunkIs
<1>5. /\ next \in Nat /\ sent < next /\ next <= N
      /\ d \in Seq(Byte) /\ Len(d) = next - sent
      /\ \A i \in 1..Len(d) : d[i] = image[sent + i] /\ sent + i \in 1..N
  BY <1>2, <1>4, Zenon DEF Chunk
<1>6. N \in Nat /\ N >= 1 /\ FlagCell = MacroCell(N)
  BY Layout, MacroCellIs
<1>7. \A i \in 1..Len(d) : d[i] \in MacroBytes[build]
  BY <1>2, <1>5
<1>8. sent + Len(d) <= DYNAMIC_KEYMAP_MACRO_EEPROM_SIZE
  BY <1>1, <1>5, <1>6
<1>c. /\ \A i \in 1..N : MacroCell(i) \in MacroCells
      /\ \A i, j \in 1..N : MacroCell(i) = MacroCell(j) => i = j
  BY MacroCellIs
<1> HIDE DEF N
<1>9. /\ command'.kind = "macros" /\ todo' \in Seq(WriteOps) /\ Len(todo') = Len(d)
      /\ \A n \in 1..Len(todo') : todo'[n] = Write(MacroCell(sent + n), d[n])
  BY <1>1, <1>5, <1>7, <1>8, <1>t, <1>w, MacroWritesAre, Zenon
<1>10. Len(todo') = next - sent /\ Len(todo') \in Nat /\ Len(todo') >= 1
  BY <1>1, <1>5, <1>9
<1>11. \A n \in 1..Len(todo') : /\ todo'[n].address = MacroCell(sent + n)
                                /\ todo'[n].value = image[sent + n] /\ sent + n \in 1..N
  BY <1>5, <1>9, WriteIs
<1>12. ASSUME NEW i \in 1..next PROVE Fills(todo', eeprom', MacroCell(i), {image[i]})
  <2>0. i \in 1..N
    BY <1>5, <1>6
  <2>1. \A n \in 1..Len(todo') : todo'[n].address = MacroCell(i) => sent + n = i
    BY <1>11, <1>c, <2>0
  <2>2. \A n \in 1..Len(todo') :
           todo'[n].address = MacroCell(i) => todo'[n].value \in {image[i]}
    BY <1>11, <2>1
  <2>3. CASE i <= sent
    <3>1. eeprom'[MacroCell(i)] \in {image[i]}
      BY <1>1, <1>3, <1>w, <2>3
    <3> QED BY <2>2, <3>1 DEF Fills
  <2>4. CASE i > sent
    <3>1. i - sent \in 1..Len(todo') /\ sent + (i - sent) = i
      BY <1>1, <1>5, <1>10, <2>4
    <3>2. todo'[i - sent].address = MacroCell(i)
      BY <1>11, <3>1
    <3> QED BY <2>2, <3>1, <3>2 DEF Fills
  <2> QED BY <1>1, <2>3, <2>4
<1>13. \A n \in 1..Len(todo') : todo'[n].address = FlagCell => sent + n = N
  BY <1>6, <1>11, <1>c
<1>14. \A n \in 1..(Len(todo') - 1) : todo'[n].address # FlagCell
  <2> TAKE n \in 1..(Len(todo') - 1)
  <2>1. n \in 1..Len(todo') /\ sent + n # N
    BY <1>1, <1>5, <1>6, <1>10
  <2> QED BY <1>13, <2>1
<1>15. eeprom'[FlagCell] # 0
  BY <1>3, <1>w
<1>16. CASE next = N
  <2>1. \A i \in 1..N : Fills(todo', eeprom', MacroCell(i), {image[i]})
    BY <1>12, <1>16
  <2>2. CompletesIn(todo', eeprom')
    BY <1>2, <2>1, Zenon DEF CompletesIn, N
  <2>3. FlaggingIn(command', todo', eeprom')
    BY <1>14, <1>15, <2>2, Zenon DEF FlaggingIn
  <2>4. UploadingIn(upload', todo', eeprom')
    BY <1>2, <1>16, <1>v, Zenon DEF UploadingIn
  <2>5. ClearingIn(command', todo', eeprom') /\ ElsewhereIn(command', todo')
    BY <1>9 DEF ClearingIn, ElsewhereIn
  <2> QED BY <1>m, <2>3, <2>4, <2>5
          DEF MacroInv, Whole, Uploading, Flagging, Clearing, Elsewhere
<1>17. CASE next # N
  <2>1. \A n \in 1..Len(todo') : todo'[n].address # FlagCell
    <3> TAKE n \in 1..Len(todo')
    <3>1. sent + n # N
      BY <1>1, <1>5, <1>6, <1>10, <1>17
    <3> QED BY <1>13, <3>1
  <2>2. FlaggingIn(command', todo', eeprom')
    <3>1. Len(todo') \in 1..Len(todo')
      BY <1>10
    <3> QED BY <1>14, <1>15, <2>1, <3>1, Zenon DEF FlaggingIn
  <2>3. eeprom'[FlagCell] \in {255}
    BY <1>3, <1>w
  <2>4. Fills(todo', eeprom', FlagCell, {255})
    BY <2>1, <2>3, FillsElsewhere
  <2>5. upload'.image = image /\ upload'.sent = next
    BY <1>2, <1>17, <1>u
  <2>6. UploadingIn(upload', todo', eeprom')
    BY <1>12, <2>4, <2>5, Zenon DEF UploadingIn
  <2>7. ClearingIn(command', todo', eeprom') /\ ElsewhereIn(command', todo')
    BY <1>9 DEF ClearingIn, ElsewhereIn
  <2> QED BY <1>m, <2>2, <2>6, <2>7
          DEF MacroInv, Whole, Uploading, Flagging, Clearing, Elsewhere
<1> QED BY <1>16, <1>17

\* The macro buffer's invariant holds at first.
LEMMA MacroInvInit == Init => MacroInv
<1> SUFFICES ASSUME Init PROVE MacroInv
  OBVIOUS
<1>1. eeprom = Zeroed /\ command = NoCommand /\ todo = <<>> /\ upload = NoUpload
  BY DEF Init
<1>2. \A a \in MacroCells : eeprom[a] = 0
  BY <1>1, Regions DEF Zeroed
<1>3. WholeIn(eeprom)
  BY <1>2, BlankWhole
<1>4. UploadingIn(upload, todo, eeprom)
  BY <1>1, Zenon DEF UploadingIn
<1>5. FlaggingIn(command, todo, eeprom) /\ ClearingIn(command, todo, eeprom)
      /\ ElsewhereIn(command, todo)
  BY <1>1, CommandNames, MacroQuiet
<1> QED BY <1>3, <1>4, <1>5 DEF MacroInv, Whole, Uploading, Flagging, Clearing, Elsewhere

\* Every step keeps the macro buffer's invariant.
LEMMA MacroInvNext == KeymapInv /\ MacroInv /\ [Next]_vars => MacroInv'
<1> SUFFICES ASSUME KeymapInv, MacroInv, [Next]_vars PROVE MacroInv'
  OBVIOUS
<1>1. CASE UNCHANGED vars
  BY <1>1 DEF vars, MacroInv, Whole, Uploading, Flagging, Clearing, Elsewhere
<1>2. CASE \E q \in Firmware[build].requests : HostCommand(q)
  BY <1>2, MacroHostCommand
<1>3. CASE \E image \in Firmware[build].images : UploadBegin(image)
  BY <1>3, MacroUploadBegin
<1>4. CASE PowerOn \/ UploadAbort \/ ClearEeprom \/ PowerLoss \/ \E b \in Builds : Reflash(b)
  BY <1>4, MacroOthers
<1> QED BY <1>1, <1>2, <1>3, <1>4, MacroWriteByte, MacroUploadChunk, Zenon DEF Next

\* The macro buffer's invariant: at every moment it is flagged as being written, or
\* it is one whole buffer that a host uploaded or a reset left.
THEOREM MacroInvariant == Spec => []MacroInv
BY MacroInvInit, MacroInvNext, KeymapInvariant, PTL DEF Spec

-----------------------------------------------------------------------------
(* What a macro key sends.                                                 *)

\* A set of natural numbers has a least element.
LEMMA LeastExists ==
    ASSUME NEW S, S \subseteq Nat, S # {}
    PROVE  Min(S) \in S /\ \A y \in S : Min(S) <= y
<1> DEFINE Less == {ss \in Nat \X Nat : ss[1] < ss[2]}
<1>1. OpToRel(<, Nat) = Less
  BY Zenon DEF OpToRel
<1>2. IsWellFoundedOn(OpToRel(<, Nat), Nat)
  BY NatLessThanWellFounded
<1>3. IsWellFoundedOn(Less, Nat)
  BY <1>1, <1>2, Zenon
<1>4. \A x, y \in Nat : y < x => <<y, x>> \in Less
  OBVIOUS
<1> HIDE DEF Less
<1>5. PICK x \in S : \A y \in S : ~ (<<y, x>> \in Less)
  BY <1>3, WFMin
<1>6. \A y \in S : x <= y
  <2> TAKE y \in S
  <2>1. x \in Nat /\ y \in Nat
    OBVIOUS
  <2>2. ~(y < x)
    BY <1>4, <1>5, <2>1, Zenon
  <2> QED BY <2>1, <2>2
<1>7. \E z \in S : \A y \in S : z =< y
  BY <1>5, <1>6
<1> QED BY <1>7 DEF Min

\* The zero bytes among the first p of an image, and their number.
Zeros(image, p) == {i \in 1..p : image[i] = 0}
Count(image, p) == Cardinality(Zeros(image, p))

\* The number of zero bytes counts up at each of them.
LEMMA CountStep ==
    ASSUME NEW image
    PROVE  /\ Count(image, 0) = 0
           /\ \A p \in Nat : Count(image, p) \in Nat /\ IsFiniteSet(Zeros(image, p))
           /\ \A p \in Nat : Count(image, p + 1) =
                 Count(image, p) + (IF image[p + 1] = 0 THEN 1 ELSE 0)
           /\ \A p, r \in Nat : p <= r => Count(image, p) <= Count(image, r)
<1>1. Zeros(image, 0) = {}
  BY DEF Zeros
<1>2. Count(image, 0) = 0
  BY <1>1, FS_EmptySet DEF Count
<1>3. ASSUME NEW p \in Nat PROVE IsFiniteSet(Zeros(image, p)) /\ Count(image, p) \in Nat
  <2>1. IsFiniteSet(1..p) /\ Zeros(image, p) \in SUBSET (1..p)
    BY FS_Interval DEF Zeros
  <2>2. IsFiniteSet(Zeros(image, p))
    BY <2>1, FS_Subset
  <2> QED BY <2>2, FS_CardinalityType DEF Count
<1>4. ASSUME NEW p \in Nat
      PROVE  Count(image, p + 1) = Count(image, p) + (IF image[p + 1] = 0 THEN 1 ELSE 0)
  <2> DEFINE Z == Zeros(image, p)
  <2>1. IsFiniteSet(Z) /\ Cardinality(Z) \in Nat
    BY <1>3 DEF Count
  <2>2. p + 1 \notin Z
    BY DEF Zeros
  <2>3. CASE image[p + 1] = 0
    <3>1. Zeros(image, p + 1) = Z \cup {p + 1}
      BY <2>3 DEF Zeros
    <3> HIDE DEF Z
    <3>2. Cardinality(Z \cup {p + 1}) = Cardinality(Z) + 1
      BY <2>1, <2>2, FS_AddElement
    <3> QED BY <2>3, <3>1, <3>2 DEF Count, Z
  <2>4. CASE image[p + 1] # 0
    <3>1. Zeros(image, p + 1) = Z
      BY <2>4 DEF Zeros
    <3> QED BY <2>1, <2>4, <3>1 DEF Count
  <2> QED BY <2>3, <2>4
<1>5. ASSUME NEW p \in Nat, NEW r \in Nat, p <= r PROVE Count(image, p) <= Count(image, r)
  <2>1. Zeros(image, p) \in SUBSET Zeros(image, r)
    BY <1>5 DEF Zeros
  <2>2. IsFiniteSet(Zeros(image, r))
    BY <1>3
  <2> QED BY <2>1, <2>2, FS_Subset, Zenon DEF Count
<1> QED BY <1>2, <1>3, <1>4, <1>5

\* The running count of dynamic_keymap_macro_send's search, on the bytes z.
Passes(z, n, g) ==
    g = [o \in 0..n |-> IF o = 0 THEN 0 ELSE g[o - 1] + (IF z[o - 1] = 0 THEN 1 ELSE 0)]

\* z holds the image, counted from zero; and the search counts its zero bytes.
Shifted(z, n, image) == \A o \in 0..(n - 1) : z[o] = image[o + 1]
CountsZeros(z, n, image) ==
    /\ \E g : Passes(z, n, g)
    /\ \A g : Passes(z, n, g) => \A o \in 0..n : g[o] = Count(image, o)

\* It counts the zero bytes before each offset.
LEMMA PassesCounts ==
    ASSUME NEW n \in Nat, NEW z, NEW image, Shifted(z, n, image)
    PROVE  CountsZeros(z, n, image)
<1>s. \A o \in 0..(n - 1) : z[o] = image[o + 1]
  BY DEF Shifted
<1>c. /\ Count(image, 0) = 0
      /\ \A p \in Nat : Count(image, p) \in Nat
      /\ \A p \in Nat : Count(image, p + 1) =
            Count(image, p) + (IF image[p + 1] = 0 THEN 1 ELSE 0)
  BY CountStep
<1>z. \A o \in 0..n : o # 0 =>
        /\ o - 1 \in 0..n /\ o - 1 \in Nat
        /\ Count(image, o) = Count(image, o - 1) + (IF z[o - 1] = 0 THEN 1 ELSE 0)
  <2> TAKE o \in 0..n
  <2> HAVE o # 0
  <2>1. o - 1 \in 0..(n - 1) /\ o - 1 \in 0..n /\ o - 1 \in Nat /\ (o - 1) + 1 = o
    OBVIOUS
  <2>2. z[o - 1] = image[o]
    BY <1>s, <2>1
  <2>3. Count(image, (o - 1) + 1) =
            Count(image, o - 1) + (IF image[(o - 1) + 1] = 0 THEN 1 ELSE 0)
    BY <1>c, <2>1
  <2> QED BY <2>1, <2>2, <2>3
<1>1. \E g : Passes(z, n, g)
  <2> DEFINE h == [o \in 0..n |-> Count(image, o)]
  <2>1. \A o \in 0..n : h[o] = Count(image, o)
    OBVIOUS
  <2>0. h = [o \in 0..n |-> h[o]]
    OBVIOUS
  <2> HIDE DEF h
  <2>2. \A o \in 0..n :
           h[o] = IF o = 0 THEN 0 ELSE h[o - 1] + (IF z[o - 1] = 0 THEN 1 ELSE 0)
    BY <1>c, <1>z, <2>1
  <2>3. Passes(z, n, h)
    BY <2>0, <2>2, Zenon DEF Passes
  <2> QED BY <2>3
<1>2. ASSUME NEW g, Passes(z, n, g) PROVE \A o \in 0..n : g[o] = Count(image, o)
  <2>1. \A o \in 0..n : g[o] = IF o = 0 THEN 0 ELSE g[o - 1] + (IF z[o - 1] = 0 THEN 1 ELSE 0)
    BY <1>2, Zenon DEF Passes
  <2> DEFINE S == {o \in Nat : o <= n => g[o] = Count(image, o)}
  <2>2. 0 \in S
    BY <1>c, <2>1
  <2>3. ASSUME NEW m \in Nat, m \in S PROVE m + 1 \in S
    <3> SUFFICES ASSUME m + 1 <= n PROVE g[m + 1] = Count(image, m + 1)
      OBVIOUS
    <3>1. m + 1 \in 0..n /\ m + 1 # 0 /\ (m + 1) - 1 = m /\ m <= n
      OBVIOUS
    <3>2. g[m] = Count(image, m)
      BY <2>3, <3>1
    <3>3. g[m + 1] = g[m] + (IF z[m] = 0 THEN 1 ELSE 0)
      BY <2>1, <3>1
    <3>4. Count(image, m + 1) = Count(image, m) + (IF z[m] = 0 THEN 1 ELSE 0)
      BY <1>z, <3>1
    <3> QED BY <3>2, <3>3, <3>4
  <2>4. Nat \subseteq S
    <3> HIDE DEF S
    <3> QED BY <2>2, <2>3, NatSetInduction
  <2> QED BY <2>4
<1> QED BY <1>1, <1>2 DEF CountsZeros

\* The offsets behind `id` zero bytes.
Behind(image, n, id) == {o \in 0..n : Count(image, o) = id}

\* The one start of a string is the first of the offsets S.
StartsAtFirst(image, id, S) ==
    /\ S = {} <=> Starts(image, id) = {}
    /\ S # {} => Starts(image, id) = {Min(S)}

\* The first offset behind `id` zero bytes is the one start of that string.
LEMMA FirstIsStart ==
    ASSUME NEW image, NEW n \in Nat, Len(image) = n, NEW id \in Nat,
           NEW behind, behind = Behind(image, n, id)
    PROVE  StartsAtFirst(image, id, behind)
<1>c. /\ \A p \in Nat : Count(image, p) \in Nat
      /\ \A p \in Nat : Count(image, p + 1) =
            Count(image, p) + (IF image[p + 1] = 0 THEN 1 ELSE 0)
      /\ \A p, r \in Nat : p <= r => Count(image, p) <= Count(image, r)
  BY CountStep
<1>1. \A p : p \in Starts(image, id) <=>
        p \in 0..n /\ (p = 0 \/ image[p] = 0) /\ Count(image, p) = id
  BY Zenon DEF Starts, Count, Zeros
<1>2. \A p : p \in behind <=> p \in 0..n /\ Count(image, p) = id
  BY DEF Behind
<1>3. Starts(image, id) \subseteq behind /\ behind \subseteq Nat
  BY <1>1, <1>2
<1> HIDE DEF Starts
<1>4. ASSUME behind # {} PROVE Starts(image, id) = {Min(behind)}
  <2> DEFINE m == Min(behind)
  <2>1. m \in behind /\ \A y \in behind : m <= y
    BY <1>3, <1>4, LeastExists
  <2> HIDE DEF m
  <2>2. m \in 0..n /\ Count(image, m) = id
    BY <1>2, <2>1
  <2>3. m \in Starts(image, id)
    <3> SUFFICES ASSUME m # 0, image[m] # 0 PROVE FALSE
      BY <1>1, <2>2
    <3>1. m - 1 \in 0..n /\ m - 1 \in Nat /\ (m - 1) + 1 = m /\ ~(m <= m - 1)
      BY <2>2
    <3>2. Count(image, (m - 1) + 1) = Count(image, m - 1)
      <4>1. Count(image, m - 1) \in Nat
        BY <1>c, <3>1
      <4>2. Count(image, (m - 1) + 1)
              = Count(image, m - 1) + (IF image[(m - 1) + 1] = 0 THEN 1 ELSE 0)
        BY <1>c, <3>1, Zenon
      <4> QED BY <3>1, <4>1, <4>2
    <3>3. m - 1 \in behind
      BY <1>2, <2>2, <3>1, <3>2
    <3> QED BY <2>1, <3>1, <3>3
  <2>4. ASSUME NEW p \in Starts(image, id) PROVE p = m
    <3>1. p \in 0..n /\ (p = 0 \/ image[p] = 0) /\ Count(image, p) = id /\ m <= p
      BY <1>1, <1>3, <2>1
    <3> SUFFICES ASSUME p # m PROVE FALSE
      OBVIOUS
    <3>2. p # 0 /\ p - 1 \in Nat /\ (p - 1) + 1 = p /\ m <= p - 1 /\ m \in Nat
      BY <2>2, <3>1
    <3>3. Count(image, (p - 1) + 1) = Count(image, p - 1) + 1
      BY <1>c, <3>1, <3>2
    <3>4. Count(image, m) <= Count(image, p - 1)
      BY <1>c, <3>2
    <3>5. Count(image, p - 1) \in Nat
      BY <1>c, <3>2
    <3> QED BY <2>2, <3>1, <3>2, <3>3, <3>4, <3>5
  <2> QED BY <2>3, <2>4 DEF m
<1> QED BY <1>3, <1>4 DEF StartsAtFirst

\* A known image, and one with a cleared beginning, is a buffer of bytes.
LEMMA ClearedIs ==
    ASSUME NEW image \in KnownImages, NEW k
    PROVE  Len(Cleared(image, k)) = DYNAMIC_KEYMAP_MACRO_EEPROM_SIZE
<1> DEFINE N == DYNAMIC_KEYMAP_MACRO_EEPROM_SIZE
<1>0. N \in Nat /\ 0 \in Byte
  BY Layout DEF Byte
<1>1. DOMAIN image = 1..N /\ \A i \in 1..N : image[i] \in Byte
  <2>1. CASE image = Blank
    BY <1>0, <2>1 DEF Blank
  <2>2. CASE image # Blank
    <3>1. PICK b \in Builds : image \in Firmware[b].images
      BY <2>2 DEF KnownImages
    <3> QED BY <3>1, ImageIs
  <2> QED BY <2>1, <2>2
<1> HIDE DEF N
<1>2. Cleared(image, k) \in [1..N -> Byte]
  BY <1>0, <1>1 DEF Cleared
<1>3. Len(Cleared(image, k)) = N
  BY <1>0, <1>2, FunctionIsSeq
<1> QED BY <1>3 DEF N

\* The bytes the getter returns.
MacroBytesNow == [o \in 0..(DYNAMIC_KEYMAP_MACRO_EEPROM_SIZE - 1) |-> MacroByte(o)]

\* dynamic_keymap_macro_send's search, with the running count named.
LEMMA MacroStartIs ==
    ASSUME NEW id
    PROVE  LET g == CHOOSE h : Passes(MacroBytesNow, DYNAMIC_KEYMAP_MACRO_EEPROM_SIZE, h)
               behind == {o \in 0..DYNAMIC_KEYMAP_MACRO_EEPROM_SIZE : g[o] = id}
           IN  MacroStart(id) = IF behind = {} THEN -1 ELSE Min(behind)
<1> DEFINE N == DYNAMIC_KEYMAP_MACRO_EEPROM_SIZE
           z == MacroBytesNow
           R(h) == h = [o \in 0..N |-> IF o = 0 THEN 0
                            ELSE h[o - 1] + (IF MacroByte(o - 1) = 0 THEN 1 ELSE 0)]
<1>0. N \in Nat
  BY Layout
<1>1. \A o \in 0..N : o # 0 => z[o - 1] = MacroByte(o - 1)
  <2> TAKE o \in 0..N
  <2> HAVE o # 0
  <2>1. o - 1 \in 0..(N - 1)
    BY <1>0
  <2> QED BY <2>1 DEF MacroBytesNow
<1>2. \A h : R(h) <=> Passes(z, N, h)
  <2> HIDE DEF z, N
  <2> TAKE h
  <2>1. \A o \in 0..N :
          (IF o = 0 THEN 0 ELSE h[o - 1] + (IF MacroByte(o - 1) = 0 THEN 1 ELSE 0))
           = (IF o = 0 THEN 0 ELSE h[o - 1] + (IF z[o - 1] = 0 THEN 1 ELSE 0))
    BY <1>1
  <2>2. [o \in 0..N |-> IF o = 0 THEN 0
                        ELSE h[o - 1] + (IF MacroByte(o - 1) = 0 THEN 1 ELSE 0)]
         = [o \in 0..N |-> IF o = 0 THEN 0 ELSE h[o - 1] + (IF z[o - 1] = 0 THEN 1 ELSE 0)]
    BY <2>1
  <2> QED BY <2>2, Zenon DEF Passes
<1>3. (CHOOSE h : R(h)) = (CHOOSE h : Passes(z, N, h))
  <2> HIDE DEF R, z, N
  <2> QED BY <1>2
<1> DEFINE g == CHOOSE h : R(h)
           behind == {o \in 0..N : g[o] = id}
<1>4. MacroStart(id) = IF behind = {} THEN -1 ELSE Min(behind)
  BY DEF MacroStart
<1> QED BY <1>3, <1>4, Zenon

\* With the flag set nothing is sent.
LEMMA FlaggedSendsNothing ==
    ASSUME NEW id, eeprom[FlagCell] # 0
    PROVE  MacroSend(id) = <<>>
<1>1. MacroByte(DYNAMIC_KEYMAP_MACRO_EEPROM_SIZE - 1) = eeprom[FlagCell]
  <2>1. /\ DYNAMIC_KEYMAP_MACRO_EEPROM_SIZE - 1 < DYNAMIC_KEYMAP_MACRO_EEPROM_SIZE
        /\ DYNAMIC_KEYMAP_MACRO_EEPROM_ADDR + (DYNAMIC_KEYMAP_MACRO_EEPROM_SIZE - 1) = FlagCell
    BY Layout DEF FlagCell
  <2> QED BY <2>1 DEF MacroByte
<1>2. ~Sendable
  BY <1>1 DEF Sendable
<1> QED BY <1>2 DEF MacroSend

\* Without it, a macro key sends its string of the buffer.
LEMMA SendsNth ==
    ASSUME NEW image, Len(image) = DYNAMIC_KEYMAP_MACRO_EEPROM_SIZE,
           Holds(eeprom, image), eeprom[FlagCell] = 0, NEW id \in MacroIds
    PROVE  MacroSend(id) = NthMacro(image, id)
<1> DEFINE N == DYNAMIC_KEYMAP_MACRO_EEPROM_SIZE
           A == DYNAMIC_KEYMAP_MACRO_EEPROM_ADDR
           z == MacroBytesNow
           g == CHOOSE h : Passes(z, N, h)
           behind == {o \in 0..N : g[o] = id}
           bytes == [o \in 0..(Reach + 2) |-> IF o < Len(image) THEN image[o + 1] ELSE 0]
           start == CHOOSE p \in Starts(image, id) : TRUE
<1>0. /\ N \in Nat /\ N >= 1 /\ A \in Nat /\ FlagCell = A + (N - 1)
      /\ \A i \in Int : MacroCell(i) = A + (i - 1)
  BY Layout DEF MacroCell, FlagCell
<1>1. id \in Nat /\ ~(id >= DYNAMIC_KEYMAP_MACRO_COUNT)
  BY SizesAreSane DEF MacroIds
<1>2. \A i \in 1..N : eeprom[MacroCell(i)] = image[i]
  BY DEF Holds
<1>3. \A o \in 0..(N - 1) : MacroByte(o) = image[o + 1]
  <2> TAKE o \in 0..(N - 1)
  <2>1. o + 1 \in 1..N /\ MacroCell(o + 1) = A + o /\ o < N
    <3>1. o + 1 \in 1..N /\ o + 1 \in Int /\ (o + 1) - 1 = o /\ o < N
      BY <1>0
    <3> QED BY <1>0, <3>1
  <2>2. MacroByte(o) = eeprom[A + o]
    BY <2>1 DEF MacroByte
  <2> QED BY <1>2, <2>1, <2>2
<1>4. \A o \in 0..(N - 1) : z[o] = image[o + 1]
  BY <1>3 DEF MacroBytesNow
<1>5. /\ \E h : Passes(z, N, h)
      /\ \A h : Passes(z, N, h) => \A o \in 0..N : h[o] = Count(image, o)
  <2>1. N \in Nat
    BY <1>0
  <2>2. Shifted(z, N, image)
    BY <1>4 DEF Shifted
  <2> HIDE DEF z, N
  <2>3. CountsZeros(z, N, image)
    BY <2>1, <2>2, PassesCounts
  <2> QED BY <2>3, Zenon DEF CountsZeros
<1>6. \A o \in 0..N : g[o] = Count(image, o)
  <2> HIDE DEF z, N
  <2>1. Passes(z, N, g)
    BY <1>5
  <2> HIDE DEF g
  <2> QED BY <1>5, <2>1
<1>7. behind = {o \in 0..N : Count(image, o) = id}
  BY <1>6
<1>8. MacroStart(id) = IF behind = {} THEN -1 ELSE Min(behind)
  BY MacroStartIs, Zenon
<1> HIDE DEF behind
<1>9. /\ behind = {} <=> Starts(image, id) = {}
      /\ behind # {} => Starts(image, id) = {Min(behind)}
  <2>1. N \in Nat /\ Len(image) = N /\ id \in Nat
    BY <1>0, <1>1
  <2> HIDE DEF N
  <2>2. behind = Behind(image, N, id)
    BY <1>7 DEF Behind
  <2>3. StartsAtFirst(image, id, behind)
    BY <2>1, <2>2, FirstIsStart
  <2> QED BY <2>3, Zenon DEF StartsAtFirst
<1>10. Sendable
  <2>1. N - 1 < N
    BY <1>0
  <2>2. MacroByte(N - 1) = eeprom[FlagCell]
    BY <1>0, <2>1 DEF MacroByte
  <2> QED BY <2>2 DEF Sendable
<1>11. Buffer = bytes
  <2>1. ASSUME NEW o \in 0..(Reach + 2)
        PROVE  MacroByte(o) = IF o < Len(image) THEN image[o + 1] ELSE 0
    <3>1. CASE o < N
      <4>1. o \in 0..(N - 1)
        BY <1>0, <3>1 DEF Reach
      <4> QED BY <1>3, <3>1, <4>1
    <3>2. CASE ~(o < N)
      BY <3>2 DEF MacroByte
    <3> QED BY <3>1, <3>2
  <2> QED BY <2>1 DEF Buffer
<1>12. NthMacro(image, id) = IF Starts(image, id) = {} THEN <<>> ELSE SendString(bytes, start)
  BY DEF NthMacro
<1>13. MacroSend(id) = IF MacroStart(id) = -1 THEN <<>> ELSE SendString(Buffer, MacroStart(id))
  BY <1>1, <1>10, Zenon DEF MacroSend
<1> HIDE DEF bytes, start
<1>14. CASE behind = {}
  BY <1>8, <1>9, <1>12, <1>13, <1>14
<1>15. CASE behind # {}
  <2>1. start = Min(behind)
    BY <1>9, <1>15 DEF start
  <2>2. Min(behind) # -1
    <3>1. behind \subseteq Nat
      BY <1>0, <1>7
    <3>2. Min(behind) \in Nat
      BY <1>15, <3>1, LeastExists
    <3> QED BY <3>2
  <2>3. Starts(image, id) # {}
    BY <1>9, <1>15
  <2>4. MacroStart(id) = Min(behind)
    BY <1>8, <1>15
  <2> QED BY <1>11, <1>12, <1>13, <2>1, <2>2, <2>3, <2>4, Zenon
<1> QED BY <1>14, <1>15

\* A buffer that is flagged or whole sends nothing or whole macros.
LEMMA WholeSends == MacroInv => SendsWholeMacros
<1> SUFFICES ASSUME MacroInv
             PROVE  \/ \A id \in MacroIds : [i \in MacroIds |-> MacroSend(i)][id] = <<>>
                    \/ [i \in MacroIds |-> MacroSend(i)] \in WholeBuffers
  BY Zenon DEF SendsWholeMacros
<1>1. WholeIn(eeprom)
  BY DEF MacroInv, Whole
<1>2. CASE eeprom[FlagCell] # 0
  BY <1>2, FlaggedSendsNothing
<1>3. CASE eeprom[FlagCell] = 0
  <2>1. PICK image \in KnownImages, k \in 0..DYNAMIC_KEYMAP_MACRO_EEPROM_SIZE :
           Holds(eeprom, Cleared(image, k))
    BY <1>1, <1>3, Zenon DEF WholeIn
  <2>2. \A id \in MacroIds : MacroSend(id) = NthMacro(Cleared(image, k), id)
    BY <1>3, <2>1, ClearedIs, SendsNth, Zenon
  <2> DEFINE sends == [i \in MacroIds |-> MacroSend(i)]
             whole == [id \in MacroIds |-> NthMacro(Cleared(image, k), id)]
  <2>3. sends = whole
    BY <2>2
  <2>4. whole \in WholeBuffers
    BY DEF WholeBuffers
  <2>5. sends \in WholeBuffers
    BY <2>3, <2>4, Zenon
  <2> QED BY <2>5, Zenon
<1> QED BY <1>2, <1>3

\* "so macro sending is disabled during writing a new buffer": whenever a macro
\* key is pressed, nothing is sent or every key sends its own macro of one whole
\* buffer, for every size of the buffer and of the chunks, every set of images and
\* every order of uploads, aborts, resets and power failures.
THEOREM SendsWholeAlways == Spec => []SendsWholeMacros
BY WholeSends, MacroInvariant, PTL
=============================================================================
