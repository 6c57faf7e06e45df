-------------------------- MODULE WearLevelingProofs --------------------------
(***************************************************************************)
(* Proofs about WearLeveling, for every size of the store and of its       *)
(* backing flash, every block a client may write and any number of failed  *)
(* flash operations.                                                       *)
(***************************************************************************)
EXTENDS WearLeveling, SequenceTheorems, WellFoundedInduction, TLAPS

-----------------------------------------------------------------------------
(* Sizes, counted in words.                                                *)

\* The first word behind the backing store, and the first of the log.
EndWord   == WEAR_LEVELING_BACKING_SIZE \div BACKING_STORE_WRITE_SIZE
FirstWord == DataWords + 2
Words     == [1..4 -> Byte]

\* The STATIC_ASSERTs make every boundary a whole number of words.
LEMMA Sizes ==
    /\ DataWords \in Nat \ {0} /\ MaxFaults \in Nat
    /\ WEAR_LEVELING_LOGICAL_SIZE = 4 * DataWords
    /\ WEAR_LEVELING_LOGICAL_SIZE \in Nat
    /\ WEAR_LEVELING_LOGICAL_SIZE <= MaxLogicalSize
    /\ LogStart = 4 * FirstWord /\ FirstWord = DataWords + 2
    /\ EndWord \in Nat /\ WEAR_LEVELING_BACKING_SIZE = 4 * EndWord
    /\ EndWord > FirstWord
    /\ FlashWords = 0..(EndWord + MaxFaults)
<1> DEFINE L == WEAR_LEVELING_LOGICAL_SIZE
           B == WEAR_LEVELING_BACKING_SIZE
<1>0. MaxLogicalSize \in Nat
  BY SMT DEF MaxLogicalSize
<1>1. /\ L \in Nat \ {0} /\ L <= MaxLogicalSize /\ B \in Nat /\ L % 4 = 0 /\ B % L = 0
      /\ B > L + 8 /\ MaxFaults \in Nat
  BY <1>0, StoreSizes DEF BACKING_STORE_WRITE_SIZE, LogStart
<1>2. DataWords = L \div 4 /\ EndWord = B \div 4
  BY DEF DataWords, EndWord, BACKING_STORE_WRITE_SIZE
<1>3. FlashWords = 0..(EndWord + MaxFaults)
  BY DEF FlashWords, EndWord
<1>4. LogStart = L + 8 /\ FirstWord = DataWords + 2
  BY DEF LogStart, FirstWord
<1> HIDE DEF L, B
<1>5. L = 4 * DataWords /\ DataWords \in Nat \ {0}
  BY <1>1, <1>2
<1>6. B % 4 = 0
  <2>1. PICK k \in Nat : B = k * L
    BY <1>1
  <2>2. B = 4 * (k * DataWords) /\ k * DataWords \in Nat
    BY <1>5, <2>1
  <2> QED BY <2>2
<1>7. B = 4 * EndWord /\ EndWord \in Nat
  BY <1>1, <1>2, <1>6
<1>8. EndWord > FirstWord
  BY <1>1, <1>4, <1>5, <1>7
<1>9. WEAR_LEVELING_LOGICAL_SIZE = L /\ WEAR_LEVELING_BACKING_SIZE = B
  BY DEF L, B
<1> QED BY <1>0, <1>1, <1>3, <1>4, <1>5, <1>7, <1>8, <1>9

\* A word address names its word.
LEMMA WordOf ==
    \A w \in Nat : /\ (4 * w) \div BACKING_STORE_WRITE_SIZE = w
                   /\ (4 * w) % BACKING_STORE_WRITE_SIZE = 0
BY DEF BACKING_STORE_WRITE_SIZE

\* An aligned address is four times its word.
LEMMA AlignedIsWord ==
    ASSUME NEW a \in Nat, a % BACKING_STORE_WRITE_SIZE = 0
    PROVE  a \div BACKING_STORE_WRITE_SIZE \in Nat
           /\ a = 4 * (a \div BACKING_STORE_WRITE_SIZE)
BY DEF BACKING_STORE_WRITE_SIZE

\* An erased word is a word.
LEMMA ZeroIsWord == Zero \in Words
BY DEF Zero, Words, Byte

\* Programming a word gives a word.
LEMMA ProgrammedType ==
    ASSUME NEW old \in Words, NEW new \in Words
    PROVE  Programmed(old, new) \in Words
<1>1. ASSUME NEW x \in 0..255, NEW y \in 0..255
      PROVE  ByteOr(x, y) \in 0..255
  BY DEF ByteOr, BitOr
<1> QED BY <1>1 DEF Programmed, Words, Byte

-----------------------------------------------------------------------------
(* The log entry format.                                                   *)

\* A function on 1..n is a sequence of length n.
LEMMA FunctionIsSeq ==
    ASSUME NEW S, NEW n \in Nat, NEW f \in [1..n -> S]
    PROVE  f \in Seq(S) /\ Len(f) = n
<1>1. f \in Seq(S)
  BY SeqDef
<1>2. Len(f) \in Nat /\ 1..Len(f) = 1..n
  BY <1>1, LenProperties
<1>3. ASSUME NEW k \in Nat, 1..k = 1..n PROVE k = n
  <2>1. \A i \in Int : 1 <= i /\ i <= k <=> 1 <= i /\ i <= n
    BY <1>3
  <2>2. (1 <= k => k <= n) /\ (1 <= n => n <= k)
    BY <2>1
  <2> QED BY <2>2
<1> QED BY <1>1, <1>2, <1>3

\* A word is a sequence of four bytes.
LEMMA WordSeq ==
    ASSUME NEW w \in Words
    PROVE  w \in Seq(Byte) /\ Len(w) = 4
BY FunctionIsSeq DEF Words

\* Bytes inside the store leave contents of the store.
LEMMA PatchedType ==
    ASSUME NEW c \in [Addresses -> Byte], NEW a \in Nat,
           NEW d \in Seq(Byte), a + Len(d) <= WEAR_LEVELING_LOGICAL_SIZE
    PROVE  Patched(c, a, d) \in [Addresses -> Byte]
<1> DEFINE span == a..(a + Len(d) - 1)
<1>1. span \subseteq Addresses
  BY Sizes DEF Addresses
<1>2. DOMAIN c \cup span = Addresses
  BY <1>1
<1>3. \A x \in span : d[x - a + 1] \in Byte
  BY LenProperties
<1> QED BY <1>2, <1>3 DEF Patched

\* The eight bytes wear_leveling_write_raw_multibyte puts together.
Raw8(address, data) ==
    LogHeader(address, Len(data)) \o data
        \o [i \in 1..(LOG_ENTRY_MULTIBYTE_MAX_BYTES - Len(data)) |-> 0]

\* A block that fits one log entry, inside the store.
IsChunk(address, data) ==
    /\ address \in Nat /\ data \in Seq(Byte) /\ Len(data) >= 1 /\ Len(data) <= 5
    /\ address + Len(data) <= WEAR_LEVELING_LOGICAL_SIZE

\* LOG_ENTRY_MAKE_MULTIBYTE gives bytes, and the getters invert it.
LEMMA HeaderDecodes ==
    ASSUME NEW a \in Nat, NEW len \in Nat, 1 <= len, len <= 5, a < MaxLogicalSize,
           NEW w \in Words, NEW h, h = LogHeader(a, len),
           w[1] = h[1], w[2] = h[2], w[3] = h[3]
    PROVE  /\ EntryType(w) = LOG_ENTRY_TYPE_MULTIBYTE
           /\ EntryAddress(w) = a /\ EntryLength(w) = len
<1> DEFINE top == (a \div 65536) % 8
<1>1. top \in 0..7 /\ top = a \div 65536
  BY SMT DEF MaxLogicalSize
<1>2. /\ w[1] = len * 8 + top
      /\ w[2] = (a \div 256) % 256 /\ w[3] = a % 256
  <2>1. len % 8 = len
    OBVIOUS
  <2> QED BY <2>1, SMT DEF LogHeader, LOG_ENTRY_TYPE_MULTIBYTE
<1>3. w[1] \div 64 = 0 /\ w[1] % 8 = top /\ (w[1] \div 8) % 8 = len
  <2> HIDE DEF top
  <2> QED BY <1>1, <1>2, SMT
<1>4. top * 65536 + w[2] * 256 + w[3] = a
  BY <1>1, <1>2, SMT
<1> QED BY <1>3, <1>4, SMT
        DEF EntryType, EntryAddress, EntryLength, LOG_ENTRY_TYPE_MULTIBYTE

\* A header is three bytes and not all zero.
LEMMA HeaderBytes ==
    ASSUME NEW a \in Nat, NEW len \in Nat, 1 <= len, len <= 5
    PROVE  /\ LogHeader(a, len) \in Seq(Byte) /\ Len(LogHeader(a, len)) = 3
           /\ LogHeader(a, len)[1] > 0
<1> DEFINE top == (a \div 65536) % 8
<1>1. top \in 0..7
  BY SMT
<1>2. LogHeader(a, len) = <<len * 8 + top, (a \div 256) % 256, a % 256>>
  <2>1. len % 8 = len
    OBVIOUS
  <2> QED BY <2>1, SMT DEF LogHeader, LOG_ENTRY_TYPE_MULTIBYTE
<1>3. /\ len * 8 + top \in Byte /\ len * 8 + top > 0
      /\ (a \div 256) % 256 \in Byte /\ a % 256 \in Byte
  <2> HIDE DEF top
  <2> QED BY <1>1, SMT DEF Byte
<1> HIDE DEF top
<1> QED BY <1>2, <1>3, SMT

\* The layout of the eight bytes.
LEMMA Raw8Layout ==
    ASSUME NEW a, NEW d, IsChunk(a, d)
    PROVE  LET raw8 == Raw8(a, d)
               h    == LogHeader(a, Len(d)) IN
           /\ raw8 \in Seq(Byte) /\ Len(raw8) = 8
           /\ raw8[1] = h[1] /\ raw8[2] = h[2] /\ raw8[3] = h[3]
           /\ \A i \in 1..Len(d) : raw8[3 + i] = d[i]
<1> DEFINE h == LogHeader(a, Len(d))
           pad == [i \in 1..(5 - Len(d)) |-> 0]
<1>1. /\ d \in Seq(Byte) /\ Len(d) \in Nat /\ Len(d) >= 1 /\ Len(d) <= 5
      /\ h \in Seq(Byte) /\ Len(h) = 3
  BY HeaderBytes DEF IsChunk
<1>2. pad \in Seq(Byte) /\ Len(pad) = 5 - Len(d)
  <2>1. 5 - Len(d) \in Nat /\ pad \in [1..(5 - Len(d)) -> Byte]
    BY <1>1 DEF Byte
  <2> HIDE DEF pad
  <2> QED BY <2>1, FunctionIsSeq
<1>3. Raw8(a, d) = (h \o d) \o pad
  BY DEF Raw8, LOG_ENTRY_MULTIBYTE_MAX_BYTES
<1> HIDE DEF h, pad
<1> DEFINE hd == h \o d
<1>4. /\ hd \in Seq(Byte) /\ Len(hd) = 3 + Len(d)
      /\ \A i \in 1..(3 + Len(d)) : hd[i] = IF i <= 3 THEN h[i] ELSE d[i - 3]
  <2>1. /\ h \o d \in Seq(Byte) /\ Len(h \o d) = Len(h) + Len(d)
        /\ \A i \in 1..(Len(h) + Len(d)) :
              (h \o d)[i] = IF i <= Len(h) THEN h[i] ELSE d[i - Len(h)]
    BY <1>1, ConcatProperties
  <2> QED BY <1>1, <2>1
<1> HIDE DEF hd
<1>5. /\ hd \o pad \in Seq(Byte) /\ Len(hd \o pad) = 8
      /\ \A i \in 1..8 : (hd \o pad)[i] = IF i <= 3 + Len(d) THEN hd[i]
                                           ELSE pad[i - (3 + Len(d))]
  <2>1. (3 + Len(d)) + (5 - Len(d)) = 8
    BY <1>1
  <2> QED BY <1>2, <1>4, <2>1, ConcatProperties
<1>6. \A i \in 1..(3 + Len(d)) : i \in 1..8
  BY <1>1
<1>7. Raw8(a, d) = hd \o pad
  BY <1>3 DEF hd
<1>8. \A i \in 1..(3 + Len(d)) :
         Raw8(a, d)[i] = IF i <= 3 THEN h[i] ELSE d[i - 3]
  BY <1>4, <1>5, <1>6, <1>7
<1>9. \A i \in 1..Len(d) : /\ 3 + i \in 1..(3 + Len(d))
                           /\ ~(3 + i <= 3) /\ (3 + i) - 3 = i
  BY <1>1
<1>10. \A i \in {1, 2, 3} : i \in 1..(3 + Len(d)) /\ i <= 3
  BY <1>1
<1>11. LogHeader(a, Len(d)) = h
  BY DEF h
<1>12. /\ Raw8(a, d)[1] = h[1] /\ Raw8(a, d)[2] = h[2]
       /\ Raw8(a, d)[3] = h[3]
  BY <1>8, <1>10
<1>13. \A i \in 1..Len(d) : Raw8(a, d)[3 + i] = d[i]
  BY <1>8, <1>9
<1>14. Raw8(a, d) \in Seq(Byte) /\ Len(Raw8(a, d)) = 8
  BY <1>5, <1>7
<1> QED BY <1>11, <1>12, <1>13, <1>14

\* A word of the eight bytes.
LEMMA HalfOfRaw8 ==
    ASSUME NEW r \in Seq(Byte), Len(r) = 8, NEW k \in {1, 5}
    PROVE  /\ SubSeq(r, k, k + 3) \in Words
           /\ \A i \in 1..4 : SubSeq(r, k, k + 3)[i] = r[k + i - 1]
<1> DEFINE half == SubSeq(r, k, k + 3)
<1>1. \A i \in k..(k + 3) : r[i] \in Byte
  <2>1. \A i \in k..(k + 3) : i \in 1..Len(r)
    OBVIOUS
  <2> QED BY <2>1, LenProperties
<1>2. k \in Int /\ k + 3 \in Int /\ k <= k + 3 /\ (k + 3) - k + 1 = 4
  OBVIOUS
<1>3. /\ half \in Seq(Byte)
      /\ Len(half) = IF k <= k + 3 THEN (k + 3) - k + 1 ELSE 0
      /\ \A i \in 1..((k + 3) - k + 1) : half[i] = r[k + i - 1]
  BY <1>1, <1>2, SubSeqProperties
<1>4. half \in [1..Len(half) -> Byte]
  BY <1>3, LenProperties
<1>5. Len(half) = 4
  BY <1>2, <1>3
<1>6. half \in Words
  BY <1>4, <1>5 DEF Words
<1>7. \A i \in 1..4 : half[i] = r[k + i - 1]
  BY <1>2, <1>3
<1> QED BY <1>6, <1>7

\* wear_leveling_write_raw_multibyte writes an entry that the playback accepts
\* and decodes to the same bytes: one word, two if it carries more than one.
LEMMA EntryShape ==
    ASSUME NEW a, NEW d, IsChunk(a, d)
    PROVE  LET e == Entry(a, d) IN
           /\ Len(e) = IF Len(d) > 1 THEN 2 ELSE 1
           /\ e[1] \in Words /\ e[1] # Zero /\ ~EntryRefused(e[1])
           /\ EntryAddress(e[1]) = a /\ EntryLength(e[1]) = Len(d)
           /\ EntrySize(e[1]) = IF Len(d) > 1 THEN 8 ELSE 4
           /\ e[1][4] = d[1]
           /\ Len(d) > 1 => /\ e[2] \in Words
                            /\ \A i \in 1..Len(d) : i > 1 => e[2][i - 1] = d[i]
<1> DEFINE r == Raw8(a, d)
           first == SubSeq(r, 1, 4)
           second == SubSeq(r, 5, 8)
           h == LogHeader(a, Len(d))
<1>1. /\ a \in Nat /\ d \in Seq(Byte) /\ Len(d) \in Nat /\ 1 <= Len(d)
      /\ Len(d) <= 5 /\ a + Len(d) <= WEAR_LEVELING_LOGICAL_SIZE
  BY DEF IsChunk
<1>2. /\ r \in Seq(Byte) /\ Len(r) = 8
      /\ r[1] = h[1] /\ r[2] = h[2] /\ r[3] = h[3]
      /\ \A i \in 1..Len(d) : r[3 + i] = d[i]
  BY Raw8Layout
<1>3. Entry(a, d) = IF Len(d) > 1 THEN <<first, second>> ELSE <<first>>
  BY DEF Entry, Raw8
<1>4. h[1] > 0
  BY <1>1, HeaderBytes
<1> HIDE DEF r, h
<1>5. /\ first \in Words /\ second \in Words
      /\ \A i \in 1..4 : first[i] = r[i] /\ second[i] = r[4 + i]
  <2>1. /\ SubSeq(r, 1, 1 + 3) \in Words
        /\ \A i \in 1..4 : SubSeq(r, 1, 1 + 3)[i] = r[1 + i - 1]
    BY <1>2, HalfOfRaw8
  <2>2. /\ SubSeq(r, 5, 5 + 3) \in Words
        /\ \A i \in 1..4 : SubSeq(r, 5, 5 + 3)[i] = r[5 + i - 1]
    BY <1>2, HalfOfRaw8
  <2>3. 1 + 3 = 4 /\ 5 + 3 = 8 /\ \A i \in 1..4 : 1 + i - 1 = i /\ 5 + i - 1 = 4 + i
    OBVIOUS
  <2> QED BY <2>1, <2>2, <2>3
<1> HIDE DEF first, second
<1>6. /\ first[1] = h[1] /\ first[2] = h[2] /\ first[3] = h[3]
  BY <1>2, <1>5
<1>7. /\ EntryType(first) = LOG_ENTRY_TYPE_MULTIBYTE
      /\ EntryAddress(first) = a /\ EntryLength(first) = Len(d)
  <2>1. a < MaxLogicalSize
    BY <1>1, Sizes DEF MaxLogicalSize
  <2>2. h = LogHeader(a, Len(d))
    BY DEF h
  <2> QED BY <1>1, <1>5, <1>6, <2>1, <2>2, HeaderDecodes
<1>8. first # Zero
  <2>1. Zero[1] = 0
    BY DEF Zero
  <2> QED BY <1>4, <1>6, <2>1
<1>9. ~EntryRefused(first)
  BY <1>1, <1>7, Sizes DEF EntryRefused
<1>10. EntrySize(first) = IF Len(d) > 1 THEN 8 ELSE 4
  BY <1>7 DEF EntrySize, BACKING_STORE_WRITE_SIZE
<1>11. first[4] = d[1]
  BY <1>1, <1>2, <1>5
<1>12. \A i \in 1..Len(d) : i > 1 => second[i - 1] = d[i]
  <2> SUFFICES ASSUME NEW i \in 1..Len(d), i > 1 PROVE second[i - 1] = d[i]
    OBVIOUS
  <2>1. i - 1 \in 1..4 /\ 4 + (i - 1) = 3 + i
    BY <1>1
  <2> QED BY <1>2, <1>5, <2>1
<1>13. CASE Len(d) > 1
  <2>1. Entry(a, d) = <<first, second>>
    BY <1>3, <1>13
  <2> QED BY <1>5, <1>7, <1>8, <1>9, <1>10, <1>11, <1>12, <1>13, <2>1
<1>14. CASE ~(Len(d) > 1)
  <2>1. Entry(a, d) = <<first>>
    BY <1>3, <1>14
  <2> QED BY <1>5, <1>7, <1>8, <1>9, <1>10, <1>11, <1>14, <2>1
<1> QED BY <1>13, <1>14

\* The bytes a playback takes out of an entry.
LEMMA BytesOfEntry ==
    ASSUME NEW word \in Words, NEW next \in Words, NEW junk \in Seq(Byte),
           NEW n \in Nat, n <= 5 + Len(junk)
    PROVE  LET bytes == SubSeq(EntryBytes(word, next, junk), 1, n) IN
           /\ bytes \in Seq(Byte) /\ Len(bytes) = n
           /\ \A i \in 1..n : i <= 5 =>
                 bytes[i] = IF i = 1 THEN word[4] ELSE next[i - 1]
<1> DEFINE head == <<word[4]>>
           five == head \o next
           all  == five \o junk
           bytes == SubSeq(all, 1, n)
<1>1. head \in Seq(Byte) /\ Len(head) = 1 /\ head[1] = word[4]
  BY DEF Words
<1>2. next \in Seq(Byte) /\ Len(next) = 4
  BY WordSeq
<1>3. Len(junk) \in Nat
  BY LenProperties
<1>4. EntryBytes(word, next, junk) = all
  BY DEF EntryBytes
<1> HIDE DEF head
<1>5. /\ five \in Seq(Byte) /\ Len(five) = 5
      /\ \A i \in 1..5 : five[i] = IF i <= 1 THEN head[i] ELSE next[i - 1]
  <2>1. /\ head \o next \in Seq(Byte)
        /\ Len(head \o next) = Len(head) + Len(next)
        /\ \A i \in 1..(Len(head) + Len(next)) :
             (head \o next)[i] = IF i <= Len(head) THEN head[i]
                                 ELSE next[i - Len(head)]
    <3>1. head \in Seq(Byte) /\ next \in Seq(Byte)
      BY <1>1, <1>2
    <3> QED BY <3>1, ConcatProperties
  <2> QED BY <1>1, <1>2, <2>1
<1> HIDE DEF five
<1>6. /\ all \in Seq(Byte) /\ Len(all) = 5 + Len(junk)
      /\ \A i \in 1..(5 + Len(junk)) :
            all[i] = IF i <= 5 THEN five[i] ELSE junk[i - 5]
  <2>1. /\ five \o junk \in Seq(Byte)
        /\ Len(five \o junk) = Len(five) + Len(junk)
        /\ \A i \in 1..(Len(five) + Len(junk)) :
             (five \o junk)[i] = IF i <= Len(five) THEN five[i]
                                 ELSE junk[i - Len(five)]
    BY <1>5, ConcatProperties
  <2> QED BY <1>5, <2>1
<1> HIDE DEF all
<1>7. /\ bytes \in Seq(Byte)
      /\ Len(bytes) = IF 1 <= n THEN n - 1 + 1 ELSE 0
      /\ \A i \in 1..(n - 1 + 1) : bytes[i] = all[1 + i - 1]
  <2>1. \A i \in 1..n : i \in 1..Len(all)
    BY <1>3, <1>6
  <2>2. \A i \in 1..n : all[i] \in Byte
    BY <1>6, <2>1, ElementOfSeq
  <2> QED BY <2>2, SubSeqProperties
<1>8. Len(bytes) = n
  BY <1>7
<1> HIDE DEF bytes
<1>9. ASSUME NEW i \in 1..n, i <= 5
      PROVE  bytes[i] = IF i = 1 THEN word[4] ELSE next[i - 1]
  <2>1. i \in 1..(n - 1 + 1) /\ 1 + i - 1 = i /\ i \in 1..(5 + Len(junk))
        /\ i \in 1..5 /\ (i <= 1 <=> i = 1)
    BY <1>3, <1>9
  <2>2. bytes[i] = five[i]
    BY <1>6, <1>7, <1>9, <2>1
  <2> QED BY <1>1, <1>5, <2>1, <2>2
<1>10. bytes = SubSeq(EntryBytes(word, next, junk), 1, n)
  BY <1>4 DEF bytes
<1> QED BY <1>7, <1>8, <1>9, <1>10

\* wear_leveling_write_raw cuts a block into a first entry and the rest.
LEMMA ChunkOfBlock ==
    ASSUME NEW b \in [address : Nat, data : Seq(Byte)], Len(b.data) >= 1,
           b.address + Len(b.data) <= WEAR_LEVELING_LOGICAL_SIZE
    PROVE  LET c == Chunk(b.data)
               r == Remaining(b) IN
           /\ IsChunk(b.address, c)
           /\ Len(c) > 1 <=> Len(b.data) > 1
           /\ r \in [address : Nat, data : Seq(Byte)]
           /\ r.address = b.address + Len(c)
           /\ Len(r.data) = Len(b.data) - Len(c)
           /\ \A i \in 1..Len(c) : c[i] = b.data[i]
           /\ \A i \in 1..Len(r.data) : r.data[i] = b.data[Len(c) + i]
<1> DEFINE d == b.data
           c == Chunk(d)
           rest == SubSeq(d, Len(c) + 1, Len(d))
<1>1. d \in Seq(Byte) /\ Len(d) \in Nat /\ Len(d) >= 1 /\ b.address \in Nat
  BY LenProperties
<1> HIDE DEF d
<1>2. /\ c \in Seq(Byte) /\ Len(c) \in Nat /\ Len(c) >= 1 /\ Len(c) <= 5
      /\ Len(c) <= Len(d) /\ (Len(c) > 1 <=> Len(d) > 1)
      /\ \A i \in 1..Len(c) : c[i] = d[i]
  <2>1. CASE Len(d) >= 5
    <3>1. c = SubSeq(d, 1, 5)
      BY <2>1 DEF Chunk, LOG_ENTRY_MULTIBYTE_MAX_BYTES
    <3>2. \A i \in 1..5 : i \in 1..Len(d)
      BY <1>1, <2>1
    <3>3. \A i \in 1..5 : d[i] \in Byte
      BY <1>1, <3>2, ElementOfSeq
    <3>4. /\ SubSeq(d, 1, 5) \in Seq(Byte)
          /\ Len(SubSeq(d, 1, 5)) = IF 1 <= 5 THEN 5 - 1 + 1 ELSE 0
          /\ \A i \in 1..(5 - 1 + 1) : SubSeq(d, 1, 5)[i] = d[1 + i - 1]
      BY <3>3, SubSeqProperties
    <3>5. Len(SubSeq(d, 1, 5)) = 5
      BY <3>4
    <3>6. \A i \in 1..5 : SubSeq(d, 1, 5)[i] = d[i]
      BY <3>4
    <3> QED BY <1>1, <2>1, <3>1, <3>4, <3>5, <3>6
  <2>2. CASE ~(Len(d) >= 5)
    <3>1. c = d
      BY <2>2 DEF Chunk, LOG_ENTRY_MULTIBYTE_MAX_BYTES
    <3> QED BY <1>1, <2>2, <3>1
  <2> QED BY <2>1, <2>2
<1> HIDE DEF c
<1>3. /\ rest \in Seq(Byte) /\ Len(rest) = Len(d) - Len(c)
      /\ \A i \in 1..(Len(d) - Len(c)) : rest[i] = d[Len(c) + i]
  <2>1. \A i \in (Len(c) + 1)..Len(d) : i \in 1..Len(d)
    BY <1>1, <1>2
  <2>2. \A i \in (Len(c) + 1)..Len(d) : d[i] \in Byte
    BY <1>1, <2>1, ElementOfSeq
  <2>3. Len(c) + 1 \in Int /\ Len(d) \in Int
    BY <1>1, <1>2
  <2>4. /\ rest \in Seq(Byte)
        /\ Len(rest) = IF Len(c) + 1 <= Len(d)
                       THEN Len(d) - (Len(c) + 1) + 1 ELSE 0
        /\ \A i \in 1..(Len(d) - (Len(c) + 1) + 1) :
              rest[i] = d[(Len(c) + 1) + i - 1]
    BY <2>2, <2>3, SubSeqProperties
  <2>5. Len(d) - (Len(c) + 1) + 1 = Len(d) - Len(c)
    BY <1>1, <1>2
  <2>6. Len(rest) = Len(d) - Len(c)
    BY <1>1, <1>2, <2>4
  <2>7. \A i \in Int : (Len(c) + 1) + i - 1 = Len(c) + i
    BY <1>2
  <2> QED BY <2>4, <2>5, <2>6, <2>7
<1>4. Remaining(b) = [address |-> b.address + Len(c), data |-> rest]
  BY DEF Remaining, c, d
<1>5. IsChunk(b.address, c)
  <2>1. b.address + Len(d) <= WEAR_LEVELING_LOGICAL_SIZE
    BY DEF d
  <2> QED BY <1>1, <1>2, <2>1, Sizes DEF IsChunk
<1> HIDE DEF rest
<1>6. /\ Remaining(b) \in [address : Nat, data : Seq(Byte)]
      /\ Remaining(b).address = b.address + Len(c) /\ Remaining(b).data = rest
  BY <1>1, <1>2, <1>3, <1>4
<1>7. c = Chunk(b.data) /\ d = b.data
  BY DEF c, d
<1> QED BY <1>2, <1>3, <1>5, <1>6, <1>7
-----------------------------------------------------------------------------
(* The types, and the bounds that keep every access inside the sector.     *)

FlashType(fl) ==
    /\ DOMAIN fl = FlashWords
    /\ \A w \in FlashWords \ {DataWords, DataWords + 1} : fl[w] \in Words

\* The next log entry goes to word n.  A fault may leave a full log behind, which
\* the next append passes by one word before it consolidates again.
AppendsAt(n) ==
    /\ n >= FirstWord /\ n <= EndWord + MaxFaults + 1
    /\ phase \in {"idle", "append", "erase"} => n < EndWord + faults
    /\ phase = "consolidate" => n <= EndWord + faults \/ (booting /\ n <= EndWord + 1)

Addressed == \E n \in Nat : write_address = 4 * n /\ AppendsAt(n)

Positioned ==
    \E p \in Nat : position = 4 * p /\ p >= FirstWord /\ p <= EndWord + 1

Switches ==
    /\ unlocked \in BOOLEAN /\ booting \in BOOLEAN /\ damaged \in BOOLEAN
    /\ phase \in {"off", "playback", "idle", "append", "consolidate", "copy",
                  "erase"}
    /\ phase = "playback" => booting

BlockType ==
    /\ block \in [address : Nat, data : Seq(Byte)]
    /\ block.address + Len(block.data) <= WEAR_LEVELING_LOGICAL_SIZE
    /\ sent \in {0, 1}
    /\ phase = "append" => Len(block.data) >= 1 /\ (sent = 1 => Len(block.data) > 1)

Counts ==
    /\ copied \in Nat /\ copied <= DataWords + 1
    /\ faults \in Nat /\ faults <= MaxFaults

TypeInv ==
    /\ FlashType(flash) /\ cache \in [Addresses -> Byte]
    /\ Addressed /\ Positioned /\ Switches /\ BlockType /\ Counts

\* Erased flash is flash.
LEMMA ErasedType == FlashType(Erased)
BY ZeroIsWord DEF FlashType, Erased

\* A cut erase leaves flash.
LEMMA CutType ==
    ASSUME NEW fl, FlashType(fl), NEW n
    PROVE  FlashType([w \in FlashWords |-> IF w < n THEN Zero ELSE fl[w]])
BY ZeroIsWord DEF FlashType

\* backing_store_write leaves flash; only the checksum may be something else than
\* four bytes.
LEMMA ProgramType ==
    ASSUME NEW fl, FlashType(fl), NEW w \in FlashWords, NEW v,
           v \in Words \/ w \in {DataWords, DataWords + 1}
    PROVE  FlashType([fl EXCEPT ![w] = Programmed(fl[w], v)])
<1> DEFINE new == [fl EXCEPT ![w] = Programmed(fl[w], v)]
<1>1. DOMAIN new = FlashWords
  BY DEF FlashType
<1>2. ASSUME NEW u \in FlashWords \ {DataWords, DataWords + 1}
      PROVE  new[u] \in Words
  <2>1. fl[u] \in Words
    BY DEF FlashType
  <2>2. new[u] = IF u = w THEN Programmed(fl[w], v) ELSE fl[u]
    BY DEF FlashType
  <2>3. CASE u = w
    <3>1. v \in Words
      BY <2>3
    <3> HIDE DEF new
    <3> QED BY <2>1, <2>2, <2>3, <3>1, ProgrammedType
  <2> HIDE DEF new
  <2> QED BY <2>1, <2>2, <2>3
<1> QED BY <1>1, <1>2 DEF FlashType

\* wear_leveling_read_consolidated fills the cache with bytes.
LEMMA ConsolidatedType ==
    ASSUME NEW fl, FlashType(fl)
    PROVE  Consolidated(fl) \in [Addresses -> Byte]
<1>1. Blank \in [Addresses -> Byte]
  BY DEF Blank, Byte
<1>2. ASSUME NEW a \in Addresses
      PROVE  fl[a \div BACKING_STORE_WRITE_SIZE]
                 [(a % BACKING_STORE_WRITE_SIZE) + 1] \in Byte
  <2> DEFINE q == a \div 4
  <2>0. BACKING_STORE_WRITE_SIZE = 4
    BY DEF BACKING_STORE_WRITE_SIZE
  <2>1. a \in Nat /\ a < 4 * DataWords
    BY Sizes DEF Addresses
  <2>2. q \in Nat /\ a >= 4 * q
    BY <2>1
  <2>3. (a % 4) + 1 \in 1..4
    BY <2>1
  <2>4. q < DataWords
    <3> HIDE DEF q
    <3> QED BY <2>1, <2>2, Sizes
  <2>5. q \in FlashWords \ {DataWords, DataWords + 1}
    <3> HIDE DEF q
    <3> QED BY <2>2, <2>4, Sizes
  <2>6. fl[q] \in Words
    BY <2>5 DEF FlashType
  <2> HIDE DEF q
  <2>7. fl[q][(a % 4) + 1] \in Byte
    BY <2>3, <2>6 DEF Words
  <2> QED BY <2>0, <2>7 DEF q
<1>3. StoredBytes(fl) \in [Addresses -> Byte]
  BY <1>2 DEF StoredBytes
<1> QED BY <1>1, <1>3 DEF Consolidated

\* The words of the image that hold data are four bytes.
LEMMA ImageType ==
    ASSUME NEW c \in [Addresses -> Byte], NEW n \in Nat, n < DataWords
    PROVE  ImageWord(c, n) \in Words
<1>1. \A b \in 1..4 : n * 4 + b - 1 \in Addresses
  BY Sizes DEF Addresses
<1>2. ImageWord(c, n) = [b \in 1..4 |-> c[n * 4 + b - 1]]
  BY DEF ImageWord, BACKING_STORE_WRITE_SIZE
<1> QED BY <1>1, <1>2 DEF Words

\* What the getters can read out of a word.
LEMMA EntryNumbers ==
    ASSUME NEW word \in Words
    PROVE  /\ EntryAddress(word) \in Nat
           /\ EntryLength(word) \in Nat /\ EntryLength(word) <= 7
           /\ EntrySize(word) = IF EntryLength(word) > 1 THEN 8 ELSE 4
<1>1. \A i \in 1..4 : word[i] \in Nat
  BY DEF Words, Byte
<1>2. EntryAddress(word) \in Nat
  BY <1>1, SMT DEF EntryAddress
<1>3. EntryLength(word) \in Nat /\ EntryLength(word) <= 7
  BY <1>1, SMT DEF EntryLength
<1>4. EntrySize(word) = IF EntryLength(word) > 1 THEN 8 ELSE 4
  BY DEF EntrySize, BACKING_STORE_WRITE_SIZE
<1> QED BY <1>2, <1>3, <1>4

\* An entry that is not refused patches the cache inside its bounds, also when it
\* claims more bytes than an entry has.
LEMMA EntryPatches ==
    ASSUME NEW word \in Words, NEW next \in Words, NEW junk \in Seq(Byte),
           EntryLength(word) <= 5 + Len(junk), ~EntryRefused(word),
           NEW c \in [Addresses -> Byte]
    PROVE  Patched(c, EntryAddress(word),
                   SubSeq(EntryBytes(word, next, junk), 1, EntryLength(word)))
               \in [Addresses -> Byte]
<1> DEFINE bytes == SubSeq(EntryBytes(word, next, junk), 1, EntryLength(word))
<1>1. EntryAddress(word) \in Nat /\ EntryLength(word) \in Nat
  BY EntryNumbers
<1>2. bytes \in Seq(Byte) /\ Len(bytes) = EntryLength(word)
  BY <1>1, BytesOfEntry
<1>3. EntryAddress(word) + EntryLength(word) <= WEAR_LEVELING_LOGICAL_SIZE
  BY <1>1, Sizes DEF EntryRefused
<1> HIDE DEF bytes
<1>4. EntryAddress(word) + Len(bytes) <= WEAR_LEVELING_LOGICAL_SIZE
  BY <1>2, <1>3
<1>5. Patched(c, EntryAddress(word), bytes) \in [Addresses -> Byte]
  BY <1>1, <1>2, <1>4, PatchedType
<1> QED BY <1>5 DEF bytes

\* A word of the log is four bytes, and so is the one behind it.
LEMMA LogWord ==
    ASSUME NEW fl, FlashType(fl), NEW p \in Nat, p >= FirstWord, p < EndWord
    PROVE  /\ fl[p] \in Words /\ fl[p + 1] \in Words
           /\ p \in FlashWords /\ p + 1 \in FlashWords
<1>1. /\ p \in FlashWords \ {DataWords, DataWords + 1}
      /\ p + 1 \in FlashWords \ {DataWords, DataWords + 1}
  BY Sizes
<1> QED BY <1>1 DEF FlashType

\* No block is in progress.
LEMMA NothingType ==
    /\ Nothing \in [address : Nat, data : Seq(Byte)]
    /\ Nothing.address + Len(Nothing.data) <= WEAR_LEVELING_LOGICAL_SIZE
<1>1. Nothing.address = 0 /\ Nothing.data = <<>> /\ Len(<<>>) = 0
  BY DEF Nothing
<1>2. <<>> \in Seq(Byte)
  OBVIOUS
<1>3. Nothing \in [address : Nat, data : Seq(Byte)]
  BY <1>2 DEF Nothing
<1> QED BY <1>1, <1>3, Sizes

\* The log starts at a word inside the backing store.
LEMMA StartWord ==
    /\ FirstWord \in Nat /\ LogStart = 4 * FirstWord
    /\ FirstWord < EndWord /\ FirstWord <= EndWord + MaxFaults + 1
BY Sizes

\* A client's block is not empty and lies inside the store.
LEMMA RequestType ==
    ASSUME NEW r \in Requests
    PROVE  /\ r \in [address : Nat, data : Seq(Byte)] /\ Len(r.data) >= 1
           /\ r.address + Len(r.data) <= WEAR_LEVELING_LOGICAL_SIZE
<1>1. /\ r \in [address : Addresses, data : Seq(Byte)] /\ r.data # <<>>
      /\ r.address + Len(r.data) <= WEAR_LEVELING_LOGICAL_SIZE
  BY ClientBlocks
<1>2. r.data \in Seq(Byte) /\ r.address \in Nat
  BY <1>1, Sizes DEF Addresses
<1>3. Len(r.data) \in Nat /\ Len(r.data) # 0
  BY <1>1, <1>2, EmptySeq, LenProperties
<1>4. r \in [address : Nat, data : Seq(Byte)]
  BY <1>1, Sizes DEF Addresses
<1> QED BY <1>1, <1>3, <1>4

\* The inductive invariant holds: every word is programmed inside the sector, the
\* cache is patched inside the store and every address is a whole word.
THEOREM WearTypes == Spec => []TypeInv
<1>0. Blank \in [Addresses -> Byte]
  BY DEF Blank, Byte
<1>1. Init => TypeInv
  <2> SUFFICES ASSUME Init PROVE TypeInv
    OBVIOUS
  <2> USE DEF Init
  <2>1. FlashType(flash) /\ cache \in [Addresses -> Byte]
    BY ErasedType, <1>0
  <2>2. AppendsAt(FirstWord)
    BY StartWord, Sizes DEF AppendsAt
  <2>3. Addressed
    BY <2>2, StartWord DEF Addressed
  <2>4. Positioned
    BY StartWord, Sizes DEF Positioned
  <2>5. BlockType
    BY NothingType, Sizes DEF BlockType
  <2>6. Counts
    BY Sizes DEF Counts
  <2>7. Switches
    BY DEF Switches
  <2> QED BY <2>1, <2>3, <2>4, <2>5, <2>6, <2>7 DEF TypeInv
<1>2. TypeInv /\ [Next]_vars => TypeInv'
  <2> SUFFICES ASSUME TypeInv, [Next]_vars PROVE TypeInv'
    OBVIOUS
  <2>t. /\ FlashType(flash) /\ cache \in [Addresses -> Byte]
        /\ Addressed /\ Positioned /\ Switches /\ BlockType /\ Counts
    BY DEF TypeInv
  <2>a. PICK n \in Nat : write_address = 4 * n /\ AppendsAt(n)
    BY <2>t DEF Addressed
  <2>b. PICK p \in Nat : position = 4 * p /\ p >= FirstWord /\ p <= EndWord + 1
    BY <2>t DEF Positioned
  <2>z. /\ DataWords \in Nat /\ EndWord \in Nat /\ FirstWord \in Nat /\ MaxFaults \in Nat
        /\ FirstWord = DataWords + 2
        /\ FirstWord < EndWord /\ LogStart = 4 * FirstWord
        /\ WEAR_LEVELING_BACKING_SIZE = 4 * EndWord
        /\ BACKING_STORE_WRITE_SIZE = 4
        /\ FlashWords = 0..(EndWord + MaxFaults)
    BY Sizes, StartWord DEF BACKING_STORE_WRITE_SIZE
  <2>y. EndWord \in Nat /\ FirstWord \in Nat /\ MaxFaults \in Nat /\ FirstWord < EndWord
    BY <2>z
  <2>c. ASSUME Faulty \/ NoFault
        PROVE  /\ faults' \in Nat /\ faults' <= MaxFaults /\ faults <= faults'
               /\ damaged' \in BOOLEAN
    <3>1. faults' \in Nat /\ faults' <= MaxFaults /\ faults <= faults'
      BY <2>c, <2>t, <2>z DEF Faulty, NoFault, Counts
    <3>2. damaged' \in BOOLEAN
      BY <2>c, <2>t, Zenon DEF Faulty, NoFault, Switches
    <3> QED BY <3>1, <3>2
  <2>d. ASSUME NoCall, phase' # "append", faults' \in Nat, faults' <= MaxFaults
        PROVE  Positioned' /\ BlockType' /\ Counts'
    <3>1. position' = 4 * FirstWord /\ FirstWord <= EndWord + 1
      BY <2>d, <2>z DEF NoCall
    <3>2. block' = Nothing /\ sent' = 0 /\ copied' = 0
      BY <2>d DEF NoCall
    <3>3. Positioned'
      BY <2>z, <3>1 DEF Positioned
    <3>4. BlockType'
      BY <2>d, <3>2, NothingType DEF BlockType
    <3>5. Counts'
      BY <2>d, <2>z, <3>2 DEF Counts
    <3> QED BY <3>3, <3>4, <3>5
  <2>e. ASSUME write_address' = LogStart, faults' \in Nat PROVE Addressed'
    <3>1. /\ FirstWord >= FirstWord /\ FirstWord <= EndWord + MaxFaults + 1
          /\ FirstWord < EndWord + faults' /\ FirstWord <= EndWord + faults'
      <4>1. faults' \in Nat
        BY <2>e
      <4>2. \A f \in Nat : FirstWord < EndWord + f /\ FirstWord <= EndWord + f
        BY <2>y
      <4>3. FirstWord >= FirstWord /\ FirstWord <= EndWord + MaxFaults + 1
        BY <2>y
      <4> QED BY <4>1, <4>2, <4>3, Zenon
    <3>2. AppendsAt(FirstWord)'
      BY <3>1, Zenon DEF AppendsAt
    <3> QED BY <2>e, <2>z, <3>2 DEF Addressed
  <2>1. CASE PowerOn
    <3> USE DEF PowerOn
    <3>1. cache' \in [Addresses -> Byte] /\ FlashType(flash)'
      <4>1. flash' = flash /\ cache' = Consolidated(flash)
        BY <2>1
      <4> QED BY <2>t, <4>1, ConsolidatedType
    <3>2. Addressed'
      BY <2>1, <2>e, <2>t DEF Counts
    <3>3. Positioned'
      <4>1. position' = 4 * FirstWord /\ FirstWord <= EndWord + 1
        BY <2>1, <2>z
      <4> QED BY <2>z, <4>1 DEF Positioned
    <3>4. BlockType' /\ Counts'
      BY <2>1, <2>t DEF BlockType, Counts
    <3>5. Switches'
      BY <2>1, <2>t, Zenon DEF Switches
    <3> QED BY <3>1, <3>2, <3>3, <3>4, <3>5 DEF TypeInv
  <2>2. CASE PlayEntry
    <3> DEFINE word == flash[p]
               next == flash[p + 1]
    <3>1. p < EndWord /\ phase = "playback"
      BY <2>2, <2>b, <2>z DEF PlayEntry, LogContinues
    <3>2. /\ word \in Words /\ next \in Words
          /\ p \in FlashWords /\ p + 1 \in FlashWords
      BY <2>b, <2>t, <3>1, LogWord
    <3>3. WordAt(position) = word /\ WordAt(position + BACKING_STORE_WRITE_SIZE) = next
      <4>1. (4 * p) \div 4 = p /\ (4 * p + 4) \div 4 = p + 1
        OBVIOUS
      <4> QED BY <2>b, <2>z, <4>1 DEF WordAt
    <3> HIDE DEF word, next
    <3>4. UNCHANGED <<flash, unlocked, block, sent, copied, booting, faults, damaged>>
      BY <2>2 DEF PlayEntry
    <3>5. FlashType(flash)' /\ Counts'
      BY <2>t, <3>4 DEF Counts
    <3>6. ASSUME phase' \in {"consolidate", "playback"} PROVE Switches' /\ BlockType'
      <4>1. BlockType'
        BY <2>t, <3>4, <3>6 DEF BlockType
      <4>2. Switches'
        BY <2>t, <3>1, <3>4, <3>6, Zenon DEF Switches
      <4> QED BY <4>1, <4>2
    <3>7. CASE EntryRefused(word)
      <4>1. /\ write_address' = position + 4 /\ phase' = "consolidate"
            /\ UNCHANGED <<cache, position>>
        BY <2>2, <2>z, <3>3, <3>7 DEF PlayEntry
      <4>2. write_address' = 4 * (p + 1)
        BY <2>b, <4>1
      <4>3. AppendsAt(p + 1)'
        BY <2>b, <2>t, <2>z, <3>1, <3>4, <4>1 DEF AppendsAt, Counts
      <4>4. Addressed'
        BY <4>2, <4>3 DEF Addressed
      <4>5. Positioned' /\ cache' \in [Addresses -> Byte]
        BY <2>t, <4>1 DEF Positioned
      <4> QED BY <3>5, <3>6, <4>1, <4>4, <4>5 DEF TypeInv
    <3>8. CASE ~EntryRefused(word)
      <4>1. PICK junk \in IF EntryLength(word) > 5 THEN [1..2 -> JunkBytes] ELSE {<<>>} :
               /\ cache' = Patched(cache, EntryAddress(word),
                             SubSeq(EntryBytes(word, next, junk), 1,
                                    EntryLength(word)))
               /\ position' = position + EntrySize(word)
               /\ UNCHANGED <<write_address, phase>>
        BY <2>2, <3>3, <3>8
           DEF PlayEntry, NextSlot, LOG_ENTRY_MULTIBYTE_MAX_BYTES
      <4>2. junk \in Seq(Byte) /\ EntryLength(word) <= 5 + Len(junk)
        <5>1. CASE EntryLength(word) > 5
          <6>1. junk \in [1..2 -> Byte]
            BY <4>1, <5>1, ClientBlocks
          <6>2. junk \in Seq(Byte) /\ Len(junk) = 2
            BY <6>1, FunctionIsSeq
          <6> QED BY <3>2, <6>2, EntryNumbers
        <5>2. CASE ~(EntryLength(word) > 5)
          <6>1. junk = <<>>
            BY <4>1, <5>2
          <6> QED BY <3>2, <5>2, <6>1, EntryNumbers
        <5> QED BY <5>1, <5>2
      <4>3. cache' \in [Addresses -> Byte]
        BY <2>t, <3>2, <3>8, <4>1, <4>2, EntryPatches
      <4>4. position' = 4 * (p + 1) \/ position' = 4 * (p + 2)
        BY <2>b, <3>2, <4>1, EntryNumbers
      <4>5. Positioned'
        <5>1. /\ p + 1 \in Nat /\ p + 1 >= FirstWord /\ p + 1 <= EndWord + 1
              /\ p + 2 \in Nat /\ p + 2 >= FirstWord /\ p + 2 <= EndWord + 1
          BY <2>b, <2>z, <3>1
        <5> QED BY <4>4, <5>1, Zenon DEF Positioned
      <4>6. AppendsAt(n)'
        BY <2>a, <3>4, <4>1 DEF AppendsAt
      <4>7. Addressed'
        BY <2>a, <4>1, <4>6 DEF Addressed
      <4> QED BY <3>1, <3>5, <3>6, <4>1, <4>3, <4>5, <4>7 DEF TypeInv
    <3> QED BY <3>7, <3>8
  <2>3. CASE PlayEnd
    <3>1. /\ phase = "playback" /\ booting
          /\ write_address' = position /\ position' = LogStart
          /\ UNCHANGED <<flash, cache, unlocked, block, sent, copied, faults, damaged>>
      BY <2>3, <2>t, Zenon DEF PlayEnd, Switches
    <3>2. \/ /\ ~(position >= WEAR_LEVELING_BACKING_SIZE)
             /\ phase' = "idle" /\ booting' = FALSE
          \/ phase' = "consolidate" /\ booting' = booting
      BY <2>3, Zenon DEF PlayEnd, LogFull
    <3>3. AppendsAt(p)'
      <4>1. /\ p >= FirstWord /\ p <= EndWord + MaxFaults + 1 /\ p <= EndWord + 1
            /\ ~(position >= WEAR_LEVELING_BACKING_SIZE) => p < EndWord + faults'
        BY <2>b, <2>t, <2>z, <3>1 DEF Counts
      <4> QED BY <3>1, <3>2, <4>1, Zenon DEF AppendsAt
    <3>4. Addressed'
      BY <2>b, <3>1, <3>3 DEF Addressed
    <3>5. Positioned'
      BY <2>z, <3>1 DEF Positioned
    <3>6. BlockType' /\ Counts'
      BY <2>t, <3>1, <3>2 DEF BlockType, Counts
    <3>7. Switches'
      BY <2>t, <3>1, <3>2, Zenon DEF Switches
    <3> QED BY <2>t, <3>1, <3>4, <3>5, <3>6, <3>7 DEF TypeInv
  <2>4. ASSUME NEW r \in Requests, WriteBlock(r) PROVE TypeInv'
    <3>1. /\ r \in [address : Nat, data : Seq(Byte)] /\ Len(r.data) >= 1
          /\ r.address + Len(r.data) <= WEAR_LEVELING_LOGICAL_SIZE
      BY RequestType
    <3>2. /\ phase = "idle" /\ cache' = Patched(cache, r.address, r.data)
          /\ UNCHANGED <<flash, write_address, position, copied, booting>>
      BY <2>4 DEF WriteBlock
    <3>3. cache' \in [Addresses -> Byte]
      BY <2>t, <3>1, <3>2, PatchedType
    <3>4. Faulty \/ NoFault
      BY <2>4, Zenon DEF WriteBlock
    <3>5. /\ faults' \in Nat /\ faults' <= MaxFaults /\ damaged' \in BOOLEAN
          /\ faults <= faults'
      BY <2>c, <3>4
    <3>6. \/ unlocked' = TRUE /\ phase' = "append" /\ block' = r /\ sent' = 0
          \/ UNCHANGED <<unlocked, phase, block, sent>>
      BY <2>4, Zenon DEF WriteBlock
    <3>7. AppendsAt(n)'
      <4>1. /\ n >= FirstWord /\ n <= EndWord + MaxFaults + 1
            /\ n < EndWord + faults' /\ n <= EndWord + faults'
        <5>1. n >= FirstWord /\ n <= EndWord + MaxFaults + 1 /\ n < EndWord + faults
          BY <2>a, <3>2, Zenon DEF AppendsAt
        <5>2. faults \in Nat
          BY <2>t DEF Counts
        <5>3. \A f \in Nat : faults <= f => n < EndWord + f /\ n <= EndWord + f
          BY <2>y, <5>1, <5>2
        <5> QED BY <3>5, <5>1, <5>3, Zenon
      <4> QED BY <4>1, Zenon DEF AppendsAt
    <3>8. Addressed'
      BY <2>a, <3>2, <3>7 DEF Addressed
    <3>9. BlockType' /\ Counts' /\ Positioned'
      BY <2>t, <3>1, <3>2, <3>5, <3>6 DEF BlockType, Counts, Positioned
    <3>10. Switches'
      BY <2>t, <3>2, <3>5, <3>6, Zenon DEF Switches
    <3> QED BY <2>t, <3>2, <3>3, <3>8, <3>9, <3>10 DEF TypeInv
  <2>f. ASSUME Return, Faulty \/ NoFault
        PROVE  Positioned' /\ BlockType' /\ Counts' /\ Switches'
    <3>1. /\ NoCall /\ phase' = "idle" /\ unlocked' = FALSE /\ booting' = FALSE
      BY <2>f DEF Return, NoCall
    <3>2. Switches'
      BY <2>c, <2>f, <3>1, Zenon DEF Switches
    <3> QED BY <2>c, <2>d, <2>f, <3>1, <3>2
  <2>5. CASE AppendRaw
    <3> DEFINE entry == Entry(block.address, Chunk(block.data))
    <3>1. /\ phase = "append" /\ cache' = cache
      BY <2>5 DEF AppendRaw
    <3>2. /\ n \in FlashWords /\ n >= FirstWord /\ n < EndWord + faults
          /\ write_address \div BACKING_STORE_WRITE_SIZE = n
      BY <2>a, <2>t, <2>z, <3>1, WordOf DEF AppendsAt, Counts
    <3>3. /\ Len(block.data) >= 1 /\ sent \in {0, 1}
          /\ sent = 1 => Len(block.data) > 1
          /\ block \in [address : Nat, data : Seq(Byte)]
          /\ block.address + Len(block.data) <= WEAR_LEVELING_LOGICAL_SIZE
      BY <2>t, <3>1 DEF BlockType
    <3>4. /\ IsChunk(block.address, Chunk(block.data))
          /\ Len(Chunk(block.data)) > 1 <=> Len(block.data) > 1
          /\ Remaining(block) \in [address : Nat, data : Seq(Byte)]
          /\ Remaining(block).address = block.address + Len(Chunk(block.data))
          /\ Len(Remaining(block).data) = Len(block.data) - Len(Chunk(block.data))
      BY <3>3, ChunkOfBlock
    <3>5. entry[sent + 1] \in Words
      BY <3>3, <3>4, EntryShape
    <3>6. CASE Faulty /\ Return /\ UNCHANGED <<flash, write_address>>
      <4>1. /\ n >= FirstWord /\ n <= EndWord + MaxFaults + 1
            /\ n < EndWord + faults' /\ n <= EndWord + faults'
        BY <2>a, <2>c, <2>t, <2>z, <3>2, <3>6 DEF Counts
      <4>2. AppendsAt(n)'
        BY <4>1, Zenon DEF AppendsAt
      <4>3. Addressed'
        BY <2>a, <3>6, <4>2 DEF Addressed
      <4> QED BY <2>f, <2>t, <3>1, <3>6, <4>3 DEF TypeInv
    <3>7. CASE ~(Faulty /\ Return /\ UNCHANGED <<flash, write_address>>)
      <4>1. /\ flash' = [flash EXCEPT ![n] = Programmed(flash[n], entry[sent + 1])]
            /\ write_address' = write_address + 4 /\ NoFault
        BY <2>5, <2>z, <3>2, <3>7 DEF AppendRaw, Program
      <4>2. FlashType(flash)'
        BY <2>t, <3>2, <3>5, <4>1, ProgramType
      <4>3. write_address' = 4 * (n + 1) /\ n + 1 \in Nat
        BY <2>a, <4>1
      <4>4. faults' = faults /\ damaged' = damaged
        BY <4>1 DEF NoFault
      <4>5. CASE LogFull(write_address')
        <5>1. /\ phase' = "consolidate" /\ block' = Nothing /\ sent' = 0
              /\ UNCHANGED <<unlocked, position, copied, booting>>
          BY <2>5, <3>7, <4>5 DEF AppendRaw
        <5>2. n + 1 >= FirstWord /\ n + 1 <= EndWord + MaxFaults + 1
              /\ n + 1 <= EndWord + faults'
          BY <2>t, <2>z, <3>2, <4>4 DEF Counts
        <5>3. AppendsAt(n + 1)'
          BY <5>1, <5>2, Zenon DEF AppendsAt
        <5>4. Addressed'
          BY <4>3, <5>3 DEF Addressed
        <5>5. Positioned' /\ BlockType' /\ Counts'
          BY <2>t, <4>4, <5>1, NothingType DEF Positioned, BlockType, Counts
        <5>6. Switches'
          BY <2>t, <4>4, <5>1, Zenon DEF Switches
        <5> QED BY <2>t, <3>1, <4>2, <5>4, <5>5, <5>6 DEF TypeInv
      <4>6. CASE ~LogFull(write_address')
        <5>1. n + 1 >= FirstWord /\ n + 1 <= EndWord + MaxFaults + 1
              /\ n + 1 <= EndWord + faults' /\ n + 1 < EndWord + faults'
          BY <2>t, <2>z, <3>2, <4>3, <4>4, <4>6 DEF Counts, LogFull
        <5>2. AppendsAt(n + 1)'
          BY <5>1, Zenon DEF AppendsAt
        <5>3. Addressed'
          BY <4>3, <5>2 DEF Addressed
        <5>4. CASE Return
          BY <2>f, <2>t, <3>1, <4>1, <4>2, <5>3, <5>4 DEF TypeInv
        <5>5. CASE ~Return
          <6>1. /\ UNCHANGED <<phase, unlocked, position, copied, booting>>
                /\ \/ sent + 1 < Len(entry) /\ sent' = sent + 1 /\ block' = block
                   \/ /\ Remaining(block).data # <<>> /\ block' = Remaining(block)
                      /\ sent' = 0
            BY <2>5, <3>7, <4>6, <5>5 DEF AppendRaw
          <6>2. Switches'
            BY <2>t, <4>4, <6>1, Zenon DEF Switches
          <6>3. Positioned' /\ Counts'
            BY <2>t, <4>4, <6>1 DEF Positioned, Counts
          <6>4. BlockType'
            <7>1. CASE sent + 1 < Len(entry) /\ sent' = sent + 1 /\ block' = block
              <8>1. Len(entry) = IF Len(Chunk(block.data)) > 1 THEN 2 ELSE 1
                BY <3>4, EntryShape
              <8>2. Len(block.data) > 1 /\ sent' = 1
                BY <3>3, <3>4, <7>1, <8>1
              <8> QED BY <3>3, <7>1, <8>2 DEF BlockType
            <7>2. CASE /\ Remaining(block).data # <<>> /\ block' = Remaining(block)
                       /\ sent' = 0
              <8>1. Remaining(block).data \in Seq(Byte)
                BY <3>4
              <8>2. Len(Remaining(block).data) \in Nat /\ Len(Remaining(block).data) # 0
                BY <7>2, <8>1, EmptySeq, LenProperties
              <8>3. Remaining(block).address + Len(Remaining(block).data)
                        <= WEAR_LEVELING_LOGICAL_SIZE
                <9>1. /\ block.address \in Nat /\ Len(block.data) \in Nat
                      /\ Len(Chunk(block.data)) \in Nat
                  BY <3>3, <3>4, LenProperties DEF IsChunk
                <9> QED BY <3>3, <3>4, <9>1
              <8>4. Len(Remaining(block).data) >= 1
                BY <8>2
              <8>5. sent' \in {0, 1} /\ sent' # 1
                BY <7>2
              <8> HIDE DEF entry
              <8> QED BY <3>4, <7>2, <8>3, <8>4, <8>5, Zenon DEF BlockType
            <7> QED BY <6>1, <7>1, <7>2
          <6> QED BY <2>t, <3>1, <4>2, <5>3, <6>2, <6>3, <6>4 DEF TypeInv
        <5> QED BY <5>4, <5>5
      <4> QED BY <4>5, <4>6
    <3> QED BY <3>6, <3>7
  <2>6. CASE ConsolidateErase
    <3>1. CASE Faulty /\ Failed(write_address) /\ flash' = flash
      <4>1. Return /\ Positioned' /\ BlockType' /\ Counts' /\ Switches'
        BY <2>f, <3>1 DEF Failed
      <4>2. cache' \in [Addresses -> Byte]
        BY <1>0, <2>t, <3>1 DEF Failed
      <4>3. CASE booting
        BY <2>c, <2>e, <2>t, <3>1, <4>1, <4>2, <4>3 DEF Failed, TypeInv
      <4>4. CASE ~booting
        <5>1. write_address' = 4 * n /\ phase = "consolidate"
          BY <2>6, <2>a, <3>1, <4>4 DEF Failed, ConsolidateErase
        <5>2. n >= FirstWord /\ n <= EndWord + MaxFaults + 1 /\ n <= EndWord + faults
          BY <2>a, <4>4, <5>1, Zenon DEF AppendsAt
        <5>3. n <= EndWord + faults' /\ n < EndWord + faults'
          BY <2>t, <2>z, <3>1, <5>2 DEF Faulty, Counts
        <5>4. AppendsAt(n)'
          BY <5>2, <5>3, Zenon DEF AppendsAt
        <5>5. Addressed'
          BY <5>1, <5>4 DEF Addressed
        <5> QED BY <2>t, <3>1, <4>1, <4>2, <5>5 DEF TypeInv
      <4> QED BY <4>3, <4>4
    <3>2. CASE ~(Faulty /\ Failed(write_address) /\ flash' = flash)
      <4>1. /\ flash' = Erased /\ phase' = "copy" /\ copied' = 0 /\ unlocked' = TRUE
            /\ NoFault /\ UNCHANGED <<cache, write_address, position, block, sent, booting>>
        BY <2>6, <3>2 DEF ConsolidateErase
      <4>2. FlashType(flash)' /\ cache' \in [Addresses -> Byte]
        BY <2>t, <4>1, ErasedType
      <4>3. AppendsAt(n)'
        BY <2>a, <4>1 DEF AppendsAt
      <4>4. Addressed'
        BY <2>a, <4>1, <4>3 DEF Addressed
      <4>5. Positioned' /\ BlockType' /\ Counts'
        BY <2>t, <2>z, <4>1 DEF Positioned, BlockType, Counts, NoFault
      <4>6. Switches'
        BY <2>t, <4>1, Zenon DEF Switches, NoFault
      <4> QED BY <4>2, <4>4, <4>5, <4>6 DEF TypeInv
    <3> QED BY <3>1, <3>2
  <2>7. CASE CopyWord
    <3>1. CASE Faulty /\ Failed(LogStart) /\ flash' = flash
      <4>1. Return /\ Positioned' /\ BlockType' /\ Counts' /\ Switches'
        BY <2>f, <3>1 DEF Failed
      <4>2. cache' \in [Addresses -> Byte] /\ write_address' = LogStart
        BY <1>0, <2>t, <3>1 DEF Failed
      <4> QED BY <2>c, <2>e, <2>t, <3>1, <4>1, <4>2 DEF TypeInv
    <3>2. CASE ~(Faulty /\ Failed(LogStart) /\ flash' = flash)
      <4>1. /\ flash' = [flash EXCEPT ![copied] = Programmed(flash[copied],
                                                     ImageWord(cache, copied))]
            /\ UNCHANGED <<cache, faults>>
        BY <2>7, <3>2 DEF CopyWord, Program
      <4>2. FlashType(flash)' /\ cache' \in [Addresses -> Byte]
        <5>1. copied \in Nat /\ copied \in FlashWords
              /\ (copied < DataWords \/ copied \in {DataWords, DataWords + 1})
          BY <2>t, <2>z DEF Counts
        <5>2. ImageWord(cache, copied) \in Words \/ copied \in {DataWords, DataWords + 1}
          BY <2>t, <5>1, ImageType
        <5> QED BY <2>t, <4>1, <5>1, <5>2, ProgramType
      <4>3. CASE copied = DataWords + 1
        <5>1. Return /\ write_address' = LogStart /\ damaged' = FALSE
          BY <2>7, <3>2, <4>3 DEF CopyWord
        <5>2. NoCall /\ phase' = "idle" /\ unlocked' = FALSE /\ booting' = FALSE
          BY <5>1 DEF Return, NoCall
        <5>3. faults' \in Nat /\ faults' <= MaxFaults
          BY <2>t, <4>1 DEF Counts
        <5>4. Positioned' /\ BlockType' /\ Counts' /\ Addressed'
          BY <2>d, <2>e, <5>1, <5>2, <5>3
        <5>5. Switches'
          BY <5>1, <5>2, Zenon DEF Switches
        <5> QED BY <4>2, <5>4, <5>5 DEF TypeInv
      <4>4. CASE copied # DataWords + 1
        <5>1. /\ copied' = copied + 1 /\ phase = "copy"
              /\ UNCHANGED <<write_address, unlocked, phase, position, block, sent,
                             booting, damaged>>
          BY <2>7, <3>2, <4>4 DEF CopyWord
        <5>2. AppendsAt(n)'
          BY <2>a, <5>1 DEF AppendsAt
        <5>3. Addressed'
          BY <2>a, <5>1, <5>2 DEF Addressed
        <5>4. Positioned' /\ BlockType' /\ Counts'
          BY <2>t, <2>z, <4>1, <4>4, <5>1 DEF Positioned, BlockType, Counts
        <5>5. Switches'
          BY <2>t, <5>1, Zenon DEF Switches
        <5> QED BY <4>2, <5>3, <5>4, <5>5 DEF TypeInv
      <4> QED BY <4>3, <4>4
    <3> QED BY <3>1, <3>2
  <2>8. CASE EraseCall
    <3> USE DEF EraseCall
    <3>1. AppendsAt(n)'
      <4>1. n >= FirstWord /\ n <= EndWord + MaxFaults + 1 /\ n < EndWord + faults
        BY <2>8, <2>a, Zenon DEF AppendsAt
      <4> QED BY <2>8, <4>1, Zenon DEF AppendsAt
    <3>2. Addressed'
      BY <2>8, <2>a, <3>1 DEF Addressed
    <3>3. Positioned' /\ BlockType' /\ Counts'
      BY <2>8, <2>t DEF Positioned, BlockType, Counts
    <3>4. Switches'
      BY <2>8, <2>t, Zenon DEF Switches
    <3> QED BY <2>8, <2>t, <3>2, <3>3, <3>4 DEF TypeInv
  <2>9. CASE EraseStore
    <3>1. /\ cache' = Blank /\ write_address' = LogStart /\ Return
      BY <2>9 DEF EraseStore
    <3>2. /\ NoCall /\ phase' = "idle" /\ unlocked' = FALSE /\ booting' = FALSE
      BY <3>1 DEF Return, NoCall
    <3>3. FlashType(flash)'
      BY <2>9, <2>t, ErasedType DEF EraseStore
    <3>4. faults' \in Nat /\ faults' <= MaxFaults
      BY <2>9, <2>c, <2>t DEF EraseStore, Counts
    <3>5. damaged' \in BOOLEAN
      BY <2>9, Zenon DEF EraseStore, Faulty
    <3>6. Positioned' /\ BlockType' /\ Counts' /\ Addressed'
      BY <2>d, <2>e, <3>1, <3>2, <3>4
    <3>7. Switches'
      BY <3>2, <3>5, Zenon DEF Switches
    <3> QED BY <1>0, <3>1, <3>3, <3>6, <3>7 DEF TypeInv
  <2>10. CASE PowerLoss \/ PowerLossInErase
    <3>1. /\ phase' = "off" /\ cache' = Blank /\ write_address' = LogStart
          /\ unlocked' = FALSE /\ booting' = FALSE /\ NoCall
      BY <2>10 DEF PowerLoss, PowerLossInErase, Off, NoCall
    <3>2. Faulty \/ NoFault
      BY <2>10 DEF PowerLoss, PowerLossInErase
    <3>3. FlashType(flash)'
      <4>1. CASE PowerLoss
        BY <2>t, <4>1 DEF PowerLoss
      <4>2. CASE PowerLossInErase
        <5>1. PICK m \in FlashWords \ {0} :
                 flash' = [w \in FlashWords |-> IF w < m THEN Zero ELSE flash[w]]
          BY <4>2 DEF PowerLossInErase
        <5> QED BY <2>t, <5>1, CutType
      <4> QED BY <2>10, <4>1, <4>2
    <3>4. Positioned' /\ BlockType' /\ Counts' /\ Addressed'
      BY <2>c, <2>d, <2>e, <3>1, <3>2
    <3>5. Switches'
      BY <2>c, <3>1, <3>2, Zenon DEF Switches
    <3> QED BY <1>0, <3>1, <3>3, <3>4, <3>5 DEF TypeInv
  <2>11. CASE UNCHANGED vars
    <3>1. AppendsAt(n)'
      BY <2>11, <2>a DEF AppendsAt, vars, driver
    <3>2. Addressed'
      BY <2>11, <2>a, <3>1 DEF Addressed, vars, driver
    <3>3. Positioned' /\ BlockType' /\ Counts'
      BY <2>11, <2>t DEF Positioned, BlockType, Counts, vars, driver
    <3>4. Switches'
      BY <2>11, <2>t, Zenon DEF Switches, vars, driver
    <3> QED BY <2>11, <2>t, <3>2, <3>3, <3>4 DEF TypeInv, vars, driver
  <2> QED BY <2>1, <2>2, <2>3, <2>4, <2>5, <2>6, <2>7, <2>8, <2>9, <2>10, <2>11 DEF Next
<1> QED BY <1>1, <1>2, PTL DEF Spec

\* The driver's variables keep their types and ranges: wear_leveling.c never reads
\* or programs outside the sector, never patches the cache outside the logical
\* store and keeps every address a whole flash word.
THEOREM WearTyped == Spec => []TypeOK
<1>1. TypeInv => TypeOK
  <2> SUFFICES ASSUME TypeInv PROVE TypeOK
    OBVIOUS
  <2>t. /\ FlashType(flash) /\ cache \in [Addresses -> Byte]
        /\ Addressed /\ Positioned /\ Switches /\ BlockType /\ Counts
    BY DEF TypeInv
  <2>z. /\ DataWords \in Nat /\ EndWord \in Nat /\ FirstWord \in Nat /\ MaxFaults \in Nat
        /\ LogStart = 4 * FirstWord /\ WEAR_LEVELING_BACKING_SIZE = 4 * EndWord
        /\ BACKING_STORE_WRITE_SIZE = 4
    BY Sizes, StartWord DEF BACKING_STORE_WRITE_SIZE
  <2>1. PICK n \in Nat : write_address = 4 * n /\ AppendsAt(n)
    BY <2>t DEF Addressed
  <2>2. PICK p \in Nat : position = 4 * p /\ p >= FirstWord /\ p <= EndWord + 1
    BY <2>t DEF Positioned
  <2>3. write_address % BACKING_STORE_WRITE_SIZE = 0
        /\ position % BACKING_STORE_WRITE_SIZE = 0
    BY <2>1, <2>2, WordOf
  <2>4. /\ write_address \in LogStart..(WEAR_LEVELING_BACKING_SIZE
                                         + (MaxFaults + 1) * BACKING_STORE_WRITE_SIZE)
        /\ position \in LogStart..(WEAR_LEVELING_BACKING_SIZE + BACKING_STORE_WRITE_SIZE)
    BY <2>1, <2>2, <2>z DEF AppendsAt
  <2>5. copied \in 0..(DataWords + 1) /\ faults \in 0..MaxFaults
    BY <2>t, <2>z DEF Counts
  <2>6. /\ block \in [address : Nat, data : Seq(Byte)]
        /\ block.address + Len(block.data) <= WEAR_LEVELING_LOGICAL_SIZE
        /\ sent \in {0, 1}
    BY <2>t DEF BlockType
  <2>7. /\ DOMAIN flash = FlashWords
        /\ \A w \in FlashWords \ {DataWords, DataWords + 1} :
              flash[w] \in [1..4 -> Byte]
    BY <2>t DEF FlashType, Words
  <2> QED BY <2>t, <2>3, <2>4, <2>5, <2>6, <2>7, Zenon DEF TypeOK, Switches
<1> QED BY <1>1, WearTypes, PTL

-----------------------------------------------------------------------------
(* Playing the log back.                                                   *)

\* Induction over the natural numbers, for a set.
LEMMA NatInduction2 ==
    ASSUME NEW S, 0 \in S, \A n \in Nat : n \in S => n + 1 \in S
    PROVE  Nat \subseteq S
<1> DEFINE Less == {ss \in Nat \X Nat : ss[1] < ss[2]}
<1>1. OpToRel(<, Nat) = Less
  BY Zenon DEF OpToRel
<1>2. IsWellFoundedOn(OpToRel(<, Nat), Nat)
  BY NatLessThanWellFounded
<1>3. IsWellFoundedOn(Less, Nat)
  BY <1>1, <1>2, Zenon
<1>4. \A x, y \in Nat : y < x => <<y, x>> \in Less
  OBVIOUS
<1> HIDE DEF Less
<1> SUFFICES ASSUME Nat \ S # {} PROVE FALSE
  OBVIOUS
<1> DEFINE T == Nat \ S
<1>5. T \subseteq Nat /\ T # {}
  OBVIOUS
<1> HIDE DEF T
<1>6. PICK x \in T : \A y \in T : ~ (<<y, x>> \in Less)
  BY <1>3, <1>5, WFMin
<1>7. x \in Nat /\ ~(x \in S)
  BY DEF T
<1>8. x - 1 \in Nat /\ x - 1 < x
  BY <1>7
<1>9. x - 1 \in S
  BY <1>4, <1>6, <1>7, <1>8 DEF T
<1>10. (x - 1) + 1 = x
  BY <1>7
<1> QED BY <1>7, <1>8, <1>9, <1>10

\* Where a playback starts, and what makes h one of n entries.
Start(fl) == [contents |-> Consolidated(fl), at |-> LogStart]

Plays(fl, n, h) ==
    /\ h[0] = Start(fl)
    /\ \A i \in Nat : i < n => h[i + 1] = PlayedOn(fl, h[i])

\* Playing back is deterministic.
LEMMA PlaysSame ==
    ASSUME NEW fl, NEW n \in Nat, NEW g, NEW h, Plays(fl, n, g), Plays(fl, n, h)
    PROVE  g[n] = h[n]
<1> DEFINE S == {i \in Nat : i <= n => g[i] = h[i]}
<1>1. 0 \in S
  BY DEF Plays
<1>2. ASSUME NEW i \in Nat, i \in S PROVE i + 1 \in S
  BY <1>2 DEF Plays
<1> HIDE DEF S
<1>3. Nat \subseteq S
  BY <1>1, <1>2, NatInduction2
<1> QED BY <1>3 DEF S

\* The playback is defined: it starts with the consolidated copy and goes on from
\* entry to entry.
LEMMA PlayedRecursion ==
    ASSUME NEW fl
    PROVE  /\ Played(fl)[0] = Start(fl)
           /\ \A n \in Nat : Played(fl)[n + 1] = PlayedOn(fl, Played(fl)[n])
<1> DEFINE Up(x) == CHOOSE t \in {PlayedOn(fl, s) : s \in {x}} : TRUE
           Good(f) == f = [n \in Nat |-> IF n = 0 THEN Start(fl) ELSE Up(f[n - 1])]
<1>1. \A x : Up(x) = PlayedOn(fl, x)
  OBVIOUS
<1>2. Played(fl) = CHOOSE f : Good(f)
  BY DEF Played, Start
<1> DEFINE S == {n \in Nat : \E h : Plays(fl, n, h)}
<1>3. 0 \in S
  <2>1. Plays(fl, 0, [i \in {0} |-> Start(fl)])
    BY DEF Plays
  <2> QED BY <2>1
<1>4. ASSUME NEW n \in Nat, n \in S PROVE n + 1 \in S
  <2>1. PICK h : Plays(fl, n, h)
    BY <1>4
  <2> DEFINE g == [i \in 0..(n + 1) |-> IF i = n + 1 THEN PlayedOn(fl, h[n]) ELSE h[i]]
  <2>2. \A i \in Nat : i <= n => g[i] = h[i]
    OBVIOUS
  <2>3. g[n + 1] = PlayedOn(fl, h[n])
    OBVIOUS
  <2> HIDE DEF g
  <2>4. ASSUME NEW i \in Nat, i < n + 1 PROVE g[i + 1] = PlayedOn(fl, g[i])
    <3>1. CASE i < n
      <4>1. g[i] = h[i] /\ g[i + 1] = h[i + 1]
        BY <2>2, <3>1
      <4> QED BY <2>1, <3>1, <4>1 DEF Plays
    <3>2. CASE i = n
      BY <2>2, <2>3, <3>2
    <3> QED BY <2>4, <3>1, <3>2
  <2>5. g[0] = Start(fl)
    BY <2>1, <2>2 DEF Plays
  <2>6. Plays(fl, n + 1, g)
    BY <2>4, <2>5 DEF Plays
  <2> QED BY <2>6
<1>5. \A n \in Nat : \E h : Plays(fl, n, h)
  <2> HIDE DEF S
  <2>1. Nat \subseteq S
    BY <1>3, <1>4, NatInduction2
  <2> QED BY <2>1 DEF S
<1> DEFINE H(n) == CHOOSE h : Plays(fl, n, h)
           f == [n \in Nat |-> H(n)[n]]
<1>6. \A n \in Nat : Plays(fl, n, H(n))
  BY <1>5
<1> HIDE DEF H
<1>7. f[0] = Start(fl)
  BY <1>6 DEF Plays
<1>8. ASSUME NEW n \in Nat PROVE f[n + 1] = PlayedOn(fl, f[n])
  <2>1. Plays(fl, n + 1, H(n + 1)) /\ Plays(fl, n, H(n))
    BY <1>6
  <2>2. H(n + 1)[n + 1] = PlayedOn(fl, H(n + 1)[n])
    BY <2>1 DEF Plays
  <2>3. Plays(fl, n, H(n + 1))
    BY <2>1 DEF Plays
  <2>4. H(n + 1)[n] = H(n)[n]
    BY <2>1, <2>3, PlaysSame
  <2> QED BY <2>2, <2>4
<1> HIDE DEF Up
<1>9. Good(f)
  <2>1. ASSUME NEW n \in Nat, n # 0 PROVE f[n] = Up(f[n - 1])
    <3>1. n - 1 \in Nat /\ (n - 1) + 1 = n
      BY <2>1
    <3>2. f[(n - 1) + 1] = PlayedOn(fl, f[n - 1])
      BY <1>8, <3>1
    <3> QED BY <1>1, <3>1, <3>2
  <2>2. \A n \in Nat : f[n] = IF n = 0 THEN Start(fl) ELSE Up(f[n - 1])
    BY <1>7, <2>1
  <2>3. f = [n \in Nat |-> f[n]]
    OBVIOUS
  <2> HIDE DEF f
  <2> QED BY <2>2, <2>3
<1> HIDE DEF Good
<1>10. Good(Played(fl))
  BY <1>2, <1>9
<1> DEFINE R == Played(fl)
<1>11. R = [n \in Nat |-> IF n = 0 THEN Start(fl) ELSE Up(R[n - 1])]
  BY <1>10 DEF Good
<1> HIDE DEF R
<1>12. R[0] = Start(fl)
  BY <1>11
<1>13. ASSUME NEW n \in Nat PROVE R[n + 1] = Up(R[n])
  <2>1. n + 1 \in Nat /\ n + 1 # 0 /\ (n + 1) - 1 = n
    OBVIOUS
  <2> QED BY <1>11, <2>1
<1> QED BY <1>1, <1>12, <1>13 DEF R
-----------------------------------------------------------------------------
(* What the flash says at any moment.                                      *)

\* The playback of fl comes to word n in K entries, none of which ends it.
Prefix(fl, K, n) ==
    /\ K \in Nat /\ n \in Nat
    /\ Played(fl)[K].at = 4 * n
    /\ \A k \in 0..(K - 1) :
          LET at   == Played(fl)[k].at
              word == fl[at \div BACKING_STORE_WRITE_SIZE]
          IN  /\ at < WEAR_LEVELING_BACKING_SIZE /\ word # Zero
              /\ ~EntryRefused(word) /\ EntryLength(word) <= 5

\* These entries are the log: it ends at word n and nothing lies behind it.
LogIs(fl, K, n) ==
    /\ Prefix(fl, K, n)
    /\ n >= FirstWord /\ n <= EndWord + 1
    /\ \A w \in FlashWords : w >= n => fl[w] = Zero

\* The block being logged starts at the end of the log; or its first word is the
\* log's last entry, and the word behind it is still to come.
Appending(K, n) ==
    /\ sent = 0 => /\ write_address = 4 * n
                   /\ cache = Patched(Played(flash)[K].contents, block.address,
                                      block.data)
    /\ sent = 1 => /\ write_address = 4 * (n - 1) /\ n >= FirstWord + 2
                   /\ flash[n - 1] = Zero
                   /\ flash[n - 2] = Entry(block.address, Chunk(block.data))[1]
                   /\ K >= 1 /\ Played(flash)[K - 1].at = 4 * (n - 2)
                   /\ cache = Patched(Played(flash)[K - 1].contents,
                                      block.address, block.data)

\* The part of the image that has been copied, on erased flash.
CopyInv ==
    phase = "copy" =>
        /\ unlocked
        /\ \A w \in FlashWords :
              flash[w] = IF w < copied THEN ImageWord(cache, w) ELSE Zero

\* What the running call knows of the log.
LogHolds(K, n) ==
    /\ LogIs(flash, K, n)
    /\ phase = "playback" =>
          \E k \in Nat : /\ k <= K
                         /\ position = Played(flash)[k].at
                         /\ cache = Played(flash)[k].contents
    /\ phase \in {"idle", "erase"} =>
          /\ write_address = 4 * n /\ n < EndWord
          /\ cache = Played(flash)[K].contents
    /\ phase = "append" =>
          /\ unlocked /\ write_address < WEAR_LEVELING_BACKING_SIZE
          /\ Appending(K, n)

\* As long as no flash operation has failed, the flash holds such a log.
LogInv == ~damaged /\ phase # "copy" => \E K, n \in Nat : LogHolds(K, n)

\* The bytes a playback of fl takes out of the entry at word p.
Bytes(fl, p) == SubSeq(EntryBytes(fl[p], fl[p + 1], <<0, 0>>), 1, EntryLength(fl[p]))

PlayState(s) ==
    /\ s.contents \in [Addresses -> Byte]
    /\ \E p \in Nat : s.at = 4 * p /\ p >= FirstWord /\ p <= EndWord + 1

\* An entry that does not end the playback takes it on by one word or two.
LEMMA GoesOn ==
    ASSUME NEW fl, FlashType(fl), NEW s, NEW p \in Nat, s.at = 4 * p, p >= FirstWord,
           p < EndWord, fl[p] # Zero, ~EntryRefused(fl[p])
    PROVE  PlayedOn(fl, s) =
               [contents |-> Patched(s.contents, EntryAddress(fl[p]), Bytes(fl, p)),
                at |-> 4 * (p + (IF EntryLength(fl[p]) > 1 THEN 2 ELSE 1))]
<1>1. s.at \div BACKING_STORE_WRITE_SIZE = p
  BY WordOf
<1>2. ~(s.at >= WEAR_LEVELING_BACKING_SIZE)
  BY Sizes
<1>3. fl[p] \in Words
  BY LogWord
<1>4. s.at + EntrySize(fl[p]) = 4 * (p + (IF EntryLength(fl[p]) > 1 THEN 2 ELSE 1))
  BY <1>3, EntryNumbers
<1> QED BY <1>1, <1>2, <1>4 DEF PlayedOn, Bytes

\* The end of the store and an empty slot stop it.
LEMMA Stops ==
    ASSUME NEW fl, NEW s, NEW p \in Nat, s.at = 4 * p, p >= EndWord \/ fl[p] = Zero
    PROVE  PlayedOn(fl, s) = s
<1>1. s.at \div BACKING_STORE_WRITE_SIZE = p
  BY WordOf
<1>2. p >= EndWord => s.at >= WEAR_LEVELING_BACKING_SIZE
  BY Sizes
<1> QED BY <1>1, <1>2 DEF PlayedOn

\* One more entry leaves contents of the store and an address of the sector.
LEMMA StepTyped ==
    ASSUME NEW fl, FlashType(fl), NEW s, PlayState(s)
    PROVE  PlayState(PlayedOn(fl, s))
<1>1. PICK p \in Nat : s.at = 4 * p /\ p >= FirstWord /\ p <= EndWord + 1
  BY DEF PlayState
<1>2. CASE p < EndWord /\ fl[p] # Zero /\ ~EntryRefused(fl[p])
  <2>1. fl[p] \in Words /\ fl[p + 1] \in Words
    BY <1>1, <1>2, LogWord
  <2>2. <<0, 0>> \in Seq(Byte) /\ Len(<<0, 0>>) = 2
    BY DEF Byte
  <2>3. EntryLength(fl[p]) \in Nat /\ EntryLength(fl[p]) <= 5 + Len(<<0, 0>>)
    BY <2>1, <2>2, EntryNumbers
  <2>4. Patched(s.contents, EntryAddress(fl[p]), Bytes(fl, p)) \in [Addresses -> Byte]
    BY <1>2, <2>1, <2>2, <2>3, EntryPatches DEF PlayState, Bytes
  <2> DEFINE q == p + (IF EntryLength(fl[p]) > 1 THEN 2 ELSE 1)
  <2>5. q \in Nat /\ q >= FirstWord /\ q <= EndWord + 1
    BY <1>1, <1>2, Sizes
  <2>6. PlayedOn(fl, s) =
            [contents |-> Patched(s.contents, EntryAddress(fl[p]), Bytes(fl, p)),
             at |-> 4 * q]
    BY <1>1, <1>2, GoesOn
  <2> HIDE DEF q
  <2> QED BY <2>4, <2>5, <2>6 DEF PlayState
<1>3. CASE ~(p < EndWord /\ fl[p] # Zero /\ ~EntryRefused(fl[p]))
  <2>1. s.at \div BACKING_STORE_WRITE_SIZE = p
    BY <1>1, WordOf
  <2>2. ~(p < EndWord) => s.at >= WEAR_LEVELING_BACKING_SIZE
    BY <1>1, Sizes
  <2>3. PlayedOn(fl, s) = s
    BY <1>3, <2>1, <2>2 DEF PlayedOn
  <2> QED BY <2>3
<1> QED BY <1>2, <1>3

\* So does a whole playback.
LEMMA PlayedTyped ==
    ASSUME NEW fl, FlashType(fl)
    PROVE  \A k \in Nat : PlayState(Played(fl)[k])
<1> DEFINE S == {k \in Nat : PlayState(Played(fl)[k])}
<1>1. 0 \in S
  <2>1. Start(fl).contents \in [Addresses -> Byte] /\ Start(fl).at = 4 * FirstWord
    BY ConsolidatedType, StartWord DEF Start
  <2>2. FirstWord \in Nat /\ FirstWord <= EndWord + 1
    BY Sizes, StartWord
  <2>3. PlayState(Start(fl))
    BY <2>1, <2>2 DEF PlayState
  <2> QED BY <2>3, PlayedRecursion
<1>2. ASSUME NEW k \in Nat, k \in S PROVE k + 1 \in S
  BY <1>2, StepTyped, PlayedRecursion
<1> HIDE DEF S
<1>3. Nat \subseteq S
  BY <1>1, <1>2, NatInduction2
<1> QED BY <1>3 DEF S

\* An entry of the log.
IsEntry(fl, p) ==
    /\ p \in Nat /\ p >= FirstWord /\ p < EndWord
    /\ fl[p] \in Words /\ fl[p + 1] \in Words
    /\ fl[p] # Zero /\ ~EntryRefused(fl[p]) /\ EntryLength(fl[p]) <= 5

\* Every entry of the log is passed by the playback.
LEMMA PrefixEntry ==
    ASSUME NEW fl, FlashType(fl), NEW K, NEW n, Prefix(fl, K, n),
           NEW k \in Nat, k < K
    PROVE  \E p \in Nat :
              /\ Played(fl)[k].at = 4 * p /\ IsEntry(fl, p)
              /\ Played(fl)[k + 1] =
                   [contents |-> Patched(Played(fl)[k].contents, EntryAddress(fl[p]),
                                         Bytes(fl, p)),
                    at |-> 4 * (p + (IF EntryLength(fl[p]) > 1 THEN 2 ELSE 1))]
<1> DEFINE s == Played(fl)[k]
<1>0. K \in Nat /\ k \in 0..(K - 1)
  BY DEF Prefix
<1>1. PICK p \in Nat : s.at = 4 * p /\ p >= FirstWord /\ p <= EndWord + 1
  BY PlayedTyped DEF PlayState
<1>2. s.at \div BACKING_STORE_WRITE_SIZE = p
  BY <1>1, WordOf
<1>3. /\ s.at < WEAR_LEVELING_BACKING_SIZE /\ fl[p] # Zero
      /\ ~EntryRefused(fl[p]) /\ EntryLength(fl[p]) <= 5
  BY <1>0, <1>2 DEF Prefix
<1>4. p < EndWord
  BY <1>1, <1>3, Sizes
<1>5. IsEntry(fl, p)
  BY <1>1, <1>3, <1>4, LogWord DEF IsEntry
<1> HIDE DEF s
<1>6. PlayedOn(fl, s) =
         [contents |-> Patched(s.contents, EntryAddress(fl[p]), Bytes(fl, p)),
          at |-> 4 * (p + (IF EntryLength(fl[p]) > 1 THEN 2 ELSE 1))]
  BY <1>1, <1>3, <1>4, GoesOn
<1>7. Played(fl)[k + 1] = PlayedOn(fl, Played(fl)[k])
  BY PlayedRecursion
<1> QED BY <1>1, <1>5, <1>6, <1>7 DEF s

\* The entries lie one behind the other.
LEMMA Rises ==
    ASSUME NEW fl, FlashType(fl), NEW K, NEW n, Prefix(fl, K, n),
           NEW j \in Nat, NEW d \in Nat, j + d <= K
    PROVE  Played(fl)[j].at + 4 * d <= Played(fl)[j + d].at
<1> DEFINE R == Played(fl)
           S == {e \in Nat : j + e <= K => R[j].at + 4 * e <= R[j + e].at}
<1>0. \A k \in Nat : R[k].at \in Nat
  BY PlayedTyped DEF PlayState
<1>1. K \in Nat
  BY DEF Prefix
<1>2. 0 \in S
  BY <1>0
<1>3. ASSUME NEW e \in Nat, e \in S PROVE e + 1 \in S
  <2> SUFFICES ASSUME j + (e + 1) <= K
               PROVE  R[j].at + 4 * (e + 1) <= R[j + (e + 1)].at
    OBVIOUS
  <2>1. j + e \in Nat /\ j + e < K /\ j + (e + 1) = (j + e) + 1
    BY <1>1
  <2>2. PICK p \in Nat :
           /\ R[j + e].at = 4 * p
           /\ R[(j + e) + 1] =
                [contents |-> Patched(R[j + e].contents, EntryAddress(fl[p]),
                                      Bytes(fl, p)),
                 at |-> 4 * (p + (IF EntryLength(fl[p]) > 1 THEN 2 ELSE 1))]
    BY <2>1, PrefixEntry
  <2>3. R[(j + e) + 1].at = 4 * (p + (IF EntryLength(fl[p]) > 1 THEN 2 ELSE 1))
    BY <2>2
  <2>4. R[j + e].at + 4 <= R[(j + e) + 1].at
    BY <2>2, <2>3
  <2>5. R[j].at + 4 * e <= R[j + e].at
    BY <1>1, <1>3, <2>1
  <2> HIDE DEF R
  <2>6. R[j].at \in Nat /\ R[j + e].at \in Nat /\ R[(j + e) + 1].at \in Nat
    BY <1>0, <2>1
  <2>7. R[j].at + 4 * (e + 1) <= R[(j + e) + 1].at
    BY <2>4, <2>5, <2>6
  <2> QED BY <2>1, <2>7
<1> HIDE DEF S
<1>4. Nat \subseteq S
  BY <1>2, <1>3, NatInduction2
<1> QED BY <1>4 DEF S

\* A playback that has stopped stays where it is.
LEMMA Frozen ==
    ASSUME NEW fl, NEW K \in Nat, PlayedOn(fl, Played(fl)[K]) = Played(fl)[K],
           NEW m \in Nat, m >= K
    PROVE  Played(fl)[m] = Played(fl)[K]
<1> DEFINE R == Played(fl)
           S == {d \in Nat : R[K + d] = R[K]}
<1>1. 0 \in S
  OBVIOUS
<1>2. ASSUME NEW d \in Nat, d \in S PROVE d + 1 \in S
  <2>1. K + d \in Nat /\ K + (d + 1) = (K + d) + 1
    OBVIOUS
  <2>2. R[(K + d) + 1] = PlayedOn(fl, R[K + d])
    BY <2>1, PlayedRecursion
  <2> QED BY <1>2, <2>1, <2>2
<1> HIDE DEF S
<1>3. Nat \subseteq S
  BY <1>1, <1>2, NatInduction2
<1>4. m - K \in Nat /\ K + (m - K) = m
  OBVIOUS
<1>5. R[K + (m - K)] = R[K]
  BY <1>3, <1>4 DEF S
<1> QED BY <1>4, <1>5

\* A log has fewer entries than the store has words, so that Replayed is its end.
LEMMA LogEnds ==
    ASSUME NEW fl, FlashType(fl), NEW K, NEW n, LogIs(fl, K, n)
    PROVE  /\ K <= EndWord
           /\ Played(fl)[EndWord] = Played(fl)[K]
<1> DEFINE R == Played(fl)
<1>1. /\ K \in Nat /\ n \in Nat /\ R[K].at = 4 * n /\ n <= EndWord + 1
      /\ Prefix(fl, K, n) /\ n >= FirstWord
      /\ \A w \in FlashWords : w >= n => fl[w] = Zero
  BY DEF LogIs, Prefix
<1>2. R[0].at = 4 * FirstWord
  <2>1. R[0] = Start(fl)
    BY PlayedRecursion
  <2>2. Start(fl).at = LogStart
    BY DEF Start
  <2> HIDE DEF R
  <2> QED BY <2>1, <2>2, StartWord
<1>3. R[0].at + 4 * K <= R[0 + K].at
  BY <1>1, Rises
<1>4. 0 + K = K
  BY <1>1
<1> HIDE DEF R
<1>5. K <= EndWord
  BY <1>1, <1>2, <1>3, <1>4, Sizes
<1>6. n >= EndWord \/ fl[n] = Zero
  BY <1>1, Sizes
<1>7. PlayedOn(fl, R[K]) = R[K]
  BY <1>1, <1>6, Stops
<1>8. EndWord \in Nat
  BY Sizes
<1> QED BY <1>1, <1>5, <1>7, <1>8, Frozen DEF R

\* A shorter prefix is a prefix.
LEMMA PrefixShorter ==
    ASSUME NEW fl, NEW K, NEW n, Prefix(fl, K, n), NEW j \in Nat, j <= K,
           NEW m \in Nat, Played(fl)[j].at = 4 * m
    PROVE  Prefix(fl, j, m)
<1>1. K \in Nat /\ \A k \in 0..(j - 1) : k \in 0..(K - 1)
  BY DEF Prefix
<1> QED BY <1>1 DEF Prefix

\* The checksum and the data lie before the log.
LEMMA ConsolidatedSame ==
    ASSUME NEW fl, NEW fl2, \A w \in FlashWords : w < FirstWord => fl2[w] = fl[w]
    PROVE  Consolidated(fl2) = Consolidated(fl)
<1>1. ASSUME NEW a \in Addresses
      PROVE  fl2[a \div BACKING_STORE_WRITE_SIZE] = fl[a \div BACKING_STORE_WRITE_SIZE]
  <2> DEFINE q == a \div 4
  <2>0. BACKING_STORE_WRITE_SIZE = 4
    BY DEF BACKING_STORE_WRITE_SIZE
  <2>1. a \in Nat /\ a < 4 * DataWords
    BY Sizes DEF Addresses
  <2>2. q \in Nat /\ a >= 4 * q
    BY <2>1
  <2> HIDE DEF q
  <2>3. q < DataWords
    BY <2>1, <2>2, Sizes
  <2>4. q \in FlashWords /\ q < FirstWord
    BY <2>2, <2>3, Sizes
  <2>5. fl2[q] = fl[q]
    BY <2>4
  <2> QED BY <2>0, <2>5 DEF q
<1>2. StoredBytes(fl2) = StoredBytes(fl)
  BY <1>1 DEF StoredBytes
<1>3. DataWords \in FlashWords /\ DataWords + 1 \in FlashWords
      /\ DataWords < FirstWord /\ DataWords + 1 < FirstWord
  BY Sizes
<1>4. fl2[DataWords] = fl[DataWords] /\ fl2[DataWords + 1] = fl[DataWords + 1]
  BY <1>3
<1> QED BY <1>2, <1>4 DEF Consolidated

\* What lies behind a one-byte entry does not matter to it, nor does what lies
\* behind a longer one whose two words are the same.
LEMMA BytesSame ==
    ASSUME NEW fl, NEW fl2, NEW p, IsEntry(fl, p), fl2[p] = fl[p], fl2[p + 1] \in Words,
           EntryLength(fl[p]) > 1 => fl2[p + 1] = fl[p + 1]
    PROVE  Bytes(fl2, p) = Bytes(fl, p)
<1>1. /\ fl[p] \in Words /\ fl[p + 1] \in Words /\ fl2[p + 1] \in Words
  BY DEF IsEntry
<1> DEFINE len == EntryLength(fl[p])
           zeros == <<0, 0>>
           x == SubSeq(EntryBytes(fl[p], fl[p + 1], zeros), 1, len)
           y == SubSeq(EntryBytes(fl[p], fl2[p + 1], zeros), 1, len)
<1>2. zeros \in Seq(Byte) /\ Len(zeros) = 2
  BY DEF Byte
<1>3. len \in Nat /\ len <= 5 + Len(zeros) /\ len <= 5
  BY <1>1, <1>2, EntryNumbers DEF IsEntry
<1>4. x = Bytes(fl, p) /\ y = Bytes(fl2, p)
  BY DEF Bytes
<1>7. CASE len > 1
  BY <1>4, <1>7
<1>8. CASE ~(len > 1)
  <2> HIDE DEF zeros, len
  <2>5. /\ x \in Seq(Byte) /\ Len(x) = len
        /\ \A i \in 1..len : i <= 5 => x[i] = IF i = 1 THEN fl[p][4] ELSE fl[p + 1][i - 1]
    BY <1>1, <1>2, <1>3, BytesOfEntry
  <2>6. /\ y \in Seq(Byte) /\ Len(y) = len
        /\ \A i \in 1..len : i <= 5 => y[i] = IF i = 1 THEN fl[p][4] ELSE fl2[p + 1][i - 1]
    BY <1>1, <1>2, <1>3, BytesOfEntry
  <2> HIDE DEF x, y
  <2>1. \A i \in 1..len : i <= 5 /\ i = 1
    BY <1>3, <1>8
  <2>2. \A i \in 1..len : x[i] = y[i]
    BY <2>1, <2>5, <2>6
  <2>3. x = y
    BY <2>2, <2>5, <2>6, SeqEqual
  <2> QED BY <1>4, <2>3
<1> QED BY <1>7, <1>8

\* Programming words behind a prefix leaves it as it is.
LEMMA SamePrefix ==
    ASSUME NEW fl, FlashType(fl), NEW fl2, FlashType(fl2), NEW K, NEW n, Prefix(fl, K, n),
           \A w \in FlashWords : w < n => fl2[w] = fl[w]
    PROVE  /\ Prefix(fl2, K, n)
           /\ \A k \in Nat : k <= K => Played(fl2)[k] = Played(fl)[k]
<1> DEFINE R == Played(fl)
           Q == Played(fl2)
           S == {k \in Nat : k <= K => Q[k] = R[k]}
<1>1. K \in Nat /\ n \in Nat /\ R[K].at = 4 * n
  BY DEF Prefix
<1>2. \A k \in Nat : k <= K => R[k].at + 4 * (K - k) <= 4 * n
  <2> SUFFICES ASSUME NEW k \in Nat, k <= K PROVE R[k].at + 4 * (K - k) <= 4 * n
    OBVIOUS
  <2>1. K - k \in Nat /\ k + (K - k) = K
    BY <1>1
  <2>2. R[k].at + 4 * (K - k) <= R[k + (K - k)].at
    BY <2>1, Rises
  <2> QED BY <1>1, <2>1, <2>2
<1>3. 0 \in S
  <2>1. R[0] = Start(fl) /\ Q[0] = Start(fl2)
    BY PlayedRecursion
  <2>2. Start(fl).at = LogStart
    BY DEF Start
  <2>3. n >= FirstWord
    <3> HIDE DEF R
    <3>1. R[0].at + 4 * (K - 0) <= 4 * n
      BY <1>1, <1>2
    <3> QED BY <1>1, <2>1, <2>2, <3>1, StartWord
  <2>4. \A w \in FlashWords : w < FirstWord => fl2[w] = fl[w]
    BY <1>1, <2>3, Sizes
  <2>5. Start(fl2) = Start(fl)
    BY <2>4, ConsolidatedSame DEF Start
  <2> QED BY <2>1, <2>5
<1>4. ASSUME NEW k \in Nat, k < K
      PROVE  \E p \in Nat : /\ R[k].at = 4 * p /\ IsEntry(fl, p)
                            /\ fl2[p] = fl[p] /\ fl2[p + 1] \in Words
                            /\ Bytes(fl2, p) = Bytes(fl, p)
                            /\ PlayedOn(fl2, R[k]) = R[k + 1]
  <2>1. PICK p \in Nat :
           /\ R[k].at = 4 * p /\ IsEntry(fl, p)
           /\ R[k + 1] =
                [contents |-> Patched(R[k].contents, EntryAddress(fl[p]), Bytes(fl, p)),
                 at |-> 4 * (p + (IF EntryLength(fl[p]) > 1 THEN 2 ELSE 1))]
    BY <1>4, PrefixEntry
  <2>2. R[k + 1].at = 4 * (p + (IF EntryLength(fl[p]) > 1 THEN 2 ELSE 1))
    BY <2>1
  <2>3. R[k + 1].at + 4 * (K - (k + 1)) <= 4 * n
    BY <1>1, <1>2, <1>4
  <2>4. p < n /\ (EntryLength(fl[p]) > 1 => p + 1 < n)
    <3> HIDE DEF R
    <3> QED BY <1>1, <1>4, <2>1, <2>2, <2>3
  <2>5. p >= FirstWord /\ p < EndWord /\ fl[p] # Zero /\ ~EntryRefused(fl[p])
    BY <2>1 DEF IsEntry
  <2>6. p \in FlashWords /\ p + 1 \in FlashWords /\ fl2[p + 1] \in Words
    BY <2>5, LogWord
  <2>7. fl2[p] = fl[p] /\ (EntryLength(fl[p]) > 1 => fl2[p + 1] = fl[p + 1])
    BY <2>4, <2>6
  <2>8. Bytes(fl2, p) = Bytes(fl, p)
    BY <2>1, <2>6, <2>7, BytesSame
  <2>9. PlayedOn(fl2, R[k]) =
           [contents |-> Patched(R[k].contents, EntryAddress(fl2[p]), Bytes(fl2, p)),
            at |-> 4 * (p + (IF EntryLength(fl2[p]) > 1 THEN 2 ELSE 1))]
    <3>1. p >= FirstWord /\ p < EndWord /\ fl2[p] # Zero /\ ~EntryRefused(fl2[p])
      BY <2>5, <2>7
    <3> HIDE DEF R
    <3> QED BY <2>1, <3>1, GoesOn
  <2>10. PlayedOn(fl2, R[k]) = R[k + 1]
    BY <2>1, <2>7, <2>8, <2>9
  <2> QED BY <2>1, <2>6, <2>7, <2>8, <2>10
<1>5. ASSUME NEW k \in Nat, k \in S PROVE k + 1 \in S
  <2> SUFFICES ASSUME k + 1 <= K PROVE Q[k + 1] = R[k + 1]
    OBVIOUS
  <2>1. k < K /\ k <= K
    BY <1>1
  <2>2. Q[k] = R[k]
    BY <1>5, <2>1
  <2>3. Q[k + 1] = PlayedOn(fl2, Q[k])
    BY PlayedRecursion
  <2>4. PlayedOn(fl2, R[k]) = R[k + 1]
    BY <1>4, <2>1
  <2> QED BY <2>2, <2>3, <2>4
<1> HIDE DEF S
<1>6. Nat \subseteq S
  BY <1>3, <1>5, NatInduction2
<1>7. \A k \in Nat : k <= K => Q[k] = R[k]
  BY <1>6 DEF S
<1>8. ASSUME NEW k \in 0..(K - 1)
      PROVE  LET at   == Q[k].at
                 word == fl2[at \div BACKING_STORE_WRITE_SIZE]
             IN  /\ at < WEAR_LEVELING_BACKING_SIZE /\ word # Zero
                 /\ ~EntryRefused(word) /\ EntryLength(word) <= 5
  <2>1. k \in Nat /\ k < K /\ k <= K
    BY <1>1
  <2>2. PICK p \in Nat : R[k].at = 4 * p /\ IsEntry(fl, p) /\ fl2[p] = fl[p]
    BY <1>4, <2>1
  <2>3. Q[k].at = 4 * p
    BY <1>7, <2>1, <2>2
  <2> HIDE DEF Q
  <2>4. Q[k].at \div BACKING_STORE_WRITE_SIZE = p
    BY <2>3, WordOf
  <2>5. Q[k].at < WEAR_LEVELING_BACKING_SIZE
    BY <2>2, <2>3, Sizes DEF IsEntry
  <2> QED BY <2>2, <2>4, <2>5 DEF IsEntry
<1>9. Q[K].at = 4 * n
  BY <1>1, <1>7
<1> QED BY <1>1, <1>7, <1>8, <1>9 DEF Prefix

-----------------------------------------------------------------------------
(* Appending to the log.                                                   *)

\* An entry at the end of a prefix makes it longer.
LEMMA PrefixGrows ==
    ASSUME NEW fl, FlashType(fl), NEW K, NEW n, Prefix(fl, K, n), n >= FirstWord,
           n < EndWord, fl[n] # Zero, ~EntryRefused(fl[n]), EntryLength(fl[n]) <= 5
    PROVE  /\ Prefix(fl, K + 1, n + (IF EntryLength(fl[n]) > 1 THEN 2 ELSE 1))
           /\ Played(fl)[K + 1].contents =
                Patched(Played(fl)[K].contents, EntryAddress(fl[n]), Bytes(fl, n))
<1> DEFINE R == Played(fl)
           m == n + (IF EntryLength(fl[n]) > 1 THEN 2 ELSE 1)
<1>1. K \in Nat /\ n \in Nat /\ R[K].at = 4 * n
  BY DEF Prefix
<1>2. PlayedOn(fl, R[K]) =
         [contents |-> Patched(R[K].contents, EntryAddress(fl[n]), Bytes(fl, n)),
          at |-> 4 * m]
  <2> HIDE DEF R
  <2> QED BY <1>1, GoesOn
<1>3. R[K + 1] = PlayedOn(fl, R[K])
  BY <1>1, PlayedRecursion
<1>4. m \in Nat /\ K + 1 \in Nat
  BY <1>1
<1> HIDE DEF m
<1>5. /\ R[K + 1].at = 4 * m
      /\ R[K + 1].contents = Patched(R[K].contents, EntryAddress(fl[n]), Bytes(fl, n))
  BY <1>2, <1>3
<1>6. ASSUME NEW k \in 0..((K + 1) - 1)
      PROVE  LET at   == R[k].at
                 word == fl[at \div BACKING_STORE_WRITE_SIZE]
             IN  /\ at < WEAR_LEVELING_BACKING_SIZE /\ word # Zero
                 /\ ~EntryRefused(word) /\ EntryLength(word) <= 5
  <2>1. CASE k = K
    <3> HIDE DEF R
    <3>1. R[K].at \div BACKING_STORE_WRITE_SIZE = n
      BY <1>1, WordOf
    <3>2. R[K].at < WEAR_LEVELING_BACKING_SIZE
      BY <1>1, Sizes
    <3> QED BY <2>1, <3>1, <3>2
  <2>2. CASE k # K
    <3>1. k \in 0..(K - 1)
      BY <1>1, <2>2
    <3> QED BY <3>1 DEF Prefix
  <2> QED BY <2>1, <2>2
<1>7. Prefix(fl, K + 1, m)
  BY <1>4, <1>5, <1>6 DEF Prefix
<1> QED BY <1>5, <1>7 DEF m

\* The bytes of an entry whose second word is still erased.
Torn(d) == [i \in 1..Len(d) |-> IF i = 1 THEN d[1] ELSE 0]

\* What the playback reads where an entry has been written, whole or in part.
LEMMA EntryRead ==
    ASSUME NEW fl, NEW n \in Nat, NEW a, NEW d, IsChunk(a, d),
           fl[n] = Entry(a, d)[1], fl[n + 1] \in Words
    PROVE  /\ fl[n] \in Words /\ fl[n] # Zero /\ ~EntryRefused(fl[n])
           /\ EntryAddress(fl[n]) = a /\ EntryLength(fl[n]) = Len(d)
           /\ Len(d) > 1 /\ fl[n + 1] = Zero => Bytes(fl, n) = Torn(d)
           /\ Len(d) = 1 \/ fl[n + 1] = Entry(a, d)[2] => Bytes(fl, n) = d
<1> DEFINE e == Entry(a, d)
           zeros == <<0, 0>>
           len == Len(d)
           bytes == SubSeq(EntryBytes(fl[n], fl[n + 1], zeros), 1, len)
<1>1. /\ e[1] \in Words /\ e[1] # Zero /\ ~EntryRefused(e[1])
      /\ EntryAddress(e[1]) = a /\ EntryLength(e[1]) = Len(d) /\ e[1][4] = d[1]
      /\ Len(d) > 1 => \A i \in 1..Len(d) : i > 1 => e[2][i - 1] = d[i]
  BY EntryShape
<1> HIDE DEF e
<1>2. fl[n] = e[1]
  BY DEF e
<1>3. d \in Seq(Byte) /\ Len(d) \in Nat /\ Len(d) >= 1 /\ Len(d) <= 5
  BY DEF IsChunk
<1>4. zeros \in Seq(Byte) /\ Len(zeros) = 2
  BY DEF Byte
<1>5. Bytes(fl, n) = bytes
  BY <1>1, <1>2 DEF Bytes
<1> HIDE DEF zeros
<1>6. /\ bytes \in Seq(Byte) /\ Len(bytes) = Len(d)
      /\ \A i \in 1..Len(d) : i <= 5 =>
            bytes[i] = IF i = 1 THEN fl[n][4] ELSE fl[n + 1][i - 1]
  <2>1. len \in Nat /\ len <= 5 + Len(zeros) /\ fl[n] \in Words
    BY <1>1, <1>2, <1>3, <1>4
  <2> HIDE DEF len
  <2> DEFINE x == fl[n]
             y == fl[n + 1]
             b == SubSeq(EntryBytes(x, y, zeros), 1, len)
  <2>3. x \in Words /\ y \in Words /\ bytes = b
    BY <2>1
  <2> HIDE DEF x, y, bytes
  <2>4. /\ b \in Seq(Byte) /\ Len(b) = len
        /\ \A i \in 1..len : i <= 5 => b[i] = IF i = 1 THEN x[4] ELSE y[i - 1]
    <3>1. zeros \in Seq(Byte)
      BY <1>4
    <3>2. len \in Nat
      BY <2>1
    <3>3. len <= 5 + Len(zeros)
      BY <2>1
    <3>4. x \in Words
      BY <2>3
    <3>5. y \in Words
      BY <2>3
    <3> QED BY ONLY <3>1, <3>2, <3>3, <3>4, <3>5, BytesOfEntry
  <2> HIDE DEF b
  <2>2. /\ bytes \in Seq(Byte) /\ Len(bytes) = len
        /\ \A i \in 1..len : i <= 5 =>
              bytes[i] = IF i = 1 THEN fl[n][4] ELSE fl[n + 1][i - 1]
    BY <2>3, <2>4 DEF x, y
  <2> QED BY <2>2 DEF len
<1> HIDE DEF bytes
<1>7. \A i \in 1..Len(d) :
         bytes[i] = IF i = 1 THEN d[1] ELSE fl[n + 1][i - 1]
  <2>1. \A i \in 1..Len(d) : i <= 5
    BY <1>3
  <2> QED BY <1>1, <1>2, <1>6, <2>1
<1>8. ASSUME Len(d) > 1, fl[n + 1] = Zero PROVE bytes = Torn(d)
  <2>1. \A i \in 1..4 : Zero[i] = 0
    BY DEF Zero
  <2>2. \A i \in 1..Len(d) : i # 1 => i - 1 \in 1..4
    BY <1>3
  <2>3. \A i \in 1..Len(d) : bytes[i] = IF i = 1 THEN d[1] ELSE 0
    BY <1>7, <1>8, <2>1, <2>2
  <2>4. bytes = [i \in 1..Len(d) |-> bytes[i]]
    BY <1>6, LenProperties
  <2> QED BY <2>3, <2>4 DEF Torn
<1>9. ASSUME Len(d) = 1 \/ fl[n + 1] = e[2] PROVE bytes = d
  <2>1. \A i \in 1..Len(d) : bytes[i] = d[i]
    <3> SUFFICES ASSUME NEW i \in 1..Len(d) PROVE bytes[i] = d[i]
      OBVIOUS
    <3>1. CASE i = 1
      BY <1>7, <3>1
    <3>2. CASE i # 1
      <4>1. i > 1 /\ Len(d) > 1
        BY <1>3, <3>2
      <4>2. fl[n + 1] = e[2]
        <5>1. \A x \in Nat : x > 1 => x # 1
          OBVIOUS
        <5> QED BY <1>3, <1>9, <4>1, <5>1, Zenon
      <4> QED BY <1>1, <1>7, <3>2, <4>1, <4>2
    <3> QED BY <3>1, <3>2
  <2> QED BY <1>3, <1>6, <2>1, SeqEqual
<1> QED BY <1>1, <1>2, <1>5, <1>8, <1>9 DEF e

\* One word has been programmed.
Writes(fl, fl2, n, v) ==
    /\ FlashType(fl2) /\ fl2[n] = v
    /\ \A w \in FlashWords : w # n => fl2[w] = fl[w]

\* Programming erased flash gives the word that was meant.
LEMMA ProgramsZero ==
    ASSUME NEW fl, FlashType(fl), NEW n \in FlashWords, fl[n] = Zero, NEW v,
           v \in Words \/ n \in {DataWords, DataWords + 1}
    PROVE  Writes(fl, [fl EXCEPT ![n] = Programmed(fl[n], v)], n, v)
<1>1. FlashType([fl EXCEPT ![n] = Programmed(fl[n], v)])
  BY ProgramType
<1> QED BY <1>1 DEF Writes, Programmed, FlashType

\* The first word of an entry: one byte is durable at once; of more, the first is
\* and the others read as zero.
LEMMA AppendFirst ==
    ASSUME NEW fl, FlashType(fl), NEW K, NEW n, LogIs(fl, K, n), n < EndWord,
           NEW a, NEW d, IsChunk(a, d), NEW fl2, Writes(fl, fl2, n, Entry(a, d)[1])
    PROVE  /\ LogIs(fl2, K + 1, n + (IF Len(d) > 1 THEN 2 ELSE 1))
           /\ Played(fl2)[K] = Played(fl)[K]
           /\ fl2[n] = Entry(a, d)[1] /\ fl2[n + 1] = Zero
           /\ Played(fl2)[K + 1].contents =
                 Patched(Played(fl)[K].contents, a, IF Len(d) > 1 THEN Torn(d) ELSE d)
<1> DEFINE m == n + (IF Len(d) > 1 THEN 2 ELSE 1)
<1>1. /\ K \in Nat /\ n \in Nat /\ n >= FirstWord /\ Prefix(fl, K, n)
      /\ \A w \in FlashWords : w >= n => fl[w] = Zero
  BY DEF LogIs, Prefix
<1>2. /\ FlashType(fl2) /\ fl2[n] = Entry(a, d)[1]
      /\ \A w \in FlashWords : w # n => fl2[w] = fl[w]
  BY DEF Writes
<1>3. n \in FlashWords /\ n + 1 \in FlashWords
  BY <1>1, LogWord
<1>6. fl2[n + 1] = Zero
  <2>1. n + 1 # n /\ n + 1 >= n
    BY <1>1
  <2> QED BY <1>1, <1>2, <1>3, <2>1
<1>7. \A w \in FlashWords : w < n => fl2[w] = fl[w]
  BY <1>1, <1>2, Sizes
<1>8. Prefix(fl2, K, n) /\ Played(fl2)[K] = Played(fl)[K]
  <2>1. /\ Prefix(fl2, K, n)
        /\ \A k \in Nat : k <= K => Played(fl2)[k] = Played(fl)[k]
    BY <1>1, <1>2, <1>7, SamePrefix
  <2> QED BY <1>1, <2>1
<1>9. /\ fl2[n] # Zero /\ ~EntryRefused(fl2[n])
      /\ EntryAddress(fl2[n]) = a /\ EntryLength(fl2[n]) = Len(d)
      /\ Len(d) > 1 => Bytes(fl2, n) = Torn(d)
      /\ Len(d) = 1 => Bytes(fl2, n) = d
  <2>1. /\ fl2[n] \in Words /\ fl2[n] # Zero /\ ~EntryRefused(fl2[n])
        /\ EntryAddress(fl2[n]) = a /\ EntryLength(fl2[n]) = Len(d)
        /\ Len(d) > 1 /\ fl2[n + 1] = Zero => Bytes(fl2, n) = Torn(d)
        /\ Len(d) = 1 \/ fl2[n + 1] = Entry(a, d)[2] => Bytes(fl2, n) = d
    BY <1>1, <1>2, <1>6, ZeroIsWord, EntryRead
  <2> QED BY <1>6, <2>1, Zenon
<1>10. Len(d) \in Nat /\ Len(d) >= 1 /\ Len(d) <= 5
  BY DEF IsChunk
<1>11. /\ Prefix(fl2, K + 1, m)
       /\ Played(fl2)[K + 1].contents =
            Patched(Played(fl2)[K].contents, a, Bytes(fl2, n))
  <2>1. EntryLength(fl2[n]) <= 5
    BY <1>9, <1>10
  <2>2. /\ Prefix(fl2, K + 1, n + (IF EntryLength(fl2[n]) > 1 THEN 2 ELSE 1))
        /\ Played(fl2)[K + 1].contents =
             Patched(Played(fl2)[K].contents, EntryAddress(fl2[n]), Bytes(fl2, n))
    BY <1>1, <1>2, <1>8, <1>9, <2>1, PrefixGrows
  <2> QED BY <1>9, <2>2, Zenon
<1>12. Bytes(fl2, n) = IF Len(d) > 1 THEN Torn(d) ELSE d
  <2>1. \A x \in Nat : x >= 1 => x > 1 \/ x = 1
    OBVIOUS
  <2> QED BY <1>9, <1>10, <2>1, Zenon
<1>13. m >= FirstWord /\ m <= EndWord + 1
  BY <1>1, <1>10, Sizes
<1>14. \A w \in FlashWords : w >= m => fl2[w] = Zero
  <2>1. \A w \in FlashWords : w >= m => w # n /\ w >= n
    BY <1>1, <1>10, Sizes
  <2> QED BY <1>1, <1>2, <2>1
<1>15. LogIs(fl2, K + 1, m)
  BY <1>11, <1>13, <1>14 DEF LogIs
<1> QED BY <1>2, <1>6, <1>8, <1>11, <1>12, <1>15

\* The second word completes the entry.
LEMMA AppendSecond ==
    ASSUME NEW fl, FlashType(fl), NEW j \in Nat, NEW m \in Nat, LogIs(fl, j + 1, m + 2),
           m >= FirstWord, m < EndWord, Played(fl)[j].at = 4 * m,
           NEW a, NEW d, IsChunk(a, d), Len(d) > 1, fl[m] = Entry(a, d)[1],
           NEW fl2, Writes(fl, fl2, m + 1, Entry(a, d)[2])
    PROVE  /\ LogIs(fl2, j + 1, m + 2)
           /\ Played(fl2)[j] = Played(fl)[j]
           /\ Played(fl2)[j + 1].contents = Patched(Played(fl)[j].contents, a, d)
<1>1. /\ Prefix(fl, j + 1, m + 2) /\ m + 2 <= EndWord + 1
      /\ \A w \in FlashWords : w >= m + 2 => fl[w] = Zero
  BY DEF LogIs
<1>2. /\ FlashType(fl2) /\ fl2[m + 1] = Entry(a, d)[2]
      /\ \A w \in FlashWords : w # m + 1 => fl2[w] = fl[w]
  BY DEF Writes
<1>3. m \in FlashWords /\ m + 1 \in FlashWords
  BY LogWord
<1>4. fl2[m + 1] \in Words
  BY <1>2, EntryShape
<1>6. fl2[m] = fl[m]
  BY <1>2, <1>3
<1>7. \A w \in FlashWords : w < m => fl2[w] = fl[w]
  BY <1>2, Sizes
<1>8. Prefix(fl, j, m)
  <2>1. j <= j + 1
    OBVIOUS
  <2> QED BY <1>1, <2>1, PrefixShorter
<1>9. Prefix(fl2, j, m) /\ Played(fl2)[j] = Played(fl)[j]
  <2>1. /\ Prefix(fl2, j, m)
        /\ \A k \in Nat : k <= j => Played(fl2)[k] = Played(fl)[k]
    BY <1>2, <1>7, <1>8, SamePrefix
  <2> QED BY <2>1
<1>10. /\ fl2[m] # Zero /\ ~EntryRefused(fl2[m])
       /\ EntryAddress(fl2[m]) = a /\ EntryLength(fl2[m]) = Len(d)
       /\ Bytes(fl2, m) = d
  <2>1. fl2[m] = Entry(a, d)[1]
    BY <1>6
  <2>2. /\ fl2[m] \in Words /\ fl2[m] # Zero /\ ~EntryRefused(fl2[m])
        /\ EntryAddress(fl2[m]) = a /\ EntryLength(fl2[m]) = Len(d)
        /\ Len(d) > 1 /\ fl2[m + 1] = Zero => Bytes(fl2, m) = Torn(d)
        /\ Len(d) = 1 \/ fl2[m + 1] = Entry(a, d)[2] => Bytes(fl2, m) = d
    BY <1>4, <2>1, EntryRead
  <2> QED BY <1>2, <2>2, Zenon
<1>11. Len(d) \in Nat /\ Len(d) >= 1 /\ Len(d) <= 5
  BY DEF IsChunk
<1>12. /\ Prefix(fl2, j + 1, m + (IF EntryLength(fl2[m]) > 1 THEN 2 ELSE 1))
       /\ Played(fl2)[j + 1].contents =
            Patched(Played(fl2)[j].contents, EntryAddress(fl2[m]), Bytes(fl2, m))
  <2>1. EntryLength(fl2[m]) <= 5
    BY <1>10, <1>11
  <2> QED BY <1>2, <1>9, <1>10, <2>1, PrefixGrows
<1>13. Prefix(fl2, j + 1, m + 2)
  <2>1. m + (IF EntryLength(fl2[m]) > 1 THEN 2 ELSE 1) = m + 2
    BY <1>10
  <2> QED BY <1>12, <2>1, Zenon
<1>14. \A w \in FlashWords : w >= m + 2 => fl2[w] = Zero
  <2>1. \A w \in FlashWords : w >= m + 2 => w # m + 1
    BY Sizes
  <2> QED BY <1>1, <1>2, <2>1
<1>15. m + 2 >= FirstWord
  BY Sizes
<1>16. LogIs(fl2, j + 1, m + 2)
  BY <1>1, <1>13, <1>14, <1>15 DEF LogIs
<1> QED BY <1>9, <1>10, <1>12, <1>16

\* A block written into the contents, byte by byte.
LEMMA PatchedBytes ==
    ASSUME NEW c \in [Addresses -> Byte], NEW a \in Nat,
           NEW d \in Seq(Byte), a + Len(d) <= WEAR_LEVELING_LOGICAL_SIZE
    PROVE  Patched(c, a, d) =
               [x \in Addresses |-> IF x >= a /\ x < a + Len(d) THEN d[x - a + 1]
                                    ELSE c[x]]
<1> DEFINE span == a..(a + Len(d) - 1)
<1>0. Len(d) \in Nat
  BY LenProperties
<1>1. span \subseteq Addresses
  BY <1>0, Sizes DEF Addresses
<1>2. DOMAIN c \cup span = Addresses
  BY <1>1
<1>3. \A x \in Addresses : x \in span <=> x >= a /\ x < a + Len(d)
  BY <1>0, Sizes DEF Addresses
<1> QED BY <1>2, <1>3 DEF Patched

\* A block is its first entry and the rest, one after the other.
LEMMA PatchedTwice ==
    ASSUME NEW c \in [Addresses -> Byte],
           NEW b \in [address : Nat, data : Seq(Byte)], Len(b.data) >= 1,
           b.address + Len(b.data) <= WEAR_LEVELING_LOGICAL_SIZE
    PROVE  LET r    == Remaining(b)
               once == Patched(c, b.address, Chunk(b.data)) IN
           /\ once \in [Addresses -> Byte]
           /\ Patched(once, r.address, r.data) = Patched(c, b.address, b.data)
           /\ r.data = <<>> => once = Patched(c, b.address, b.data)
<1> DEFINE a == b.address
           d == b.data
           e == Chunk(d)
           r == Remaining(b)
           f == r.data
           once == Patched(c, a, e)
<1>1. /\ a \in Nat /\ d \in Seq(Byte) /\ Len(d) \in Nat
      /\ a + Len(d) <= WEAR_LEVELING_LOGICAL_SIZE
  BY LenProperties
<1>2. /\ e \in Seq(Byte) /\ Len(e) \in Nat /\ Len(e) >= 1
      /\ f \in Seq(Byte) /\ Len(f) \in Nat
      /\ r.address = a + Len(e) /\ Len(f) = Len(d) - Len(e)
      /\ \A i \in 1..Len(e) : e[i] = d[i]
      /\ \A i \in 1..Len(f) : f[i] = d[Len(e) + i]
  BY ChunkOfBlock, LenProperties DEF IsChunk
<1> HIDE DEF a, d, e, r, f
<1> DEFINE p == Len(e)
           q == Len(f)
<1>3. p \in Nat /\ q \in Nat /\ Len(d) = p + q /\ a + p \in Nat
  BY <1>1, <1>2
<1>4. a + p <= WEAR_LEVELING_LOGICAL_SIZE /\ (a + p) + q <= WEAR_LEVELING_LOGICAL_SIZE
  BY <1>1, <1>3, Sizes
<1>5. /\ once \in [Addresses -> Byte]
      /\ once = [x \in Addresses |-> IF x >= a /\ x < a + p THEN e[x - a + 1] ELSE c[x]]
  BY <1>1, <1>2, <1>4, PatchedType, PatchedBytes
<1> HIDE DEF once
<1>6. Patched(once, a + p, f) =
        [x \in Addresses |-> IF x >= a + p /\ x < (a + p) + q
                             THEN f[x - (a + p) + 1] ELSE once[x]]
  BY <1>2, <1>3, <1>4, <1>5, PatchedBytes
<1>7. Patched(c, a, d) =
        [x \in Addresses |-> IF x >= a /\ x < a + (p + q) THEN d[x - a + 1] ELSE c[x]]
  <2>1. Patched(c, a, d) =
          [x \in Addresses |-> IF x >= a /\ x < a + Len(d) THEN d[x - a + 1] ELSE c[x]]
    <3>1. /\ c \in [Addresses -> Byte] /\ a \in Nat /\ d \in Seq(Byte)
          /\ a + Len(d) <= WEAR_LEVELING_LOGICAL_SIZE
      BY <1>1
    <3> QED BY ONLY <3>1, PatchedBytes
  <2>2. Len(d) = p + q
    BY <1>3
  <2> HIDE DEF p, q
  <2> QED BY <2>1, <2>2
<1>8. ASSUME NEW x \in Addresses
      PROVE  (IF x >= a + p /\ x < (a + p) + q THEN f[x - (a + p) + 1] ELSE once[x])
             = IF x >= a /\ x < a + (p + q) THEN d[x - a + 1] ELSE c[x]
  <2>0. x \in Int
    BY Sizes DEF Addresses
  <2>1. once[x] = IF x >= a /\ x < a + p THEN e[x - a + 1] ELSE c[x]
    BY <1>5
  <2>2. ASSUME x >= a, x < a + p PROVE e[x - a + 1] = d[x - a + 1]
    <3>1. x - a + 1 \in 1..p
      BY <1>1, <1>3, <2>0, <2>2
    <3> QED BY <1>2, <3>1
  <2>3. ASSUME x >= a + p, x < (a + p) + q PROVE f[x - (a + p) + 1] = d[x - a + 1]
    <3>1. x - (a + p) + 1 \in 1..q /\ p + (x - (a + p) + 1) = x - a + 1
      BY <1>1, <1>3, <2>0, <2>3
    <3> QED BY <1>2, <3>1
  <2> HIDE DEF p, q
  <2>4. /\ x >= a + p /\ x < (a + p) + q => x >= a /\ x < a + (p + q)
        /\ x >= a /\ x < a + p => x >= a /\ x < a + (p + q) /\ ~(x >= a + p)
        /\ x >= a /\ x < a + (p + q) /\ ~(x >= a /\ x < a + p) =>
              x >= a + p /\ x < (a + p) + q
    BY <1>1, <1>3, <2>0
  <2> QED BY <2>1, <2>2, <2>3, <2>4, Zenon
<1>9. Patched(once, a + p, f) = Patched(c, a, d)
  BY <1>6, <1>7, <1>8, Zenon
<1>10. ASSUME f = <<>> PROVE e = d
  <2>1. Len(f) = 0
    BY <1>10
  <2>2. Len(e) = Len(d)
    BY <1>1, <1>2, <2>1
  <2> QED BY <1>1, <1>2, <2>2, SeqEqual
<1>11. f = <<>> => once = Patched(c, a, d)
  BY <1>10 DEF once
<1>12. Patched(once, r.address, f) = Patched(c, a, d)
  BY <1>2, <1>9
<1> QED BY <1>5, <1>11, <1>12 DEF a, d, e, r, f, once

-----------------------------------------------------------------------------
(* The consolidated copy.                                                  *)

\* A log without entries.
LEMMA EmptyLog ==
    ASSUME NEW fl, \A w \in FlashWords : w >= FirstWord => fl[w] = Zero
    PROVE  /\ LogIs(fl, 0, FirstWord)
           /\ Played(fl)[0].contents = Consolidated(fl)
<1>1. Played(fl)[0] = Start(fl)
  BY PlayedRecursion
<1>2. Start(fl).at = LogStart /\ Start(fl).contents = Consolidated(fl)
  BY DEF Start
<1>3. FirstWord \in Nat /\ LogStart = 4 * FirstWord /\ FirstWord <= EndWord + 1
      /\ FirstWord >= FirstWord
  BY Sizes, StartWord
<1>4. 0..(0 - 1) = {}
  OBVIOUS
<1> QED BY <1>1, <1>2, <1>3, <1>4 DEF LogIs, Prefix

\* Erased flash holds a blank store.
LEMMA ErasedIsBlank == Consolidated(Erased) = Blank
<1>1. ASSUME NEW a \in Addresses
      PROVE  Erased[a \div BACKING_STORE_WRITE_SIZE]
                 [(a % BACKING_STORE_WRITE_SIZE) + 1] = 0
  <2> DEFINE q == a \div 4
  <2>0. BACKING_STORE_WRITE_SIZE = 4
    BY DEF BACKING_STORE_WRITE_SIZE
  <2>1. a \in Nat /\ a < 4 * DataWords
    BY Sizes DEF Addresses
  <2>2. q \in Nat /\ a >= 4 * q /\ (a % 4) + 1 \in 1..4
    BY <2>1
  <2> HIDE DEF q
  <2>3. q < DataWords
    BY <2>1, <2>2, Sizes
  <2>4. q \in FlashWords
    BY <2>2, <2>3, Sizes
  <2>5. Erased[q] = Zero
    BY <2>4 DEF Erased
  <2>6. \A i \in 1..4 : Zero[i] = 0
    BY DEF Zero
  <2> QED BY <2>0, <2>2, <2>5, <2>6 DEF q
<1>2. StoredBytes(Erased) = Blank
  BY <1>1 DEF StoredBytes, Blank
<1> QED BY <1>2 DEF Consolidated

\* The image of some contents reads back as these contents.
LEMMA ImageReadsBack ==
    ASSUME NEW fl, NEW c \in [Addresses -> Byte],
           \A w \in FlashWords : w < FirstWord => fl[w] = ImageWord(c, w)
    PROVE  Consolidated(fl) = c
<1>1. ASSUME NEW a \in Addresses
      PROVE  fl[a \div BACKING_STORE_WRITE_SIZE]
                 [(a % BACKING_STORE_WRITE_SIZE) + 1] = c[a]
  <2> DEFINE q == a \div 4
             r == a % 4
  <2>0. BACKING_STORE_WRITE_SIZE = 4
    BY DEF BACKING_STORE_WRITE_SIZE
  <2>1. a \in Nat /\ a < 4 * DataWords
    BY Sizes DEF Addresses
  <2>2. q \in Nat /\ r \in 0..3 /\ a = 4 * q + r
    BY <2>1
  <2> HIDE DEF q, r
  <2>3. q < DataWords
    BY <2>1, <2>2, Sizes
  <2>4. q \in FlashWords /\ q < FirstWord
    BY <2>2, <2>3, Sizes
  <2>5. fl[q] = [b \in 1..4 |-> c[q * 4 + b - 1]]
    BY <2>0, <2>3, <2>4 DEF ImageWord
  <2>6. r + 1 \in 1..4 /\ q * 4 + (r + 1) - 1 = a
    BY <2>2
  <2>7. fl[q][r + 1] = c[a]
    BY <2>5, <2>6
  <2> QED BY <2>0, <2>7 DEF q, r
<1>2. StoredBytes(fl) = c
  <2>1. c = [a \in Addresses |-> c[a]]
    OBVIOUS
  <2> QED BY <1>1, <2>1 DEF StoredBytes
<1>3. /\ DataWords \in FlashWords /\ DataWords < FirstWord /\ ~(DataWords < DataWords)
      /\ DataWords + 1 \in FlashWords /\ DataWords + 1 < FirstWord
      /\ ~(DataWords + 1 < DataWords)
      /\ DataWords - DataWords + 1 = 1 /\ (DataWords + 1) - DataWords + 1 = 2
  BY Sizes
<1>4. fl[DataWords] = Checksum(c)[1] /\ fl[DataWords + 1] = Checksum(c)[2]
  BY <1>3 DEF ImageWord
<1>5. <<fl[DataWords], fl[DataWords + 1]>> = Checksum(c)
  BY <1>4 DEF Checksum
<1> QED BY <1>2, <1>5 DEF Consolidated

-----------------------------------------------------------------------------
(* The log invariant.                                                      *)

\* Up to five bytes, what lies behind an entry in RAM does not matter.
LEMMA NoJunk ==
    ASSUME NEW fl, NEW p, IsEntry(fl, p)
    PROVE  SubSeq(EntryBytes(fl[p], fl[p + 1], <<>>), 1, EntryLength(fl[p]))
               = Bytes(fl, p)
<1> DEFINE len == EntryLength(fl[p])
           w == fl[p]
           v == fl[p + 1]
           none == <<>>
           zeros == <<0, 0>>
           x == SubSeq(EntryBytes(w, v, none), 1, len)
           y == SubSeq(EntryBytes(w, v, zeros), 1, len)
<1>1. w \in Words /\ v \in Words /\ len \in Nat /\ len <= 5
  BY EntryNumbers DEF IsEntry
<1>2. /\ none \in Seq(Byte) /\ Len(none) = 0 /\ zeros \in Seq(Byte) /\ Len(zeros) = 2
  BY DEF Byte
<1>3. len <= 5 + Len(none) /\ len <= 5 + Len(zeros)
  BY <1>1, <1>2
<1>4. Bytes(fl, p) = y
  BY DEF Bytes
<1> HIDE DEF len, w, v, none, zeros
<1>5. /\ x \in Seq(Byte) /\ Len(x) = len
      /\ \A i \in 1..len : i <= 5 => x[i] = IF i = 1 THEN w[4] ELSE v[i - 1]
  <2>1. w \in Words /\ v \in Words /\ none \in Seq(Byte) /\ len \in Nat /\ len <= 5 + Len(none)
    BY <1>1, <1>2, <1>3
  <2> QED BY ONLY <2>1, BytesOfEntry
<1>6. /\ y \in Seq(Byte) /\ Len(y) = len
      /\ \A i \in 1..len : i <= 5 => y[i] = IF i = 1 THEN w[4] ELSE v[i - 1]
  <2>1. w \in Words /\ v \in Words /\ zeros \in Seq(Byte) /\ len \in Nat /\ len <= 5 + Len(zeros)
    BY <1>1, <1>2, <1>3
  <2> QED BY ONLY <2>1, BytesOfEntry
<1> HIDE DEF x, y
<1>7. \A i \in 1..len : x[i] = y[i]
  <2>1. \A i \in 1..len : i <= 5
    BY <1>1
  <2> QED BY <1>5, <1>6, <2>1
<1>8. x = y
  BY <1>5, <1>6, <1>7, SeqEqual
<1> QED BY <1>4, <1>8 DEF x, len, w, v, none

\* A playback is inside the log until it has come to its end.
LEMMA PlaybackAt ==
    ASSUME FlashType(flash), NEW K \in Nat, NEW n \in Nat, LogHolds(K, n),
           phase = "playback"
    PROVE  \E k \in Nat :
              /\ k <= K /\ (k < K <=> LogContinues)
              /\ position = Played(flash)[k].at /\ cache = Played(flash)[k].contents
<1> DEFINE R == Played(flash)
<1>1. LogIs(flash, K, n) /\ Prefix(flash, K, n)
  BY DEF LogHolds, LogIs
<1>2. PICK k \in Nat : k <= K /\ position = R[k].at /\ cache = R[k].contents
  BY DEF LogHolds
<1>3. CASE k < K
  <2>1. PICK p \in Nat : R[k].at = 4 * p /\ IsEntry(flash, p)
    BY <1>1, <1>3, PrefixEntry
  <2>2. position \div BACKING_STORE_WRITE_SIZE = p
    BY <1>2, <2>1, WordOf
  <2>3. position < WEAR_LEVELING_BACKING_SIZE
    BY <1>2, <2>1, Sizes DEF IsEntry
  <2>4. LogContinues
    BY <2>1, <2>2, <2>3 DEF LogContinues, WordAt, IsEntry
  <2> QED BY <1>2, <1>3, <2>4
<1>4. CASE ~(k < K)
  <2>1. position = 4 * n
    BY <1>1, <1>2, <1>4 DEF Prefix
  <2>2. position \div BACKING_STORE_WRITE_SIZE = n
    BY <2>1, WordOf
  <2>3. n >= EndWord \/ flash[n] = Zero
    BY <1>1, Sizes DEF LogIs
  <2>4. n >= EndWord => ~(position < WEAR_LEVELING_BACKING_SIZE)
    BY <2>1, Sizes
  <2>5. ~LogContinues
    BY <2>2, <2>3, <2>4 DEF LogContinues, WordAt
  <2> QED BY <1>2, <1>4, <2>5
<1> QED BY <1>3, <1>4

\* One step keeps the log invariant: a playback follows the log.
LEMMA PlaybackKeepsLog ==
    ASSUME TypeInv, LogInv, PowerOn \/ PlayEntry \/ PlayEnd
    PROVE  LogInv'
<1> SUFFICES ASSUME ~damaged' PROVE \E K, n \in Nat : LogHolds(K, n)'
  BY Zenon DEF LogInv
<1>1. /\ flash' = flash /\ damaged' = damaged /\ phase \in {"off", "playback"}
      /\ phase' # "append"
  BY DEF PowerOn, PlayEntry, PlayEnd
<1>2. PICK K \in Nat, n \in Nat : LogHolds(K, n)
  <2>1. ~damaged /\ phase # "copy"
    BY <1>1
  <2> QED BY <2>1, Zenon DEF LogInv
<1>3. LogIs(flash, K, n) /\ Prefix(flash, K, n)
  BY <1>2 DEF LogHolds, LogIs
<1>4. FlashType(flash)
  BY DEF TypeInv
<1> DEFINE R == Played(flash)
<1>5. CASE PowerOn
  <2>1. R[0] = Start(flash)
    BY PlayedRecursion
  <2>2. phase' = "playback" /\ position' = R[0].at /\ cache' = R[0].contents
    BY <1>5, <2>1 DEF PowerOn, Start
  <2>3. 0 \in Nat /\ 0 <= K
    OBVIOUS
  <2>4. LogHolds(K, n)'
    BY <1>1, <1>3, <2>2, <2>3 DEF LogHolds
  <2> QED BY <2>4
<1>6. CASE PlayEntry \/ PlayEnd
  <2>1. phase = "playback"
    BY <1>6 DEF PlayEntry, PlayEnd
  <2>2. PICK k \in Nat : /\ k <= K /\ (k < K <=> LogContinues)
                         /\ position = R[k].at /\ cache = R[k].contents
    BY <1>2, <1>4, <2>1, PlaybackAt
  <2>5. CASE PlayEntry
    <3>1. k < K
      BY <2>2, <2>5 DEF PlayEntry
    <3>2. PICK p \in Nat :
             /\ R[k].at = 4 * p /\ IsEntry(flash, p)
             /\ R[k + 1] =
                  [contents |-> Patched(R[k].contents, EntryAddress(flash[p]),
                                        Bytes(flash, p)),
                   at |-> 4 * (p + (IF EntryLength(flash[p]) > 1 THEN 2 ELSE 1))]
      BY <1>3, <1>4, <3>1, PrefixEntry
    <3> DEFINE word == flash[p]
               next == flash[p + 1]
    <3>3. WordAt(position) = word /\ WordAt(position + BACKING_STORE_WRITE_SIZE) = next
      <4>1. (4 * p) \div 4 = p /\ (4 * p + 4) \div 4 = p + 1
        OBVIOUS
      <4> QED BY <2>2, <3>2, <4>1 DEF WordAt, BACKING_STORE_WRITE_SIZE
    <3>4. word \in Words /\ ~EntryRefused(word) /\ EntryLength(word) <= 5
      BY <3>2 DEF IsEntry
    <3>5. EntryLength(word) \in Nat
          /\ EntrySize(word) = IF EntryLength(word) > 1 THEN 8 ELSE 4
      BY <3>4, EntryNumbers
    <3>6. ~(EntryLength(word) > 5)
      BY <3>4, <3>5
    <3>7. SubSeq(EntryBytes(word, next, <<>>), 1, EntryLength(word)) = Bytes(flash, p)
      BY <3>2, NoJunk
    <3>8. /\ cache' = Patched(cache, EntryAddress(word),
                              SubSeq(EntryBytes(word, next, <<>>), 1, EntryLength(word)))
          /\ position' = position + EntrySize(word) /\ phase' = "playback"
      BY <2>5, <3>3, <3>4, <3>6
         DEF PlayEntry, NextSlot, LOG_ENTRY_MULTIBYTE_MAX_BYTES
    <3>9. position' = R[k + 1].at /\ cache' = R[k + 1].contents
      <4> DEFINE q == p + (IF EntryLength(flash[p]) > 1 THEN 2 ELSE 1)
      <4>1. position' = 4 * q
        BY <2>2, <3>2, <3>5, <3>8
      <4>2. cache' = Patched(R[k].contents, EntryAddress(flash[p]), Bytes(flash, p))
        BY <2>2, <3>7, <3>8
      <4> HIDE DEF R, q, word, next
      <4>3. /\ R[k + 1].at = 4 * q
            /\ R[k + 1].contents = Patched(R[k].contents, EntryAddress(flash[p]),
                                           Bytes(flash, p))
        BY <3>2 DEF q
      <4> QED BY <4>1, <4>2, <4>3
    <3>10. k + 1 \in Nat /\ k + 1 <= K
      BY <3>1
    <3>11. LogHolds(K, n)'
      BY <1>1, <1>3, <3>8, <3>9, <3>10 DEF LogHolds
    <3> QED BY <3>11
  <2>6. CASE PlayEnd
    <3>1. k = K /\ R[K].at = 4 * n
      BY <1>3, <2>2, <2>6 DEF PlayEnd, Prefix
    <3>2. write_address' = 4 * n /\ cache' = R[K].contents
      BY <2>2, <2>6, <3>1 DEF PlayEnd
    <3>3. phase' \in {"idle", "consolidate"} /\ (phase' = "idle" => n < EndWord)
      BY <2>2, <2>6, <3>1, Sizes DEF PlayEnd, LogFull
    <3>4. LogHolds(K, n)'
      BY <1>1, <1>3, <3>2, <3>3 DEF LogHolds
    <3> QED BY <3>4
  <2> QED BY <1>6, <2>5, <2>6
<1> QED BY <1>5, <1>6

\* What an append that succeeds does.
LEMMA AppendStep ==
    ASSUME TypeInv, LogInv, AppendRaw, ~damaged'
    PROVE  LET d     == Chunk(block.data)
               entry == Entry(block.address, d)
               word  == write_address \div BACKING_STORE_WRITE_SIZE IN
           /\ phase = "append" /\ cache' = cache /\ ~damaged /\ unlocked
           /\ flash' = [flash EXCEPT ![word] = Programmed(flash[word], entry[sent + 1])]
           /\ write_address' = write_address + 4
           /\ IF LogFull(write_address')
              THEN /\ phase' = "consolidate" /\ block' = Nothing /\ sent' = 0
                   /\ UNCHANGED <<unlocked, position, copied, booting>>
              ELSE IF sent + 1 < Len(entry)
              THEN /\ sent' = sent + 1
                   /\ UNCHANGED <<phase, unlocked, position, block, copied, booting>>
              ELSE IF Remaining(block).data = <<>> THEN Return
              ELSE /\ block' = Remaining(block) /\ sent' = 0
                   /\ UNCHANGED <<phase, unlocked, position, copied, booting>>
           /\ \E K, n \in Nat : LogIs(flash, K, n) /\ Appending(K, n)
           /\ write_address < WEAR_LEVELING_BACKING_SIZE
           /\ FlashType(flash)
           /\ block \in [address : Nat, data : Seq(Byte)] /\ Len(block.data) >= 1
           /\ block.address + Len(block.data) <= WEAR_LEVELING_LOGICAL_SIZE
           /\ sent \in {0, 1} /\ (sent = 1 => Len(d) > 1)
           /\ IsChunk(block.address, d)
           /\ Len(entry) = IF Len(d) > 1 THEN 2 ELSE 1
           /\ entry[1] \in Words /\ (Len(d) > 1 => entry[2] \in Words)
<1> DEFINE d == Chunk(block.data)
           entry == Entry(block.address, d)
           word == write_address \div BACKING_STORE_WRITE_SIZE
<1>1. /\ phase = "append" /\ cache' = cache /\ ~Faulty
  BY Zenon DEF AppendRaw, Faulty
<1>2. /\ flash' = [flash EXCEPT ![word] = Programmed(flash[word], entry[sent + 1])]
      /\ write_address' = write_address + 4 /\ NoFault
      /\ IF LogFull(write_address')
         THEN /\ phase' = "consolidate" /\ block' = Nothing /\ sent' = 0
              /\ UNCHANGED <<unlocked, position, copied, booting>>
         ELSE IF sent + 1 < Len(entry)
         THEN /\ sent' = sent + 1
              /\ UNCHANGED <<phase, unlocked, position, block, copied, booting>>
         ELSE IF Remaining(block).data = <<>> THEN Return
         ELSE /\ block' = Remaining(block) /\ sent' = 0
              /\ UNCHANGED <<phase, unlocked, position, copied, booting>>
  BY <1>1, Zenon DEF AppendRaw, Program, BACKING_STORE_WRITE_SIZE
<1>3. ~damaged
  BY <1>2 DEF NoFault
<1>4. PICK K \in Nat, n \in Nat : LogHolds(K, n)
  <2>1. ~damaged /\ phase # "copy"
    BY <1>1, <1>3
  <2> QED BY <2>1, Zenon DEF LogInv
<1>5. /\ LogIs(flash, K, n) /\ unlocked /\ write_address < WEAR_LEVELING_BACKING_SIZE
      /\ Appending(K, n)
  BY <1>1, <1>4, Zenon DEF LogHolds
<1>6. FlashType(flash)
  BY DEF TypeInv
<1>7. /\ block \in [address : Nat, data : Seq(Byte)] /\ Len(block.data) >= 1
      /\ block.address + Len(block.data) <= WEAR_LEVELING_LOGICAL_SIZE
      /\ sent \in {0, 1} /\ (sent = 1 => Len(block.data) > 1)
  BY <1>1 DEF TypeInv, BlockType
<1>8. IsChunk(block.address, d) /\ (Len(d) > 1 <=> Len(block.data) > 1)
  BY <1>7, ChunkOfBlock
<1>9. /\ Len(entry) = IF Len(d) > 1 THEN 2 ELSE 1
      /\ entry[1] \in Words /\ (Len(d) > 1 => entry[2] \in Words)
  BY <1>8, EntryShape
<1> QED BY <1>1, <1>2, <1>3, <1>5, <1>6, <1>7, <1>8, <1>9, Zenon

\* The first word of an entry has been programmed.
FirstAppended(K, n) ==
    LET d == Chunk(block.data)
        c == Played(flash)[K].contents IN
    /\ LogIs(flash, K, n) /\ n >= FirstWord
    /\ c \in [Addresses -> Byte] /\ Played(flash)[K].at = 4 * n
    /\ cache = Patched(c, block.address, block.data)
    /\ write_address' = 4 * (n + 1)
    /\ LogIs(flash', K + 1, n + (IF Len(d) > 1 THEN 2 ELSE 1))
    /\ Played(flash')[K] = Played(flash)[K]
    /\ flash'[n] = Entry(block.address, d)[1] /\ flash'[n + 1] = Zero
    /\ Played(flash')[K + 1].contents =
          Patched(c, block.address, IF Len(d) > 1 THEN Torn(d) ELSE d)

\* The second word has been programmed behind it.
SecondAppended(j, m) ==
    LET d == Chunk(block.data)
        c == Played(flash)[j].contents IN
    /\ LogIs(flash, j + 1, m + 2) /\ Len(d) > 1
    /\ c \in [Addresses -> Byte]
    /\ cache = Patched(c, block.address, block.data)
    /\ Played(flash)[j + 1].contents = Patched(c, block.address, Torn(d))
    /\ write_address' = 4 * (m + 2)
    /\ LogIs(flash', j + 1, m + 2)
    /\ Played(flash')[j + 1].contents = Patched(c, block.address, d)

\* An append at the end of the log.
LEMMA AppendsFirst ==
    ASSUME TypeInv, LogInv, AppendRaw, ~damaged', sent = 0
    PROVE  \E K, n \in Nat : FirstAppended(K, n)
<1> DEFINE d == Chunk(block.data)
           entry == Entry(block.address, d)
           word == write_address \div BACKING_STORE_WRITE_SIZE
<1>1. /\ flash' = [flash EXCEPT ![word] = Programmed(flash[word], entry[sent + 1])]
      /\ write_address' = write_address + 4
      /\ write_address < WEAR_LEVELING_BACKING_SIZE
      /\ FlashType(flash) /\ IsChunk(block.address, d) /\ entry[1] \in Words
  BY AppendStep
<1>2. PICK K \in Nat, n \in Nat : LogIs(flash, K, n) /\ Appending(K, n)
  BY AppendStep
<1>3. write_address = 4 * n
      /\ cache = Patched(Played(flash)[K].contents, block.address, block.data)
  BY <1>2 DEF Appending
<1>4. word = n /\ n < EndWord
  BY <1>1, <1>3, WordOf, Sizes
<1>5. n >= FirstWord /\ \A w \in FlashWords : w >= n => flash[w] = Zero
  BY <1>2 DEF LogIs
<1>6. n \in FlashWords /\ flash[n] = Zero
  BY <1>1, <1>4, <1>5, LogWord
<1>7. sent + 1 = 1
  OBVIOUS
<1>8. Writes(flash, flash', n, entry[1])
  <2> HIDE DEF entry, word
  <2>1. flash' = [flash EXCEPT ![n] = Programmed(flash[n], entry[1])]
    BY <1>1, <1>4, <1>7
  <2>2. Writes(flash, [flash EXCEPT ![n] = Programmed(flash[n], entry[1])], n, entry[1])
    BY <1>1, <1>6, ProgramsZero
  <2> QED BY <2>1, <2>2
<1>9. /\ LogIs(flash', K + 1, n + (IF Len(d) > 1 THEN 2 ELSE 1))
      /\ Played(flash')[K] = Played(flash)[K]
      /\ flash'[n] = entry[1] /\ flash'[n + 1] = Zero
      /\ Played(flash')[K + 1].contents =
            Patched(Played(flash)[K].contents, block.address,
                    IF Len(d) > 1 THEN Torn(d) ELSE d)
  <2>1. FlashType(flash) /\ IsChunk(block.address, d)
    BY <1>1
  <2> HIDE DEF d
  <2> QED BY <1>2, <1>4, <1>8, <2>1, AppendFirst
<1>10. Played(flash)[K].contents \in [Addresses -> Byte] /\ Played(flash)[K].at = 4 * n
  BY <1>1, <1>2, PlayedTyped DEF PlayState, LogIs, Prefix
<1>11. write_address' = 4 * (n + 1)
  BY <1>1, <1>3
<1>12. FirstAppended(K, n)
  BY <1>2, <1>3, <1>5, <1>9, <1>10, <1>11, Zenon DEF FirstAppended
<1> QED BY <1>12

\* An append that completes an entry.
LEMMA AppendsSecond ==
    ASSUME TypeInv, LogInv, AppendRaw, ~damaged', sent = 1
    PROVE  \E j, m \in Nat : SecondAppended(j, m)
<1> DEFINE d == Chunk(block.data)
           entry == Entry(block.address, d)
           word == write_address \div BACKING_STORE_WRITE_SIZE
<1>1. /\ flash' = [flash EXCEPT ![word] = Programmed(flash[word], entry[sent + 1])]
      /\ write_address' = write_address + 4
      /\ write_address < WEAR_LEVELING_BACKING_SIZE
      /\ FlashType(flash) /\ IsChunk(block.address, d)
      /\ Len(d) > 1 /\ entry[2] \in Words
  BY AppendStep
<1>2. PICK K \in Nat, n \in Nat : LogIs(flash, K, n) /\ Appending(K, n)
  BY AppendStep
<1>3. /\ write_address = 4 * (n - 1) /\ n >= FirstWord + 2 /\ flash[n - 1] = Zero
      /\ flash[n - 2] = entry[1] /\ K >= 1 /\ Played(flash)[K - 1].at = 4 * (n - 2)
      /\ cache = Patched(Played(flash)[K - 1].contents, block.address, block.data)
  BY <1>2 DEF Appending
<1> DEFINE j == K - 1
           m == n - 2
<1>4. /\ j \in Nat /\ m \in Nat /\ K = j + 1 /\ n = m + 2 /\ n - 1 = m + 1
      /\ m >= FirstWord
  BY <1>3, Sizes
<1>5. write_address = 4 * (m + 1) /\ write_address' = 4 * (m + 2)
  BY <1>1, <1>3, <1>4
<1> HIDE DEF j, m
<1>6. word = m + 1 /\ m + 1 < EndWord /\ m < EndWord
  BY <1>1, <1>4, <1>5, WordOf, Sizes
<1>7. m + 1 \in FlashWords /\ flash[m + 1] = Zero
  BY <1>1, <1>3, <1>4, <1>6, LogWord
<1>8. sent + 1 = 2
  OBVIOUS
<1>9. Writes(flash, flash', m + 1, entry[2])
  <2> HIDE DEF entry, word
  <2>1. flash' = [flash EXCEPT ![m + 1] = Programmed(flash[m + 1], entry[2])]
    BY <1>1, <1>6, <1>8
  <2>2. Writes(flash, [flash EXCEPT ![m + 1] = Programmed(flash[m + 1], entry[2])],
               m + 1, entry[2])
    BY <1>1, <1>7, ProgramsZero
  <2> QED BY <2>1, <2>2
<1>10. /\ LogIs(flash, j + 1, m + 2) /\ Played(flash)[j].at = 4 * m
       /\ flash[m] = entry[1]
       /\ cache = Patched(Played(flash)[j].contents, block.address, block.data)
  BY <1>2, <1>3, <1>4 DEF j, m
<1>11. /\ LogIs(flash', j + 1, m + 2)
       /\ Played(flash')[j + 1].contents =
             Patched(Played(flash)[j].contents, block.address, d)
  <2>1. FlashType(flash) /\ IsChunk(block.address, d) /\ Len(d) > 1
    BY <1>1
  <2> HIDE DEF d
  <2> QED BY <1>4, <1>6, <1>9, <1>10, <2>1, AppendSecond
<1>12. Played(flash)[j].contents \in [Addresses -> Byte]
  BY <1>1, <1>4, PlayedTyped DEF PlayState
<1>13. Played(flash)[j + 1].contents =
          Patched(Played(flash)[j].contents, block.address, Torn(d))
  <2> HIDE DEF d
  <2>1. /\ flash[m] # Zero /\ ~EntryRefused(flash[m])
        /\ EntryAddress(flash[m]) = block.address /\ EntryLength(flash[m]) = Len(d)
        /\ Len(d) > 1 /\ flash[m + 1] = Zero => Bytes(flash, m) = Torn(d)
    BY <1>1, <1>4, <1>7, <1>10, ZeroIsWord, EntryRead
  <2>2. Bytes(flash, m) = Torn(d)
    BY <1>1, <1>7, <2>1
  <2>3. PlayedOn(flash, Played(flash)[j]) =
          [contents |-> Patched(Played(flash)[j].contents, EntryAddress(flash[m]),
                                Bytes(flash, m)),
           at |-> 4 * (m + (IF EntryLength(flash[m]) > 1 THEN 2 ELSE 1))]
    BY <1>1, <1>4, <1>6, <1>10, <2>1, GoesOn
  <2>4. Played(flash)[j + 1] = PlayedOn(flash, Played(flash)[j])
    BY <1>4, PlayedRecursion
  <2> QED BY <2>1, <2>2, <2>3, <2>4
<1>14. SecondAppended(j, m)
  BY <1>1, <1>5, <1>10, <1>11, <1>12, <1>13, Zenon DEF SecondAppended
<1> QED BY <1>4, <1>14

\* One step keeps the log invariant: an append makes the log longer by exactly the
\* bytes it was given.
LEMMA AppendKeepsLog ==
    ASSUME TypeInv, LogInv, AppendRaw
    PROVE  LogInv'
<1> SUFFICES ASSUME ~damaged' PROVE \E K, n \in Nat : LogHolds(K, n)'
  BY Zenon DEF LogInv
<1> DEFINE d == Chunk(block.data)
           entry == Entry(block.address, d)
<1>1. phase = "append" /\ cache' = cache /\ unlocked
  BY AppendStep
<1>2. /\ write_address' = write_address + 4
      /\ IF LogFull(write_address')
         THEN /\ phase' = "consolidate" /\ block' = Nothing /\ sent' = 0
              /\ UNCHANGED <<unlocked, position, copied, booting>>
         ELSE IF sent + 1 < Len(entry)
         THEN /\ sent' = sent + 1
              /\ UNCHANGED <<phase, unlocked, position, block, copied, booting>>
         ELSE IF Remaining(block).data = <<>> THEN Return
         ELSE /\ block' = Remaining(block) /\ sent' = 0
              /\ UNCHANGED <<phase, unlocked, position, copied, booting>>
  BY AppendStep
<1>7. /\ block \in [address : Nat, data : Seq(Byte)] /\ Len(block.data) >= 1
      /\ block.address + Len(block.data) <= WEAR_LEVELING_LOGICAL_SIZE
      /\ sent \in {0, 1}
  BY AppendStep
<1>9. Len(entry) = IF Len(d) > 1 THEN 2 ELSE 1
  BY AppendStep
\* The last word of an entry.
<1>10. ASSUME NEW J \in Nat, NEW m \in Nat, LogIs(flash', J, m), write_address' = 4 * m,
              NEW c \in [Addresses -> Byte],
              cache = Patched(c, block.address, block.data),
              Played(flash')[J].contents = Patched(c, block.address, d),
              ~(sent + 1 < Len(entry))
       PROVE  LogHolds(J, m)'
  <2> DEFINE once == Patched(c, block.address, d)
             r == Remaining(block)
  <2>1. /\ Patched(once, r.address, r.data) = Patched(c, block.address, block.data)
        /\ r.data = <<>> => once = Patched(c, block.address, block.data)
    BY <1>7, PatchedTwice
  <2> HIDE DEF entry, d, once, r
  <2>2. CASE LogFull(write_address')
    <3>1. phase' = "consolidate"
      BY <1>2, <2>2
    <3> QED BY <1>10, <3>1 DEF LogHolds
  <2>3. CASE ~LogFull(write_address')
    <3>1. write_address' < WEAR_LEVELING_BACKING_SIZE /\ m < EndWord
      BY <1>10, <2>3, Sizes DEF LogFull
    <3>2. CASE r.data = <<>>
      <4>1. phase' = "idle"
        BY <1>2, <1>10, <2>3, <3>2 DEF r, Return
      <4>2. cache' = Played(flash')[J].contents
        BY <1>1, <1>10, <2>1, <3>2 DEF once
      <4> QED BY <1>10, <3>1, <4>1, <4>2 DEF LogHolds
    <3>3. CASE r.data # <<>>
      <4>1. block' = r /\ sent' = 0 /\ phase' = "append" /\ unlocked'
        BY <1>1, <1>2, <1>10, <2>3, <3>3, Zenon DEF r
      <4>2. cache' = Patched(Played(flash')[J].contents, r.address, r.data)
        BY <1>1, <1>10, <2>1 DEF once
      <4>3. Appending(J, m)'
        BY <1>10, <4>1, <4>2 DEF Appending
      <4> QED BY <1>10, <3>1, <4>1, <4>3, Zenon DEF LogHolds
    <3> QED BY <3>2, <3>3
  <2> QED BY <2>2, <2>3
<1>11. CASE sent = 0
  <2>1. PICK K \in Nat, n \in Nat : FirstAppended(K, n)
    BY <1>11, AppendsFirst
  <2>2. /\ n >= FirstWord /\ write_address' = 4 * (n + 1)
        /\ Played(flash)[K].contents \in [Addresses -> Byte]
        /\ Played(flash)[K].at = 4 * n
        /\ cache = Patched(Played(flash)[K].contents, block.address, block.data)
        /\ LogIs(flash', K + 1, n + (IF Len(d) > 1 THEN 2 ELSE 1))
        /\ Played(flash')[K] = Played(flash)[K]
        /\ flash'[n] = entry[1] /\ flash'[n + 1] = Zero
        /\ Played(flash')[K + 1].contents =
              Patched(Played(flash)[K].contents, block.address,
                      IF Len(d) > 1 THEN Torn(d) ELSE d)
    BY <2>1, Zenon DEF FirstAppended
  <2>9. CASE Len(d) > 1
    <3>1. LogIs(flash', K + 1, n + 2)
      BY <2>2, <2>9
    <3>2. CASE LogFull(write_address')
      <4>1. phase' = "consolidate"
        BY <1>2, <3>2
      <4>2. LogHolds(K + 1, n + 2)'
        BY <3>1, <4>1 DEF LogHolds
      <4> QED BY <4>2
    <3>3. CASE ~LogFull(write_address')
      <4>1. sent + 1 < Len(entry)
        BY <1>9, <1>11, <2>9
      <4> HIDE DEF entry
      <4>2. sent' = 1 /\ block' = block /\ phase' = "append" /\ unlocked'
        <5>1. sent' = sent + 1 /\ UNCHANGED <<phase, unlocked, block>>
          BY <1>2, <3>3, <4>1, Zenon
        <5>2. sent' = 1
          BY <1>11, <5>1
        <5> QED BY <1>1, <5>1, <5>2, Zenon
      <4>3. write_address' < WEAR_LEVELING_BACKING_SIZE
        BY <2>2, <3>3, Sizes DEF LogFull
      <4>4. /\ (n + 2) - 1 = n + 1 /\ (n + 2) - 2 = n /\ (K + 1) - 1 = K /\ K + 1 >= 1
            /\ n + 2 >= FirstWord + 2
        BY <2>2, Sizes
      <4>5. cache' = Patched(Played(flash')[K].contents, block'.address, block'.data)
        BY <1>1, <2>2, <4>2
      <4>6. flash'[n] = Entry(block'.address, Chunk(block'.data))[1]
        BY <2>2, <4>2 DEF entry, d
      <4>7. Played(flash')[K].at = 4 * n
        BY <2>2
      <4>8. Appending(K + 1, n + 2)'
        BY <2>2, <4>2, <4>4, <4>5, <4>6, <4>7 DEF Appending
      <4>9. LogHolds(K + 1, n + 2)'
        BY <3>1, <4>2, <4>3, <4>8, Zenon DEF LogHolds
      <4> QED BY <4>9
    <3> QED BY <3>2, <3>3
  <2>10. CASE ~(Len(d) > 1)
    <3>1. LogIs(flash', K + 1, n + 1)
      BY <2>2, <2>10
    <3>2. Played(flash')[K + 1].contents =
              Patched(Played(flash)[K].contents, block.address, d)
      BY <2>2, <2>10
    <3>3. ~(sent + 1 < Len(entry))
      BY <1>9, <1>11, <2>10
    <3>4. LogHolds(K + 1, n + 1)'
      <4> HIDE DEF entry, d
      <4> QED BY <1>10, <2>2, <3>1, <3>2, <3>3
    <3> QED BY <3>4
  <2> QED BY <2>9, <2>10
<1>12. CASE sent = 1
  <2>1. PICK j \in Nat, m \in Nat : SecondAppended(j, m)
    BY <1>12, AppendsSecond
  <2>2. /\ Len(d) > 1 /\ Played(flash)[j].contents \in [Addresses -> Byte]
        /\ cache = Patched(Played(flash)[j].contents, block.address, block.data)
        /\ write_address' = 4 * (m + 2) /\ LogIs(flash', j + 1, m + 2)
        /\ Played(flash')[j + 1].contents =
              Patched(Played(flash)[j].contents, block.address, d)
    BY <2>1, Zenon DEF SecondAppended
  <2>3. ~(sent + 1 < Len(entry))
    BY <1>9, <1>12, <2>2
  <2>4. j + 1 \in Nat /\ m + 2 \in Nat
    OBVIOUS
  <2>5. LogHolds(j + 1, m + 2)'
    <3> HIDE DEF entry, d
    <3> QED BY <1>10, <2>2, <2>3, <2>4
  <2> QED BY <2>4, <2>5
<1> QED BY <1>7, <1>11, <1>12

\* One step keeps the copy: a consolidation writes the image in order on erased
\* flash, and its last word makes the cache durable.
LEMMA CopyKeepsLog ==
    ASSUME TypeInv, CopyInv, LogInv, ConsolidateErase \/ CopyWord
    PROVE  CopyInv' /\ LogInv'
<1>0. FlashType(flash) /\ cache \in [Addresses -> Byte] /\ Counts
  BY DEF TypeInv
<1>1. ASSUME Faulty, Return PROVE CopyInv' /\ LogInv'
  <2>1. damaged' = TRUE /\ phase' = "idle"
    BY <1>1 DEF Faulty, Return
  <2>2. damaged' /\ phase' # "copy"
    BY <2>1
  <2> QED BY <2>2, Zenon DEF CopyInv, LogInv
<1>2. CASE ConsolidateErase
  <2>1. CASE Faulty /\ Failed(write_address)
    BY <1>1, <2>1 DEF Failed
  <2>2. CASE ~(Faulty /\ Failed(write_address))
    <3>1. flash' = Erased /\ phase' = "copy" /\ copied' = 0 /\ unlocked' = TRUE
      BY <1>2, <2>2 DEF ConsolidateErase
    <3>2. \A w \in FlashWords : ~(w < 0) /\ Erased[w] = Zero
      BY Sizes DEF Erased
    <3>3. CopyInv'
      BY <3>1, <3>2 DEF CopyInv
    <3>4. LogInv'
      BY <3>1, Zenon DEF LogInv
    <3> QED BY <3>3, <3>4
  <2> QED BY <2>1, <2>2
<1>3. CASE CopyWord
  <2>1. CASE Faulty /\ Failed(LogStart)
    BY <1>1, <2>1 DEF Failed
  <2>2. CASE ~(Faulty /\ Failed(LogStart))
    <3> DEFINE image == ImageWord(cache, copied)
    <3>1. /\ flash' = [flash EXCEPT ![copied] = Programmed(flash[copied], image)]
          /\ cache' = cache /\ phase = "copy"
      BY <1>3, <2>2 DEF CopyWord, Program
    <3>2. /\ unlocked
          /\ \A w \in FlashWords :
                flash[w] = IF w < copied THEN ImageWord(cache, w) ELSE Zero
      BY <3>1, Zenon DEF CopyInv
    <3>3. /\ copied \in Nat /\ copied \in FlashWords
          /\ copied < DataWords \/ copied \in {DataWords, DataWords + 1}
          /\ copied <= DataWords + 1
      BY <1>0, Sizes DEF Counts
    <3>4. flash[copied] = Zero
      BY <3>2, <3>3
    <3>5. Writes(flash, flash', copied, image)
      <4>1. image \in Words \/ copied \in {DataWords, DataWords + 1}
        BY <1>0, <3>3, ImageType
      <4> HIDE DEF image
      <4>2. Writes(flash, [flash EXCEPT ![copied] = Programmed(flash[copied], image)],
                   copied, image)
        BY <1>0, <3>3, <3>4, <4>1, ProgramsZero
      <4> QED BY <3>1, <4>2
    <3>6. \A w \in FlashWords :
             flash'[w] = IF w < copied + 1 THEN ImageWord(cache, w) ELSE Zero
      <4>1. \A w \in FlashWords : w < copied + 1 <=> w < copied \/ w = copied
        BY <3>3, Sizes
      <4>2. flash'[copied] = ImageWord(cache, copied)
            /\ \A w \in FlashWords : w # copied => flash'[w] = flash[w]
        BY <3>5 DEF Writes
      <4> QED BY <3>2, <4>1, <4>2
    <3>7. CASE copied = DataWords + 1
      <4>1. phase' = "idle" /\ write_address' = LogStart
        BY <1>3, <2>2, <3>7 DEF CopyWord, Return
      <4>2. \A w \in FlashWords : w < FirstWord <=> w < copied + 1
        BY <3>7, Sizes
      <4>3. \A w \in FlashWords : w >= FirstWord => ~(w < FirstWord)
        BY Sizes
      <4>4. /\ \A w \in FlashWords : w < FirstWord => flash'[w] = ImageWord(cache, w)
            /\ \A w \in FlashWords : w >= FirstWord => flash'[w] = Zero
        BY <3>6, <4>2, <4>3
      <4>5. Consolidated(flash') = cache
        BY <1>0, <4>4, ImageReadsBack
      <4>6. LogIs(flash', 0, FirstWord) /\ Played(flash')[0].contents = cache
        BY <4>4, <4>5, EmptyLog
      <4>7. write_address' = 4 * FirstWord /\ FirstWord < EndWord /\ FirstWord \in Nat
        BY <4>1, StartWord
      <4>8. LogHolds(0, FirstWord)'
        BY <3>1, <4>1, <4>6, <4>7 DEF LogHolds
      <4>9. LogInv'
        BY <4>7, <4>8 DEF LogInv
      <4>10. CopyInv'
        BY <4>1 DEF CopyInv
      <4> QED BY <4>9, <4>10
    <3>8. CASE copied # DataWords + 1
      <4>1. copied' = copied + 1 /\ phase' = "copy" /\ unlocked'
        BY <1>3, <2>2, <3>1, <3>2, <3>8, Zenon DEF CopyWord
      <4>2. CopyInv'
        BY <3>1, <3>6, <4>1, Zenon DEF CopyInv
      <4>3. LogInv'
        BY <4>1, Zenon DEF LogInv
      <4> QED BY <4>2, <4>3
    <3> QED BY <3>7, <3>8
  <2> QED BY <2>1, <2>2
<1> QED BY <1>2, <1>3

\* As long as no flash operation has failed, the flash holds the log that the
\* driver believes it holds.
THEOREM LogInvariant == Spec => [](CopyInv /\ LogInv)
<1>1. Init => CopyInv /\ LogInv
  <2> SUFFICES ASSUME Init PROVE CopyInv /\ LogInv
    OBVIOUS
  <2>1. flash = Erased /\ phase = "off"
    BY DEF Init
  <2>2. LogIs(flash, 0, FirstWord)
    BY <2>1, EmptyLog DEF Erased
  <2>3. LogHolds(0, FirstWord)
    BY <2>1, <2>2 DEF LogHolds
  <2>4. LogInv
    BY <2>3, StartWord DEF LogInv
  <2>5. CopyInv
    BY <2>1 DEF CopyInv
  <2> QED BY <2>4, <2>5
<1>2. TypeInv /\ CopyInv /\ LogInv /\ [Next]_vars => CopyInv' /\ LogInv'
  <2> SUFFICES ASSUME TypeInv, CopyInv, LogInv, [Next]_vars PROVE CopyInv' /\ LogInv'
    OBVIOUS
  <2>a. ASSUME damaged' = TRUE, phase' # "copy" PROVE CopyInv' /\ LogInv'
    <3>1. damaged'
      BY <2>a
    <3> QED BY <2>a, <3>1, Zenon DEF CopyInv, LogInv
  <2>b. ASSUME phase # "copy", ~damaged
        PROVE  \E K, n \in Nat : LogHolds(K, n)
    BY <2>b, Zenon DEF LogInv
  <2>1. CASE PowerOn \/ PlayEntry \/ PlayEnd
    <3>1. phase' # "copy"
      BY <2>1 DEF PowerOn, PlayEntry, PlayEnd
    <3> QED BY <2>1, <3>1, PlaybackKeepsLog DEF CopyInv
  <2>2. ASSUME NEW r \in Requests, WriteBlock(r) PROVE CopyInv' /\ LogInv'
    <3>1. phase = "idle" /\ phase' # "copy"
      BY <2>2 DEF WriteBlock
    <3>2. CASE Faulty
      BY <2>a, <3>1, <3>2 DEF Faulty
    <3>3. CASE ~Faulty
      <4>1. /\ unlocked' = TRUE /\ phase' = "append" /\ block' = r /\ sent' = 0
            /\ NoFault
            /\ cache' = Patched(cache, r.address, r.data)
            /\ UNCHANGED <<flash, write_address>>
        BY <2>2, <3>3 DEF WriteBlock
      <4>2. ASSUME ~damaged' PROVE \E K, n \in Nat : LogHolds(K, n)'
        <5>1. ~damaged
          BY <4>1, <4>2 DEF NoFault
        <5>2. PICK K \in Nat, n \in Nat : LogHolds(K, n)
          BY <2>b, <3>1, <5>1
        <5>3. /\ LogIs(flash, K, n) /\ write_address = 4 * n /\ n < EndWord
              /\ cache = Played(flash)[K].contents
          BY <3>1, <5>2 DEF LogHolds
        <5>4. write_address' < WEAR_LEVELING_BACKING_SIZE
          BY <4>1, <5>3, Sizes
        <5>5. Appending(K, n)'
          BY <4>1, <5>3 DEF Appending
        <5>6. LogIs(flash, K, n)'
          BY <4>1, <5>3
        <5>7. LogHolds(K, n)'
          BY <4>1, <5>4, <5>5, <5>6, Zenon DEF LogHolds
        <5> QED BY <5>7
      <4>3. LogInv'
        BY <4>2, Zenon DEF LogInv
      <4> QED BY <3>1, <4>3 DEF CopyInv
    <3> QED BY <3>2, <3>3
  <2>3. CASE AppendRaw
    <3>1. phase' # "copy"
      BY <2>3 DEF AppendRaw, Return
    <3> QED BY <2>3, <3>1, AppendKeepsLog DEF CopyInv
  <2>4. CASE ConsolidateErase \/ CopyWord
    BY <2>4, CopyKeepsLog
  <2>5. CASE EraseCall
    <3>1. /\ phase = "idle" /\ phase' = "erase"
          /\ UNCHANGED <<flash, cache, write_address, damaged>>
      BY <2>5 DEF EraseCall
    <3>2. ASSUME ~damaged' PROVE \E K, n \in Nat : LogHolds(K, n)'
      <4>1. PICK K \in Nat, n \in Nat : LogHolds(K, n)
        BY <2>b, <3>1, <3>2
      <4>2. LogHolds(K, n)'
        BY <3>1, <4>1 DEF LogHolds
      <4> QED BY <4>2
    <3>3. LogInv'
      BY <3>2, Zenon DEF LogInv
    <3> QED BY <3>1, <3>3 DEF CopyInv
  <2>6. CASE EraseStore
    <3>1. /\ phase' = "idle" /\ cache' = Blank /\ write_address' = LogStart
          /\ (flash' = Erased \/ damaged' = TRUE)
      BY <2>6 DEF EraseStore, Return, Faulty
    <3>2. CASE damaged' = TRUE
      BY <2>a, <3>1, <3>2
    <3>3. CASE flash' = Erased
      <4>1. LogIs(flash', 0, FirstWord) /\ Played(flash')[0].contents = Blank
        <5>1. \A w \in FlashWords : w >= FirstWord => Erased[w] = Zero
          BY DEF Erased
        <5>2. LogIs(Erased, 0, FirstWord) /\ Played(Erased)[0].contents = Blank
          BY <5>1, EmptyLog, ErasedIsBlank
        <5> QED BY <3>3, <5>2
      <4>2. write_address' = 4 * FirstWord /\ FirstWord < EndWord /\ FirstWord \in Nat
        BY <3>1, StartWord
      <4>3. LogHolds(0, FirstWord)'
        BY <3>1, <4>1, <4>2 DEF LogHolds
      <4>4. LogInv'
        BY <4>2, <4>3 DEF LogInv
      <4> QED BY <3>1, <4>4 DEF CopyInv
    <3> QED BY <3>1, <3>2, <3>3
  <2>7. CASE PowerLoss
    <3>1. phase' = "off" /\ flash' = flash /\ damaged' = damaged
      BY <2>7 DEF PowerLoss, Off, NoFault
    <3>2. CASE phase = "copy"
      <4>1. \A w \in FlashWords : flash[w] = IF w < copied THEN ImageWord(cache, w) ELSE Zero
        BY <3>2 DEF CopyInv
      <4>2. copied \in Nat /\ copied <= DataWords + 1
        BY DEF TypeInv, Counts
      <4>3. \A w \in FlashWords : w >= FirstWord => ~(w < copied)
        BY <4>2, Sizes
      <4>4. \A w \in FlashWords : w >= FirstWord => flash[w] = Zero
        BY <4>1, <4>3
      <4>5. LogIs(flash, 0, FirstWord)
        BY <4>4, EmptyLog
      <4>6. LogHolds(0, FirstWord)'
        BY <3>1, <4>5 DEF LogHolds
      <4>7. LogInv'
        BY <4>6, StartWord DEF LogInv
      <4> QED BY <3>1, <4>7 DEF CopyInv
    <3>3. CASE phase # "copy"
      <4>1. ASSUME ~damaged' PROVE \E K, n \in Nat : LogHolds(K, n)'
        <5>1. PICK K \in Nat, n \in Nat : LogHolds(K, n)
          BY <2>b, <3>1, <3>3, <4>1
        <5>2. LogHolds(K, n)'
          BY <3>1, <5>1 DEF LogHolds
        <5> QED BY <5>2
      <4>2. LogInv'
        BY <4>1, Zenon DEF LogInv
      <4> QED BY <3>1, <4>2 DEF CopyInv
    <3> QED BY <3>2, <3>3
  <2>8. CASE PowerLossInErase
    BY <2>a, <2>8 DEF PowerLossInErase, Faulty, Off
  <2>9. CASE UNCHANGED vars
    <3>1. UNCHANGED <<flash, cache, write_address, unlocked, phase, position, block, sent,
                      copied, damaged>>
      BY <2>9 DEF vars, driver
    <3>2. CopyInv'
      BY <3>1, Zenon DEF CopyInv
    <3>3. ASSUME NEW K \in Nat, NEW n \in Nat, LogHolds(K, n) PROVE LogHolds(K, n)'
      <4>1. Appending(K, n) => Appending(K, n)'
        BY <3>1 DEF Appending
      <4> QED BY <3>1, <3>3, <4>1 DEF LogHolds
    <3>4. LogInv'
      BY <3>1, <3>3, Zenon DEF LogInv
    <3> QED BY <3>2, <3>4
  <2> QED BY <2>1, <2>2, <2>3, <2>4, <2>5, <2>6, <2>7, <2>8, <2>9 DEF Next
<1> QED BY <1>1, <1>2, WearTypes, PTL DEF Spec

\* Between calls, as long as no flash operation has failed, a restart rebuilds the
\* cache byte for byte and goes on appending where the driver would have: no write
\* that wear_leveling_write acknowledged is lost.
THEOREM AcknowledgedIsDurable == Spec => []LogReadsBack
<1>1. TypeInv /\ LogInv => LogReadsBack
  <2> SUFFICES ASSUME TypeInv, LogInv, phase = "idle", ~damaged
               PROVE  Durable = cache /\ Replayed.at = write_address
    BY DEF LogReadsBack
  <2>1. PICK K \in Nat, n \in Nat : LogHolds(K, n)
    BY DEF LogInv
  <2>2. /\ LogIs(flash, K, n) /\ write_address = 4 * n
        /\ cache = Played(flash)[K].contents
    BY <2>1 DEF LogHolds
  <2>3. Played(flash)[K].at = 4 * n
    BY <2>2 DEF LogIs, Prefix
  <2>4. Played(flash)[EndWord] = Played(flash)[K]
    BY <2>2, LogEnds DEF TypeInv
  <2>5. Replayed = Played(flash)[K]
    BY <2>4 DEF Replayed, EndWord
  <2> QED BY <2>2, <2>3, <2>5 DEF Durable
<1> QED BY <1>1, WearTypes, LogInvariant, PTL

\* The driver programs only unlocked and erased flash inside the backing store: the
\* assertions of the mock backing store of the unit tests hold for every sequence
\* of calls and power failures.
THEOREM OnlyErasedFlash == Spec => []ProgramsErasedFlash
<1>1. TypeInv /\ CopyInv /\ LogInv => ProgramsErasedFlash
  <2> SUFFICES ASSUME TypeInv, CopyInv, LogInv, ~damaged
               PROVE  /\ phase = "append" => /\ unlocked
                                             /\ write_address < WEAR_LEVELING_BACKING_SIZE
                                             /\ WordAt(write_address) = Zero
                      /\ phase = "copy" => unlocked /\ flash[copied] = Zero
    BY Zenon DEF ProgramsErasedFlash
  <2>1. ASSUME phase = "append"
        PROVE  /\ unlocked /\ write_address < WEAR_LEVELING_BACKING_SIZE
               /\ WordAt(write_address) = Zero
    <3>1. PICK K \in Nat, n \in Nat : LogHolds(K, n)
      BY <2>1 DEF LogInv
    <3>2. /\ LogIs(flash, K, n) /\ unlocked /\ write_address < WEAR_LEVELING_BACKING_SIZE
          /\ Appending(K, n)
      BY <2>1, <3>1, Zenon DEF LogHolds
    <3>3. sent \in {0, 1}
      BY DEF TypeInv, BlockType
    <3>4. CASE sent = 0
      <4>1. write_address = 4 * n
        BY <3>2, <3>4 DEF Appending
      <4>2. n \in FlashWords /\ n >= n
        BY <3>2, <4>1, Sizes
      <4>3. flash[n] = Zero
        BY <3>2, <4>2 DEF LogIs
      <4> QED BY <3>2, <4>1, <4>3, WordOf, Zenon DEF WordAt
    <3>5. CASE sent = 1
      <4>1. write_address = 4 * (n - 1) /\ flash[n - 1] = Zero /\ n >= FirstWord + 2
        BY <3>2, <3>5 DEF Appending
      <4>2. n - 1 \in Nat
        BY <4>1, Sizes
      <4> QED BY <3>2, <4>1, <4>2, WordOf, Zenon DEF WordAt
    <3> QED BY <3>3, <3>4, <3>5
  <2>2. ASSUME phase = "copy" PROVE unlocked /\ flash[copied] = Zero
    <3>1. copied \in FlashWords /\ ~(copied < copied)
      BY Sizes DEF TypeInv, Counts
    <3> QED BY <2>2, <3>1, Zenon DEF CopyInv
  <2> QED BY <2>1, <2>2
<1> QED BY <1>1, WearTypes, LogInvariant, PTL

-----------------------------------------------------------------------------
(* The driver implements the store.                                        *)

\* What a read of the store returns, the refinement's `mem`.
Mem == IF Status = "off" THEN Durable ELSE cache

\* The addresses an entry covers.
Span(b) == b.address..(b.address + Len(Chunk(b.data)) - 1)

\* The abstract store has the driver's addresses and bytes.
LEMMA SameStore ==
    /\ Store!Addresses = Addresses /\ Store!Contents = [Addresses -> Byte]
    /\ Store!Blank = Blank
BY DEF Store!Addresses, Store!Contents, Store!Blank, Addresses, Byte, Blank

\* The entry's bytes with the second word missing are bytes.
LEMMA TornType ==
    ASSUME NEW a, NEW d, IsChunk(a, d)
    PROVE  Torn(d) \in Seq(Byte) /\ Len(Torn(d)) = Len(d)
<1> DEFINE n == Len(d)
<1>1. d \in Seq(Byte) /\ n \in Nat /\ n >= 1
  BY DEF IsChunk
<1>2. d[1] \in Byte /\ 0 \in Byte
  BY <1>1, ElementOfSeq DEF Byte
<1>3. Torn(d) \in [1..n -> Byte]
  BY <1>2 DEF Torn
<1> HIDE DEF n
<1>4. Torn(d) \in Seq(Byte) /\ Len(Torn(d)) = n
  BY <1>1, <1>3, FunctionIsSeq
<1> QED BY <1>4 DEF n

\* A log entry is a span of the abstract store.
LEMMA SpanOfEntry ==
    ASSUME NEW b, IsChunk(b.address, Chunk(b.data))
    PROVE  Span(b) \in Store!Spans
<1> DEFINE a == b.address
           len == Len(Chunk(b.data))
           s == a..(a + len - 1)
<1>1. a \in Nat /\ len \in Nat /\ len >= 1 /\ len <= 5
      /\ a + len <= WEAR_LEVELING_LOGICAL_SIZE
  BY DEF IsChunk
<1>2. Span(b) = s
  BY DEF Span
<1> HIDE DEF a, len
<1>3. a \in Store!Addresses /\ a + len - 1 \in Store!Addresses
  BY <1>1, SameStore, Sizes DEF Addresses
<1>4. a \in s /\ \A x \in s : x \in a..(a + 5 - 1)
  BY <1>1
<1>5. s \in {f..l : f, l \in Store!Addresses}
  BY <1>3
<1> HIDE DEF s
<1>6. s \in Store!Spans
  BY <1>4, <1>5 DEF Store!Spans, LOG_ENTRY_MULTIBYTE_MAX_BYTES
<1> QED BY <1>2, <1>6

\* What an entry does to the contents, whole or torn, in the words of the store.
LEMMA SpanWritten ==
    ASSUME NEW c \in [Addresses -> Byte],
           NEW b \in [address : Nat, data : Seq(Byte)], Len(b.data) >= 1,
           b.address + Len(b.data) <= WEAR_LEVELING_LOGICAL_SIZE
    PROVE  LET s     == Span(b)
               mem   == Patched(c, b.address, b.data)
               whole == Patched(c, b.address, Chunk(b.data))
               torn  == Patched(c, b.address, Torn(Chunk(b.data))) IN
           /\ torn = [x \in Addresses |->
                         IF x \notin s THEN c[x]
                         ELSE IF \A y \in s : x <= y THEN mem[x] ELSE 0]
           /\ whole = [x \in Addresses |-> IF x \in s THEN mem[x] ELSE c[x]]
           /\ whole = [x \in Addresses |-> IF x \in s THEN mem[x] ELSE torn[x]]
<1> DEFINE a == b.address
           d == Chunk(b.data)
           n == Len(d)
           t == Torn(d)
           s == Span(b)
           mem == Patched(c, a, b.data)
           whole == Patched(c, a, d)
           torn == Patched(c, a, t)
<1>1. IsChunk(a, d) /\ n \in Nat /\ n >= 1 /\ a \in Nat
      /\ a + n <= WEAR_LEVELING_LOGICAL_SIZE /\ d \in Seq(Byte)
      /\ n <= Len(b.data) /\ Len(b.data) \in Nat
      /\ \A i \in 1..n : d[i] = b.data[i]
  <2>1. IsChunk(a, d) /\ Len(Remaining(b).data) = Len(b.data) - Len(d)
        /\ Remaining(b).data \in Seq(Byte)
        /\ \A i \in 1..Len(d) : d[i] = b.data[i]
    BY ChunkOfBlock
  <2>2. Len(Remaining(b).data) \in Nat /\ Len(b.data) \in Nat
    BY <2>1, LenProperties
  <2> QED BY <2>1, <2>2 DEF IsChunk
<1>2. t \in Seq(Byte) /\ Len(t) = n /\ t = [i \in 1..n |-> IF i = 1 THEN d[1] ELSE 0]
  BY <1>1, TornType DEF Torn
<1>3. s = a..(a + n - 1)
  BY DEF Span
<1>4. mem = [x \in Addresses |-> IF x >= a /\ x < a + Len(b.data)
                                 THEN b.data[x - a + 1] ELSE c[x]]
  <2>1. b.data \in Seq(Byte) /\ a + Len(b.data) <= WEAR_LEVELING_LOGICAL_SIZE
    OBVIOUS
  <2> QED BY <1>1, <2>1, PatchedBytes
<1> HIDE DEF a, d
<1>5. whole = [x \in Addresses |-> IF x >= a /\ x < a + n THEN d[x - a + 1] ELSE c[x]]
  BY <1>1, PatchedBytes
<1>6. torn = [x \in Addresses |-> IF x >= a /\ x < a + n THEN t[x - a + 1] ELSE c[x]]
  <2> HIDE DEF t, n
  <2>1. /\ c \in [Addresses -> Byte] /\ a \in Nat /\ t \in Seq(Byte)
        /\ a + Len(t) <= WEAR_LEVELING_LOGICAL_SIZE
    BY <1>1, <1>2
  <2>2. Patched(c, a, t) = [x \in Addresses |-> IF x >= a /\ x < a + Len(t)
                                                THEN t[x - a + 1] ELSE c[x]]
    BY ONLY <2>1, PatchedBytes
  <2> QED BY <1>2, <2>2
<1> HIDE DEF n, t, s, mem, whole, torn
<1>7. ASSUME NEW x \in Addresses
      PROVE  /\ x \in s <=> x >= a /\ x < a + n
             /\ x \in s => /\ mem[x] = d[x - a + 1]
                           /\ (\A y \in s : x <= y) <=> x = a
                           /\ t[x - a + 1] = IF x = a THEN d[x - a + 1] ELSE 0
  <2>0. x \in Int
    BY Sizes DEF Addresses
  <2>1. x \in s <=> x >= a /\ x < a + n
    BY <1>1, <1>3, <2>0
  <2>2. ASSUME x \in s PROVE mem[x] = d[x - a + 1]
    <3>1. x >= a /\ x < a + Len(b.data) /\ x - a + 1 \in 1..n
      BY <1>1, <2>0, <2>1, <2>2
    <3> QED BY <1>1, <1>4, <3>1
  <2>3. ASSUME x \in s PROVE (\A y \in s : x <= y) <=> x = a
    <3>1. a \in s
      BY <1>1, <1>3
    <3>2. \A y \in s : y \in Int /\ a <= y
      BY <1>1, <1>3
    <3>3. x <= a => x = a
      BY <1>1, <2>0, <2>1, <2>3
    <3> QED BY <3>1, <3>2, <3>3
  <2>4. ASSUME x \in s PROVE t[x - a + 1] = IF x = a THEN d[x - a + 1] ELSE 0
    <3>1. x - a + 1 \in 1..n /\ (x - a + 1 = 1 <=> x = a)
      BY <1>1, <2>0, <2>1, <2>4
    <3> QED BY <1>2, <3>1
  <2> QED BY <2>1, <2>2, <2>3, <2>4
<1>8. torn = [x \in Addresses |->
                 IF x \notin s THEN c[x]
                 ELSE IF \A y \in s : x <= y THEN mem[x] ELSE 0]
  BY <1>6, <1>7
<1>9. whole = [x \in Addresses |-> IF x \in s THEN mem[x] ELSE c[x]]
  BY <1>5, <1>7
<1>10. \A x \in Addresses : x \notin s => torn[x] = c[x]
  BY <1>6, <1>7
<1>11. whole = [x \in Addresses |-> IF x \in s THEN mem[x] ELSE torn[x]]
  BY <1>9, <1>10
<1> QED BY <1>8, <1>9, <1>11 DEF a, d, n, t, s, mem, whole, torn

\* What a restart would bring back, given the log.
LEMMA DurableIs ==
    ASSUME NEW fl, FlashType(fl)
    PROVE  /\ Played(fl)[EndWord].contents \in [Addresses -> Byte]
           /\ \A K, n \in Nat : LogIs(fl, K, n) =>
                 Played(fl)[EndWord].contents = Played(fl)[K].contents
<1>1. EndWord \in Nat
  BY Sizes
<1> QED BY <1>1, PlayedTyped, LogEnds DEF PlayState

\* A copy that is not complete is as good as none: the checksum is missing.
LEMMA PartialIsBlank ==
    ASSUME NEW fl, FlashType(fl), fl[DataWords + 1] = Zero,
           \A w \in FlashWords : w >= FirstWord => fl[w] = Zero
    PROVE  Played(fl)[EndWord].contents = Blank
<1>1. LogIs(fl, 0, FirstWord) /\ Played(fl)[0].contents = Consolidated(fl)
  BY EmptyLog
<1>2. Played(fl)[EndWord].contents = Played(fl)[0].contents
  BY <1>1, StartWord, DurableIs
<1> DEFINE c == StoredBytes(fl)
<1>3. Zero # <<2, c>>
  <2>1. Len(Zero) = 4 /\ Len(<<2, c>>) = 2
    BY DEF Zero
  <2> QED BY <2>1
<1> HIDE DEF c
<1>4. <<fl[DataWords], fl[DataWords + 1]>> # << <<1, c>>, <<2, c>> >>
  BY <1>3
<1>5. Consolidated(fl) = Blank
  BY <1>4 DEF Consolidated, Checksum, c
<1> QED BY <1>1, <1>2, <1>5

\* The refinement's `disk`, before and after a step.
LEMMA DurableNow ==
    /\ Durable = Played(flash)[EndWord].contents
    /\ Durable' = Played(flash')[EndWord].contents
BY DEF Durable, Replayed, EndWord

\* The steps of the abstract store, in the words of the refinement mapping.
LEMMA StoreSteps ==
    ASSUME ~damaged, ~damaged'
    PROVE  /\ Status = "off" /\ Status' = "on" /\ Mem' = Mem /\ Durable' = Durable
                  => Store!Next
           /\ Status' = "off" /\ Durable' = Durable => Store!Next
           /\ (Status = "on" /\ Status' = "on" /\ cache' \in [Addresses -> Byte]
                  /\ Durable' = Durable) => Store!Next
           /\ (Status = "on" /\ Status' = "rewriting" /\ Durable' = Blank
                  /\ cache' = cache) => Store!Next
           /\ (Status = "rewriting" /\ Status' = "on" /\ Durable' = cache
                  /\ cache' = cache) => Store!Next
           /\ (Status = "on" /\ Status' = "on" /\ Durable' = Blank
                  /\ cache' = Blank) => Store!Next
           /\ (Status' = Status /\ Mem' = Mem /\ Durable' = Durable)
                  => UNCHANGED Store!vars
<1>1. ASSUME Status = "off", Status' = "on", Mem' = Mem, Durable' = Durable
      PROVE  Store!Restart
  BY <1>1 DEF Store!Restart, Mem
<1>2. ASSUME Status' = "off", Durable' = Durable PROVE Store!PowerLoss
  BY <1>2 DEF Store!PowerLoss
<1>3. ASSUME Status = "on", Status' = "on", cache' \in [Addresses -> Byte],
             Durable' = Durable
      PROVE  Store!Update
  BY <1>3, SameStore DEF Store!Update
<1>4. ASSUME Status = "on", Status' = "rewriting", Durable' = Blank, cache' = cache
      PROVE  Store!Wipe
  BY <1>4, SameStore DEF Store!Wipe
<1>5. ASSUME Status = "rewriting", Status' = "on", Durable' = cache, cache' = cache
      PROVE  Store!Rewrite
  BY <1>5 DEF Store!Rewrite
<1>6. ASSUME Status = "on", Status' = "on", Durable' = Blank, cache' = Blank
      PROVE  Store!Clear
  BY <1>6, SameStore DEF Store!Clear
<1>7. ASSUME Status' = Status, Mem' = Mem, Durable' = Durable
      PROVE  UNCHANGED Store!vars
  BY <1>7 DEF Store!vars, Mem
<1> QED BY <1>1, <1>2, <1>3, <1>4, <1>5, <1>6, <1>7, Zenon DEF Store!Next

\* A span of the cache becomes durable, its first byte before the others.
LEMMA SpanSteps ==
    ASSUME ~damaged, ~damaged', Status = "on", Status' = "on", cache' = cache,
           NEW s \in Store!Spans
    PROVE  /\ Durable' = [x \in Addresses |->
                             IF x \notin s THEN Durable[x]
                             ELSE IF \A y \in s : x <= y THEN cache[x] ELSE 0]
                  => Store!Next
           /\ Durable' = [x \in Addresses |-> IF x \in s THEN cache[x] ELSE Durable[x]]
                  => Store!Next
<1>0. (IF Status = "off" THEN Durable ELSE cache) = cache
      /\ (IF Status' = "off" THEN Durable' ELSE cache') = cache
  OBVIOUS
<1>1. ASSUME Durable' = [x \in Addresses |->
                             IF x \notin s THEN Durable[x]
                             ELSE IF \A y \in s : x <= y THEN cache[x] ELSE 0]
      PROVE  Store!Begin(s)
  BY <1>0, <1>1, SameStore DEF Store!Begin
<1>2. ASSUME Durable' = [x \in Addresses |-> IF x \in s THEN cache[x] ELSE Durable[x]]
      PROVE  Store!Finish(s)
  BY <1>0, <1>2, SameStore DEF Store!Finish
<1> QED BY <1>1, <1>2, Zenon DEF Store!Next

\* A failure, and the rewrite or erase that ends its consequences.
LEMMA FaultSteps ==
    ASSUME TypeInv', LogReadsBack'
    PROVE  /\ damaged' => Store!Next
           /\ damaged /\ ~damaged' /\ phase' = "idle" => Store!Next
<1>1. /\ Durable' \in [Addresses -> Byte] /\ cache' \in [Addresses -> Byte]
      /\ phase' \in {"off", "playback", "idle", "append", "consolidate", "copy", "erase"}
  <2>1. FlashType(flash') /\ cache' \in [Addresses -> Byte] /\ Switches'
    BY DEF TypeInv
  <2>2. phase' \in {"off", "playback", "idle", "append", "consolidate", "copy", "erase"}
    BY <2>1 DEF Switches
  <2> QED BY <2>1, <2>2, DurableNow, DurableIs
<1>2. Status' \in {"off", "on", "rewriting"}
  BY <1>1 DEF Status
<1>3. (IF Status' = "off" THEN Durable' ELSE cache') \in [Addresses -> Byte]
  BY <1>1
<1>4. ASSUME damaged' PROVE Store!Fail
  <2>1. /\ Store!Contents = [Addresses -> Byte] /\ (~damaged)' = FALSE
    BY <1>4, SameStore, Zenon
  <2> QED BY <1>1, <1>2, <1>3, <2>1 DEF Store!Fail
<1>5. ASSUME damaged, ~damaged', phase' = "idle" PROVE Store!Heal
  <2>1. Status' = "on" /\ Durable' = cache'
    BY <1>5 DEF Status, LogReadsBack
  <2>2. Store!Contents = [Addresses -> Byte] /\ (~damaged)' = TRUE /\ ~(~damaged)
    BY <1>5, SameStore, Zenon
  <2> QED BY <1>1, <2>1, <2>2 DEF Store!Heal
<1> QED BY <1>4, <1>5, Zenon DEF Store!Next

\* A start follows the log and ends with the durable contents in the cache.
LEMMA PlaybackImplements ==
    ASSUME TypeInv, LogInv, ~damaged, ~damaged', PowerOn \/ PlayEntry \/ PlayEnd
    PROVE  Store!Next \/ UNCHANGED Store!vars
<1>1. flash' = flash /\ phase \in {"off", "playback"}
  BY DEF PowerOn, PlayEntry, PlayEnd
<1>2. Status = "off" /\ Mem = Durable /\ Durable' = Durable
  <2>1. Status = "off"
    BY <1>1 DEF Status
  <2> QED BY <1>1, <2>1, DurableNow DEF Mem
<1>3. ASSUME phase' = "playback" PROVE UNCHANGED Store!vars
  <2>1. Status' = "off"
    BY <1>3 DEF Status
  <2>2. Mem' = Durable'
    BY <2>1 DEF Mem
  <2> QED BY <1>2, <2>1, <2>2, StoreSteps
<1>4. CASE PowerOn
  BY <1>3, <1>4 DEF PowerOn
<1>5. ASSUME phase = "playback"
      PROVE  \E K, n, k \in Nat :
                /\ LogIs(flash, K, n) /\ k <= K /\ (k < K <=> LogContinues)
                /\ position = Played(flash)[k].at /\ cache = Played(flash)[k].contents
  <2>1. phase # "copy"
    BY <1>5
  <2>2. PICK K \in Nat, n \in Nat : LogHolds(K, n)
    BY <2>1, Zenon DEF LogInv
  <2>3. FlashType(flash)
    BY DEF TypeInv
  <2>4. \E k \in Nat :
           /\ k <= K /\ (k < K <=> LogContinues)
           /\ position = Played(flash)[k].at /\ cache = Played(flash)[k].contents
    BY <1>5, <2>2, <2>3, PlaybackAt
  <2>5. LogIs(flash, K, n)
    BY <2>2 DEF LogHolds
  <2> QED BY <2>4, <2>5
<1>6. CASE PlayEntry
  <2>1. phase = "playback" /\ LogContinues
    BY <1>6 DEF PlayEntry
  <2>2. PICK K \in Nat, n \in Nat, k \in Nat :
           /\ LogIs(flash, K, n) /\ k < K /\ position = Played(flash)[k].at
    BY <1>5, <2>1
  <2>3. PICK p \in Nat : Played(flash)[k].at = 4 * p /\ IsEntry(flash, p)
    BY <2>2, PrefixEntry DEF LogIs, TypeInv
  <2>4. ~EntryRefused(WordAt(position))
    BY <2>2, <2>3, WordOf DEF WordAt, IsEntry
  <2>5. phase' = "playback"
    BY <1>6, <2>4 DEF PlayEntry
  <2> QED BY <1>3, <2>5
<1>7. CASE PlayEnd
  <2>1. phase = "playback" /\ ~LogContinues /\ cache' = cache
        /\ phase' \in {"consolidate", "idle"}
    BY <1>7 DEF PlayEnd
  <2>2. PICK K \in Nat, n \in Nat, k \in Nat :
           /\ LogIs(flash, K, n) /\ k <= K /\ ~(k < K)
           /\ cache = Played(flash)[k].contents
    BY <1>5, <2>1
  <2>3. k = K
    BY <2>2
  <2>4. Durable = cache
    BY <2>2, <2>3, DurableNow, DurableIs DEF TypeInv
  <2>5. Status' = "on"
    BY <2>1 DEF Status
  <2>6. Mem' = Mem
    BY <1>2, <2>1, <2>4, <2>5 DEF Mem
  <2> QED BY <1>2, <2>5, <2>6, StoreSteps
<1> QED BY <1>4, <1>6, <1>7

\* The first word of an entry makes its first byte durable, the second the others.
LEMMA AppendImplements ==
    ASSUME TypeInv, LogInv, ~damaged, ~damaged', AppendRaw, FlashType(flash')
    PROVE  Store!Next
<1> DEFINE d == Chunk(block.data)
           s == Span(block)
<1>1. phase = "append" /\ cache' = cache
      /\ phase' \in {"consolidate", "append", "idle"}
  BY DEF AppendRaw, Return
<1>2. Status = "on" /\ Status' = "on"
  BY <1>1 DEF Status
<1>3. /\ block \in [address : Nat, data : Seq(Byte)] /\ Len(block.data) >= 1
      /\ block.address + Len(block.data) <= WEAR_LEVELING_LOGICAL_SIZE
      /\ sent \in {0, 1}
  BY AppendStep
<1>4. s \in Store!Spans
  <2>1. IsChunk(block.address, Chunk(block.data))
    BY <1>3, ChunkOfBlock
  <2> QED BY <2>1, SpanOfEntry
<1>5. /\ Durable' = [x \in Addresses |->
                       IF x \notin s THEN Durable[x]
                       ELSE IF \A y \in s : x <= y THEN cache[x] ELSE 0]
            => Store!Next
      /\ Durable' = [x \in Addresses |-> IF x \in s THEN cache[x] ELSE Durable[x]]
            => Store!Next
  BY <1>1, <1>2, <1>4, SpanSteps
<1>6. FlashType(flash)
  BY DEF TypeInv
<1>7. ASSUME NEW c \in [Addresses -> Byte],
             cache = Patched(c, block.address, block.data)
      PROVE  LET whole == Patched(c, block.address, d)
                 torn  == Patched(c, block.address, Torn(d)) IN
             /\ torn = [x \in Addresses |->
                           IF x \notin s THEN c[x]
                           ELSE IF \A y \in s : x <= y THEN cache[x] ELSE 0]
             /\ whole = [x \in Addresses |-> IF x \in s THEN cache[x] ELSE c[x]]
             /\ whole = [x \in Addresses |-> IF x \in s THEN cache[x] ELSE torn[x]]
  <2> DEFINE whole == Patched(c, block.address, d)
             torn  == Patched(c, block.address, Torn(d))
             mem   == Patched(c, block.address, block.data)
  <2>1. /\ torn = [x \in Addresses |->
                      IF x \notin s THEN c[x]
                      ELSE IF \A y \in s : x <= y THEN mem[x] ELSE 0]
        /\ whole = [x \in Addresses |-> IF x \in s THEN mem[x] ELSE c[x]]
        /\ whole = [x \in Addresses |-> IF x \in s THEN mem[x] ELSE torn[x]]
    BY <1>3, SpanWritten
  <2>2. mem = cache
    BY <1>7
  <2> HIDE DEF whole, torn, mem, s
  <2>3. /\ torn = [x \in Addresses |->
                      IF x \notin s THEN c[x]
                      ELSE IF \A y \in s : x <= y THEN cache[x] ELSE 0]
        /\ whole = [x \in Addresses |-> IF x \in s THEN cache[x] ELSE c[x]]
        /\ whole = [x \in Addresses |-> IF x \in s THEN cache[x] ELSE torn[x]]
    BY <2>1, <2>2
  <2> QED BY <2>3, Zenon DEF whole, torn
<1> HIDE DEF s, d
<1>8. CASE sent = 0
  <2>1. PICK K \in Nat, n \in Nat : FirstAppended(K, n)
    BY <1>8, AppendsFirst
  <2> DEFINE c == Played(flash)[K].contents
             n2 == n + (IF Len(d) > 1 THEN 2 ELSE 1)
  <2>2. /\ LogIs(flash, K, n) /\ c \in [Addresses -> Byte]
        /\ cache = Patched(c, block.address, block.data)
        /\ LogIs(flash', K + 1, n2)
        /\ Played(flash')[K + 1].contents =
              Patched(c, block.address, IF Len(d) > 1 THEN Torn(d) ELSE d)
    BY <2>1, Zenon DEF FirstAppended, d
  <2>3. K + 1 \in Nat /\ n2 \in Nat
    OBVIOUS
  <2> HIDE DEF n2
  <2>4. Durable = c
    BY <1>6, <2>2, DurableNow, DurableIs
  <2>5. Durable' = Patched(c, block.address, IF Len(d) > 1 THEN Torn(d) ELSE d)
    BY <2>2, <2>3, DurableNow, DurableIs
  <2> HIDE DEF c
  <2>6. CASE Len(d) > 1
    <3>1. Durable' = Patched(c, block.address, Torn(d))
      BY <2>5, <2>6
    <3>2. Patched(c, block.address, Torn(d)) =
             [x \in Addresses |->
                 IF x \notin s THEN c[x]
                 ELSE IF \A y \in s : x <= y THEN cache[x] ELSE 0]
      BY <1>7, <2>2, Zenon
    <3>3. Durable' = [x \in Addresses |->
                         IF x \notin s THEN Durable[x]
                         ELSE IF \A y \in s : x <= y THEN cache[x] ELSE 0]
      BY <2>4, <3>1, <3>2
    <3> QED BY <1>5, <3>3, Zenon
  <2>7. CASE ~(Len(d) > 1)
    <3>1. Durable' = Patched(c, block.address, d)
      BY <2>5, <2>7
    <3>2. Patched(c, block.address, d) =
             [x \in Addresses |-> IF x \in s THEN cache[x] ELSE c[x]]
      BY <1>7, <2>2, Zenon
    <3>3. Durable' = [x \in Addresses |-> IF x \in s THEN cache[x] ELSE Durable[x]]
      BY <2>4, <3>1, <3>2
    <3> QED BY <1>5, <3>3, Zenon
  <2> QED BY <2>6, <2>7
<1>9. CASE sent = 1
  <2>1. PICK j \in Nat, m \in Nat : SecondAppended(j, m)
    BY <1>9, AppendsSecond
  <2> DEFINE c == Played(flash)[j].contents
  <2>2. /\ LogIs(flash, j + 1, m + 2) /\ c \in [Addresses -> Byte]
        /\ cache = Patched(c, block.address, block.data)
        /\ Played(flash)[j + 1].contents = Patched(c, block.address, Torn(d))
        /\ LogIs(flash', j + 1, m + 2)
        /\ Played(flash')[j + 1].contents = Patched(c, block.address, d)
    BY <2>1, Zenon DEF SecondAppended, d
  <2>3. j + 1 \in Nat /\ m + 2 \in Nat
    OBVIOUS
  <2> HIDE DEF c
  <2>4. Durable = Patched(c, block.address, Torn(d))
    BY <1>6, <2>2, <2>3, DurableNow, DurableIs
  <2>5. Durable' = Patched(c, block.address, d)
    BY <2>2, <2>3, DurableNow, DurableIs
  <2> DEFINE torn == Patched(c, block.address, Torn(d))
  <2>6. Patched(c, block.address, d) =
           [x \in Addresses |-> IF x \in s THEN cache[x] ELSE torn[x]]
    BY <1>7, <2>2, Zenon
  <2>7. Durable = torn
    BY <2>4
  <2> HIDE DEF torn
  <2>8. Durable' = [x \in Addresses |-> IF x \in s THEN cache[x] ELSE Durable[x]]
    BY <2>5, <2>6, <2>7
  <2> QED BY <1>5, <2>8, Zenon
<1> QED BY <1>3, <1>8, <1>9

\* A consolidation wipes the store and brings all of it back with the last word.
LEMMA CopyImplements ==
    ASSUME TypeInv, TypeInv', CopyInv, CopyInv', LogReadsBack', ~damaged, ~damaged',
           ConsolidateErase \/ CopyWord
    PROVE  Store!Next \/ UNCHANGED Store!vars
<1>1. ASSUME Faulty PROVE FALSE
  BY <1>1, Zenon DEF Faulty
<1>2. CASE ConsolidateErase
  <2>1. phase = "consolidate" /\ phase' = "copy" /\ flash' = Erased /\ cache' = cache
    BY <1>1, <1>2 DEF ConsolidateErase
  <2>2. Status = "on" /\ Status' = "rewriting"
    BY <2>1 DEF Status
  <2>3. \A w \in FlashWords : w >= FirstWord => Erased[w] = Zero
    BY DEF Erased
  <2>4. DataWords + 1 \in FlashWords
    BY Sizes
  <2>5. Erased[DataWords + 1] = Zero
    BY <2>4 DEF Erased
  <2>6. Played(Erased)[EndWord].contents = Blank
    BY <2>3, <2>5, ErasedType, PartialIsBlank
  <2>7. Durable' = Blank
    BY <2>1, <2>6, DurableNow
  <2> QED BY <2>1, <2>2, <2>7, StoreSteps
<1>3. CASE CopyWord
  <2>1. phase = "copy" /\ cache' = cache
    BY <1>1, <1>3 DEF CopyWord
  <2>2. Status = "rewriting"
    BY <2>1 DEF Status
  <2>3. CASE copied = DataWords + 1
    <3>1. phase' = "idle"
      BY <1>1, <1>3, <2>3 DEF CopyWord, Return
    <3>2. Status' = "on"
      BY <3>1 DEF Status
    <3>3. Durable' = cache
      BY <2>1, <3>1 DEF LogReadsBack
    <3> QED BY <2>1, <2>2, <3>2, <3>3, StoreSteps
  <2>4. CASE copied # DataWords + 1
    <3>1. phase' = "copy"
      BY <1>1, <1>3, <2>1, <2>4 DEF CopyWord
    <3>2. Status' = "rewriting"
      BY <3>1 DEF Status
    <3>3. ASSUME NEW fl, NEW k \in Nat, k <= DataWords + 1, FlashType(fl),
                 \A w \in FlashWords : fl[w] = IF w < k THEN ImageWord(cache, w) ELSE Zero
          PROVE  Played(fl)[EndWord].contents = Blank
      <4>1. DataWords + 1 \in FlashWords /\ ~(DataWords + 1 < k)
        BY <3>3, Sizes
      <4>2. \A w \in FlashWords : w >= FirstWord => ~(w < k)
        BY <3>3, Sizes
      <4>3. fl[DataWords + 1] = Zero /\ \A w \in FlashWords : w >= FirstWord => fl[w] = Zero
        BY <3>3, <4>1, <4>2
      <4> QED BY <3>3, <4>3, PartialIsBlank
    <3>4. /\ copied \in Nat /\ copied <= DataWords + 1 /\ FlashType(flash)
          /\ copied' \in Nat /\ copied' <= DataWords + 1 /\ FlashType(flash')
      BY DEF TypeInv, Counts
    <3>5. \A w \in FlashWords : flash[w] = IF w < copied THEN ImageWord(cache, w) ELSE Zero
      BY <2>1, Zenon DEF CopyInv
    <3>6. \A w \in FlashWords :
             flash'[w] = IF w < copied' THEN ImageWord(cache, w) ELSE Zero
      BY <2>1, <3>1, Zenon DEF CopyInv
    <3>7. Durable = Blank
      BY <3>3, <3>4, <3>5, DurableNow
    <3>8. Durable' = Blank
      BY <3>3, <3>4, <3>6, DurableNow
    <3>9. Mem' = Mem
      BY <2>1, <2>2, <3>2 DEF Mem
    <3>10. UNCHANGED Store!vars
      BY <2>2, <3>2, <3>7, <3>8, <3>9, StoreSteps
    <3> QED BY <3>10
  <2> QED BY <2>3, <2>4
<1> QED BY <1>2, <1>3

\* The driver implements the store its clients rely on: whatever sequence of writes,
\* consolidations, erases, failures and power losses came before, a restart returns
\* exactly what is durable, and durability changes only by a log entry becoming
\* visible (its first byte, then all of it), a wipe or a full rewrite.
THEOREM ImplementsEeprom == Spec => ImplementsStore
<1>1. Init => Store!Init
  <2> SUFFICES ASSUME Init PROVE Store!Init
    OBVIOUS
  <2>1. flash = Erased /\ phase = "off" /\ damaged = FALSE
    BY DEF Init
  <2>2. Status = "off"
    BY <2>1 DEF Status
  <2>3. \A w \in FlashWords : w >= FirstWord => Erased[w] = Zero
    BY DEF Erased
  <2>4. Played(Erased)[EndWord].contents = Blank
    BY <2>3, StartWord, ErasedType, EmptyLog, ErasedIsBlank, DurableIs
  <2>5. Durable = Blank
    BY <2>1, <2>4, DurableNow
  <2>6. (~damaged) = TRUE
    BY <2>1, Zenon
  <2> QED BY <2>2, <2>5, <2>6, SameStore DEF Store!Init
<1>2. ASSUME TypeInv, TypeInv', CopyInv, CopyInv', LogInv, LogReadsBack', [Next]_vars
      PROVE  [Store!Next]_(Store!vars)
  <2>1. CASE damaged'
    BY <1>2, <2>1, FaultSteps, Zenon
  <2>2. CASE damaged /\ ~damaged'
    <3>1. phase' = "idle"
      <4>1. CASE CopyWord \/ EraseStore
        BY <2>2, <4>1, Zenon DEF CopyWord, EraseStore, Return, Failed
      <4>2. ASSUME damaged' = damaged \/ damaged' = TRUE PROVE FALSE
        BY <2>2, <4>2, Zenon
      <4>3. CASE ~(CopyWord \/ EraseStore)
        <5>1. damaged' = damaged \/ damaged' = TRUE
          BY <1>2, <4>3 DEF Next, PowerOn, PlayEntry, PlayEnd, WriteBlock, AppendRaw,
             ConsolidateErase, EraseCall, PowerLoss, PowerLossInErase, Faulty, NoFault, vars
        <5> QED BY <4>2, <5>1
      <4> QED BY <4>1, <4>3
    <3> QED BY <1>2, <2>2, <3>1, FaultSteps, Zenon
  <2>3. CASE ~damaged /\ ~damaged'
    <3>0. /\ FlashType(flash) /\ FlashType(flash')
          /\ cache \in [Addresses -> Byte] /\ cache' \in [Addresses -> Byte]
      BY <1>2 DEF TypeInv
    <3>a. ASSUME flash' = flash PROVE Durable' = Durable
      BY <3>a, DurableNow
    <3>b. ASSUME Faulty PROVE FALSE
      BY <2>3, <3>b, Zenon DEF Faulty
    <3>1. CASE PowerOn \/ PlayEntry \/ PlayEnd
      BY <1>2, <2>3, <3>1, PlaybackImplements
    <3>2. ASSUME NEW r \in Requests, WriteBlock(r) PROVE Store!Next
      <4>1. phase = "idle" /\ phase' = "append" /\ flash' = flash
        BY <3>2, <3>b DEF WriteBlock
      <4>2. Status = "on" /\ Status' = "on"
        BY <4>1 DEF Status
      <4> QED BY <2>3, <3>0, <3>a, <4>1, <4>2, StoreSteps
    <3>3. CASE AppendRaw
      BY <1>2, <2>3, <3>0, <3>3, AppendImplements
    <3>4. CASE ConsolidateErase \/ CopyWord
      BY <1>2, <2>3, <3>4, CopyImplements
    <3>5. CASE EraseCall
      <4>1. phase = "idle" /\ phase' = "erase" /\ flash' = flash /\ cache' = cache
        BY <3>5 DEF EraseCall
      <4>2. Status = "on" /\ Status' = "on"
        BY <4>1 DEF Status
      <4> QED BY <2>3, <3>0, <3>a, <4>1, <4>2, StoreSteps
    <3>6. CASE EraseStore
      <4>1. phase = "erase" /\ phase' = "idle" /\ cache' = Blank
        BY <3>6 DEF EraseStore, Return
      <4>2. Status = "on" /\ Status' = "on"
        BY <4>1 DEF Status
      <4>3. Durable' = Blank
        BY <1>2, <2>3, <4>1, Zenon DEF LogReadsBack
      <4> QED BY <2>3, <4>1, <4>2, <4>3, StoreSteps
    <3>7. CASE PowerLoss
      <4>1. phase' = "off" /\ flash' = flash
        BY <3>7 DEF PowerLoss, Off
      <4>2. Status' = "off"
        BY <4>1 DEF Status
      <4> QED BY <2>3, <3>a, <4>1, <4>2, StoreSteps
    <3>8. CASE PowerLossInErase
      BY <3>8, <3>b DEF PowerLossInErase
    <3>9. CASE UNCHANGED vars
      <4>1. UNCHANGED <<flash, cache, phase>>
        BY <3>9 DEF vars, driver
      <4>2. Durable' = Durable /\ Status' = Status
        BY <3>a, <4>1 DEF Status
      <4>3. Mem' = Mem
        BY <4>1, <4>2 DEF Mem
      <4> QED BY <2>3, <4>2, <4>3, StoreSteps
    <3> QED BY <1>2, <3>1, <3>2, <3>3, <3>4, <3>5, <3>6, <3>7, <3>8, <3>9 DEF Next
  <2> QED BY <2>1, <2>2, <2>3
<1> QED BY <1>1, <1>2, WearTypes, LogInvariant, AcknowledgedIsDurable, PTL
        DEF Spec, ImplementsStore, Store!Spec
=============================================================================
