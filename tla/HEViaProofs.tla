----------------------------- MODULE HEViaProofs -----------------------------
(***************************************************************************)
(* Proofs about the settings and their persistence, for any number of      *)
(* keys, any limits and defaults within the assumptions, any bytes VIA may *)
(* send, any auto-save window, any length of a log entry, and power lost   *)
(* anywhere.                                                               *)
(*                                                                         *)
(* The argument is about updates that have not happened yet: Lands says    *)
(* which value a cell holds once the running handler's remaining updates   *)
(* are done, and the invariant relates what the load would make of that    *)
(* value to the working settings.                                          *)
(***************************************************************************)
EXTENDS HEVia, SequenceTheorems, TLAPS

-----------------------------------------------------------------------------
(* Pending updates.                                                        *)

\* No update of w covers the cell c.
Untouched(w, c) == \A n \in 1..Len(w) : c \notin DOMAIN w[n]

\* The last update of w that covers the cell c stores a member of S.
Last(w, c, S) ==
    \E n \in 1..Len(w) : /\ c \in DOMAIN w[n] /\ w[n][c] \in S
                         /\ \A m \in 1..Len(w) : m > n => c \notin DOMAIN w[m]

\* Once the updates w are done on top of e, the cell c holds a member of S.
Lands(w, e, c, S) == Last(w, c, S) \/ (Untouched(w, c) /\ e[c] \in S)

\* With no update outstanding the cell holds the value already.
LEMMA LandsNow ==
    ASSUME NEW e, NEW c, NEW S
    PROVE  Lands(<<>>, e, c, S) <=> e[c] \in S
BY DEF Lands, Last, Untouched

\* An update that is finished leaves the queue (AppendEntry of a last entry,
\* Consolidate): where a cell lands does not change.
LEMMA LandsTail ==
    ASSUME NEW W, NEW w \in Seq(W), w # <<>>, NEW e, NEW f, NEW c, NEW S,
           f[c] = IF c \in DOMAIN w[1] THEN w[1][c] ELSE e[c],
           Lands(w, e, c, S)
    PROVE  Lands(Tail(w), f, c, S)
<1> DEFINE t == Tail(w)
<1>1. /\ Len(w) \in Nat \ {0} /\ Len(t) = Len(w) - 1
      /\ \A n \in 1..Len(t) : t[n] = w[n + 1]
  BY HeadTailProperties, EmptySeq
<1> HIDE DEF t
<1>2. CASE Last(w, c, S)
  <2>1. PICK n \in 1..Len(w) :
             /\ c \in DOMAIN w[n] /\ w[n][c] \in S
             /\ \A m \in 1..Len(w) : m > n => c \notin DOMAIN w[m]
    BY <1>2 DEF Last
  <2>2. CASE n = 1
    <3>1. Untouched(t, c)
      BY <1>1, <2>1, <2>2 DEF Untouched
    <3> QED BY <2>1, <2>2, <3>1 DEF Lands, t
  <2>3. CASE n # 1
    <3>1. n - 1 \in 1..Len(t) /\ t[n - 1] = w[n]
      BY <1>1, <2>3
    <3>2. \A m \in 1..Len(t) : m > n - 1 => c \notin DOMAIN t[m]
      BY <1>1, <2>1
    <3>3. Last(t, c, S)
      BY <2>1, <3>1, <3>2 DEF Last
    <3> QED BY <3>3 DEF Lands, t
  <2> QED BY <2>2, <2>3
<1>3. CASE Untouched(w, c) /\ e[c] \in S
  <2>1. Untouched(t, c) /\ c \notin DOMAIN w[1]
    BY <1>1, <1>3 DEF Untouched
  <2> QED BY <1>3, <2>1 DEF Lands, t
<1> QED BY <1>2, <1>3 DEF Lands

\* An update that is written in part keeps its other cells in the queue: where a
\* cell lands does not change.
LEMMA LandsRest ==
    ASSUME NEW W, NEW w \in Seq(W), w # <<>>, NEW e, NEW f, NEW c, NEW S, NEW done,
           NEW v, Len(v) = Len(w),
           v[1] = [d \in DOMAIN w[1] \ done |-> w[1][d]],
           \A n \in 1..Len(w) : n # 1 => v[n] = w[n],
           done \subseteq DOMAIN w[1],
           f[c] = IF c \in done THEN w[1][c] ELSE e[c],
           Lands(w, e, c, S)
    PROVE  Lands(v, f, c, S)
<1>1. Len(w) \in Nat \ {0} /\ 1 \in 1..Len(w)
  BY EmptySeq, LenProperties
<1>2. DOMAIN v[1] = DOMAIN w[1] \ done
  OBVIOUS
<1>3. CASE Last(w, c, S)
  <2>1. PICK n \in 1..Len(w) :
             /\ c \in DOMAIN w[n] /\ w[n][c] \in S
             /\ \A m \in 1..Len(w) : m > n => c \notin DOMAIN w[m]
    BY <1>3 DEF Last
  <2>2. CASE n = 1 /\ c \in done
    <3>1. Untouched(v, c)
      BY <1>1, <1>2, <2>1, <2>2 DEF Untouched
    <3> QED BY <2>1, <2>2, <3>1 DEF Lands
  <2>3. CASE n # 1 \/ c \notin done
    <3>1. c \in DOMAIN v[n] /\ v[n][c] \in S
      BY <1>1, <1>2, <2>1, <2>3
    <3>2. \A m \in 1..Len(v) : m > n => c \notin DOMAIN v[m]
      BY <1>1, <2>1
    <3> QED BY <3>1, <3>2 DEF Lands, Last
  <2> QED BY <2>2, <2>3
<1>4. CASE Untouched(w, c) /\ e[c] \in S
  <2>1. Untouched(v, c) /\ c \notin done
    BY <1>1, <1>2, <1>4 DEF Untouched
  <2> QED BY <1>4, <2>1 DEF Lands
<1> QED BY <1>3, <1>4 DEF Lands

\* A cell that only one of two handlers' updates cover lands where those put it.
LEMMA LandsConcat ==
    ASSUME NEW W, NEW v \in Seq(W), NEW w \in Seq(W), NEW e, NEW c, NEW S
    PROVE  /\ Untouched(v, c) /\ Untouched(w, c) => Untouched(v \o w, c)
           /\ Untouched(v, c) /\ Lands(w, e, c, S) => Lands(v \o w, e, c, S)
           /\ Untouched(w, c) /\ Lands(v, e, c, S) => Lands(v \o w, e, c, S)
<1> DEFINE x == v \o w
<1>1. /\ Len(v) \in Nat /\ Len(w) \in Nat /\ Len(x) = Len(v) + Len(w)
      /\ \A n \in 1..(Len(v) + Len(w)) :
            x[n] = IF n <= Len(v) THEN v[n] ELSE w[n - Len(v)]
  BY ConcatProperties, LenProperties
<1> HIDE DEF x
<1>2. ASSUME Untouched(v, c), Untouched(w, c)
      PROVE  Untouched(x, c)
  BY <1>1, <1>2 DEF Untouched
<1>3. ASSUME Last(w, c, S)
      PROVE  Last(x, c, S)
  <2>1. PICK n \in 1..Len(w) :
             /\ c \in DOMAIN w[n] /\ w[n][c] \in S
             /\ \A m \in 1..Len(w) : m > n => c \notin DOMAIN w[m]
    BY <1>3 DEF Last
  <2> DEFINE k == Len(v) + n
  <2>2. k \in 1..Len(x) /\ x[k] = w[n]
    BY <1>1
  <2>3. ASSUME NEW m \in 1..Len(x), m > k
        PROVE  c \notin DOMAIN x[m]
    BY <1>1, <2>1, <2>3
  <2> QED BY <2>1, <2>2, <2>3 DEF Last
<1>4. ASSUME Untouched(w, c), Last(v, c, S)
      PROVE  Last(x, c, S)
  <2>1. PICK n \in 1..Len(v) :
             /\ c \in DOMAIN v[n] /\ v[n][c] \in S
             /\ \A m \in 1..Len(v) : m > n => c \notin DOMAIN v[m]
    BY <1>4 DEF Last
  <2>2. n \in 1..Len(x) /\ x[n] = v[n]
    BY <1>1
  <2>3. ASSUME NEW m \in 1..Len(x), m > n
        PROVE  c \notin DOMAIN x[m]
    BY <1>1, <1>4, <2>1, <2>3 DEF Untouched
  <2> QED BY <2>1, <2>2, <2>3 DEF Last
<1> QED BY <1>2, <1>3, <1>4 DEF Lands, x

-----------------------------------------------------------------------------
(* Types of updates and cells.                                             *)

KeyRecords == [actuation : Actuations, release : Releases]

\* What an update may be: some cells, each with a value of its type.
Images == {f \in UNION {[D -> Byte \cup BOOLEAN] : D \in SUBSET Cells} :
              \A c \in DOMAIN f : f[c] \in CellValues(c)}

\* The cells by kind.
LEMMA CellNames ==
    /\ <<"magic", 0>> \in Stamps /\ <<"via", 0>> \in Stamps
    /\ <<"version", 0>> \in Stamps /\ <<"mode", 0>> \in SettingsCells
    /\ \A f \in TuningFields : <<f, 0>> \in SettingsCells
    /\ \A i \in Keys : <<"actuation", i>> \in KeyCells /\ <<"release", i>> \in KeyCells
    /\ Stamps \subseteq Cells /\ KeyCells \subseteq Cells
    /\ SettingsCells \subseteq Cells
    /\ \A c \in KeyCells : c \notin Stamps /\ c \notin SettingsCells
    /\ \A c \in SettingsCells : c \notin Stamps /\ c \notin KeyCells
BY DEF Stamps, SettingsCells, KeyCells, Cells, TuningFields

\* A key's byte is the actuation or the release of a key, a settings byte the
\* mode or one of the tuning fields.
LEMMA CellParts ==
    /\ \A c \in KeyCells : c[2] \in Keys /\ c[1] \in {"actuation", "release"}
    /\ \A c \in SettingsCells : /\ c = <<"mode", 0>> \/ c[1] \in TuningFields
                                /\ c = <<c[1], 0>>
                                /\ c[1] = "mode" <=> c = <<"mode", 0>>
    /\ "mode" \notin TuningFields
BY DEF SettingsCells, KeyCells, TuningFields

\* An update covers cells, with values of their types.
LEMMA ImageCells ==
    ASSUME NEW f \in Images
    PROVE  DOMAIN f \subseteq Cells /\ \A c \in DOMAIN f : f[c] \in CellValues(c)
BY DEF Images

\* A typed function on cells is an update.
LEMMA ImageType ==
    ASSUME NEW D, D \subseteq Cells, NEW f, f = [c \in D |-> f[c]],
           \A c \in D : f[c] \in CellValues(c)
    PROVE  f \in Images
<1>1. \A c \in Cells : CellValues(c) \subseteq Byte \cup BOOLEAN
  BY DEF CellValues
<1>2. f \in [D -> Byte \cup BOOLEAN] /\ D \in SUBSET Cells /\ DOMAIN f = D
  <2>1. \A c \in D : f[c] \in Byte \cup BOOLEAN
    BY <1>1, Zenon
  <2> QED BY <2>1
<1>3. f \in UNION {[E -> Byte \cup BOOLEAN] : E \in SUBSET Cells}
  BY <1>2, Zenon
<1> QED BY <1>2, <1>3, Zenon DEF Images

\* What the setters keep in RAM fits in the bytes of the data block.
LEMMA SettingsFit ==
    /\ Actuations \subseteq Byte /\ Releases \subseteq Byte /\ Modes \subseteq Byte
    /\ \A t \in Tunings : \A f \in TuningFields : t[f] \in Byte
    /\ \A r \in KeyRecords : r["actuation"] \in Byte /\ r["release"] \in Byte
<1>1. Actuations \subseteq Byte /\ Releases \subseteq Byte
  BY ThresholdLimits DEF Actuations, Releases, Byte
<1>2. Modes \subseteq Byte
  BY DEF Modes, HE_MODE_NORMAL, HE_MODE_RAPID_TRIGGER, HE_MODE_KEY_CANCEL, Byte
<1>3. ASSUME NEW t \in Tunings, NEW f \in TuningFields
      PROVE  t[f] \in Byte
  BY <1>3, ThresholdLimits DEF Tunings, TuningFields, Byte
<1>4. ASSUME NEW r \in KeyRecords
      PROVE  r["actuation"] \in Byte /\ r["release"] \in Byte
  BY <1>1 DEF KeyRecords
<1> QED BY <1>1, <1>2, <1>3, <1>4

-----------------------------------------------------------------------------
(* What the save routines write.                                           *)

\* The three kinds of update, and the cells they cover.
LEMMA StampImage ==
    ASSUME NEW name \in {"magic", "via", "version"}
    PROVE  /\ Stamp(name) \in Images /\ DOMAIN Stamp(name) = {<<name, 0>>}
           /\ Stamp(name)[<<name, 0>>] = TRUE
<1> DEFINE f == Stamp(name)
<1>1. DOMAIN f = {<<name, 0>>} /\ f[<<name, 0>>] = TRUE /\ <<name, 0>> \in Stamps
  BY DEF Stamp, Stamps
<1>2. f = [c \in {<<name, 0>>} |-> f[c]]
  BY DEF Stamp
<1>3. f[<<name, 0>>] \in CellValues(<<name, 0>>)
  BY <1>1, Zenon DEF CellValues
<1> HIDE DEF f
<1>4. f \in Images
  BY <1>1, <1>2, <1>3, CellNames, ImageType
<1> QED BY <1>1, <1>4 DEF f

\* The key records.
LEMMA KeyImageCells ==
    ASSUME NEW cfg \in [Keys -> KeyRecords]
    PROVE  /\ KeyImage(cfg) \in Images /\ DOMAIN KeyImage(cfg) = KeyCells
           /\ \A c \in KeyCells : KeyImage(cfg)[c] = cfg[c[2]][c[1]]
<1> DEFINE f == KeyImage(cfg)
<1>1. DOMAIN f = KeyCells /\ f = [c \in KeyCells |-> f[c]]
  BY DEF KeyImage
<1>2. \A c \in KeyCells : f[c] = cfg[c[2]][c[1]]
  BY DEF KeyImage
<1>3. ASSUME NEW c \in KeyCells PROVE f[c] \in CellValues(c)
  <2>1. c[2] \in Keys /\ (c[1] = "actuation" \/ c[1] = "release")
    BY CellParts
  <2>2. cfg[c[2]] \in KeyRecords
    BY <2>1
  <2>3. cfg[c[2]][c[1]] \in Byte
    BY <2>1, <2>2, SettingsFit, Zenon
  <2> QED BY <1>2, <2>3, CellNames, Zenon DEF CellValues
<1> HIDE DEF f
<1>4. f \in Images
  BY <1>1, <1>3, CellNames, ImageType
<1> QED BY <1>1, <1>2, <1>4 DEF f

\* The settings record.
LEMMA SettingsImageCells ==
    ASSUME NEW m \in Modes, NEW t \in Tunings
    PROVE  /\ SettingsImage(m, t) \in Images
           /\ DOMAIN SettingsImage(m, t) = SettingsCells
           /\ SettingsImage(m, t)[<<"mode", 0>>] = m
           /\ \A f \in TuningFields : SettingsImage(m, t)[<<f, 0>>] = t[f]
<1> DEFINE f == SettingsImage(m, t)
<1>1. DOMAIN f = SettingsCells /\ f = [c \in SettingsCells |-> f[c]]
  BY DEF SettingsImage
<1>2. \A c \in SettingsCells : f[c] = IF c[1] = "mode" THEN m ELSE t[c[1]]
  BY DEF SettingsImage
<1>3. f[<<"mode", 0>>] = m
  BY <1>2, CellNames
<1>4. \A g \in TuningFields : f[<<g, 0>>] = t[g]
  BY <1>2, CellNames DEF TuningFields
<1>5. ASSUME NEW c \in SettingsCells PROVE f[c] \in CellValues(c)
  <2>1. c[1] = "mode" \/ c[1] \in TuningFields
    BY CellParts
  <2>2. f[c] \in Byte
    BY <1>2, <2>1, SettingsFit, Zenon
  <2> QED BY <2>2, CellNames, Zenon DEF CellValues
<1> HIDE DEF f
<1>6. f \in Images
  BY <1>1, <1>5, CellNames, ImageType
<1> QED BY <1>1, <1>3, <1>4, <1>6 DEF f

\* eeprom_update_block: skipped or not, the cells it covers land on the new
\* values, and no other cell is touched.
LEMMA UpdateLands ==
    ASSUME NEW f \in Images
    PROVE  /\ Update(f) \in Seq(Images)
           /\ \A c \in DOMAIN f : Lands(Update(f), ee, c, {f[c]})
           /\ \A c : c \notin DOMAIN f => Untouched(Update(f), c)
<1>1. CASE \A c \in DOMAIN f : ee[c] = f[c]
  <2>1. Update(f) = <<>>
    BY <1>1, Zenon DEF Update
  <2>2. \A c \in DOMAIN f : ee[c] \in {f[c]}
    BY <1>1, Zenon
  <2>3. \A c : Untouched(<<>>, c)
    BY DEF Untouched
  <2>4. <<>> \in Seq(Images)
    BY EmptySeq
  <2> QED BY <2>1, <2>2, <2>3, <2>4, LandsNow, Zenon
<1>2. CASE ~ \A c \in DOMAIN f : ee[c] = f[c]
  <2> DEFINE w == <<f>>
  <2>1. Update(f) = w
    BY <1>2, Zenon DEF Update
  <2>2. w \in Seq(Images) /\ Len(w) = 1 /\ w[1] = f
    OBVIOUS
  <2>3. \A n \in 1..Len(w) : n = 1
    BY <2>2
  <2>4. 1 \in 1..Len(w) /\ ~(1 > 1)
    BY <2>2
  <2> HIDE DEF w
  <2>5. ASSUME NEW c \in DOMAIN f PROVE Lands(w, ee, c, {f[c]})
    <3>1. w[1][c] \in {f[c]}
      BY <2>2, Zenon
    <3> QED BY <2>2, <2>3, <2>4, <3>1, Zenon DEF Lands, Last
  <2>6. ASSUME NEW c, c \notin DOMAIN f PROVE Untouched(w, c)
    BY <2>2, <2>3, <2>6, Zenon DEF Untouched
  <2> QED BY <2>1, <2>2, <2>5, <2>6, Zenon
<1> QED BY <1>1, <1>2

\* he_save_settings_to_eeprom: the settings land on the values it was given, and
\* the key records are not touched.
LEMMA SettingsWritesLand ==
    ASSUME NEW m \in Modes, NEW t \in Tunings
    PROVE  /\ SettingsWrites(m, t) \in Seq(Images)
           /\ Lands(SettingsWrites(m, t), ee, <<"version", 0>>, {TRUE})
           /\ Lands(SettingsWrites(m, t), ee, <<"mode", 0>>, {m})
           /\ \A f \in TuningFields :
                 Lands(SettingsWrites(m, t), ee, <<f, 0>>, {t[f]})
           /\ \A c \in KeyCells \cup {<<"magic", 0>>, <<"via", 0>>} :
                 Untouched(SettingsWrites(m, t), c)
<1> DEFINE v == Update(Stamp("version"))
           w == Update(SettingsImage(m, t))
           f == SettingsImage(m, t)
<1>1. /\ v \in Seq(Images) /\ Lands(v, ee, <<"version", 0>>, {TRUE})
      /\ \A c : c # <<"version", 0>> => Untouched(v, c)
  <2>1. /\ Stamp("version") \in Images
        /\ DOMAIN Stamp("version") = {<<"version", 0>>}
        /\ Stamp("version")[<<"version", 0>>] = TRUE
    BY StampImage
  <2>2. <<"version", 0>> \in DOMAIN Stamp("version")
    BY <2>1, Zenon
  <2>3. /\ v \in Seq(Images)
        /\ \A c \in DOMAIN Stamp("version") : Lands(v, ee, c, {Stamp("version")[c]})
        /\ \A c : c \notin DOMAIN Stamp("version") => Untouched(v, c)
    BY <2>1, UpdateLands
  <2>4. Lands(v, ee, <<"version", 0>>, {Stamp("version")[<<"version", 0>>]})
    BY <2>2, <2>3, Zenon
  <2>5. ASSUME NEW c, c # <<"version", 0>> PROVE Untouched(v, c)
    <3>1. c \notin DOMAIN Stamp("version")
      BY <2>1, <2>5, Zenon
    <3> QED BY <2>3, <3>1, Zenon
  <2>6. Lands(v, ee, <<"version", 0>>, {TRUE})
    <3> HIDE DEF v
    <3> QED BY <2>1, <2>4
  <2> QED BY <2>3, <2>5, <2>6, Zenon
<1>2. /\ w \in Seq(Images)
      /\ \A c \in SettingsCells : Lands(w, ee, c, {f[c]})
      /\ \A c : c \notin SettingsCells => Untouched(w, c)
  <2>1. f \in Images /\ DOMAIN f = SettingsCells
    BY SettingsImageCells
  <2>2. /\ w \in Seq(Images)
        /\ \A c \in DOMAIN f : Lands(w, ee, c, {f[c]})
        /\ \A c : c \notin DOMAIN f => Untouched(w, c)
    BY <2>1, UpdateLands
  <2> HIDE DEF w, f
  <2> QED BY <2>1, <2>2, Zenon
<1>3. SettingsWrites(m, t) = v \o w
  BY DEF SettingsWrites
<1>4. f[<<"mode", 0>>] = m /\ \A g \in TuningFields : f[<<g, 0>>] = t[g]
  BY SettingsImageCells
<1>5. /\ \A c \in SettingsCells : c # <<"version", 0>>
      /\ <<"version", 0>> \notin SettingsCells
  BY CellNames
<1> HIDE DEF v, w, f
<1>6. v \o w \in Seq(Images)
  BY <1>1, <1>2, ConcatProperties
<1>7. \A c \in SettingsCells : Lands(v \o w, ee, c, {f[c]})
  <2> SUFFICES ASSUME NEW c \in SettingsCells PROVE Lands(v \o w, ee, c, {f[c]})
    OBVIOUS
  <2>1. Untouched(v, c) /\ Lands(w, ee, c, {f[c]})
    BY <1>1, <1>2, <1>5
  <2> QED BY <1>1, <1>2, <2>1, LandsConcat
<1>8. Lands(v \o w, ee, <<"version", 0>>, {TRUE})
  <2>1. Untouched(w, <<"version", 0>>)
    BY <1>2, <1>5
  <2> QED BY <1>1, <1>2, <2>1, LandsConcat
<1>9. \A c \in KeyCells \cup {<<"magic", 0>>, <<"via", 0>>} : Untouched(v \o w, c)
  <2> SUFFICES ASSUME NEW c \in KeyCells \cup {<<"magic", 0>>, <<"via", 0>>}
               PROVE  Untouched(v \o w, c)
    OBVIOUS
  <2>1. c # <<"version", 0>> /\ c \notin SettingsCells
    BY CellNames
  <2>2. Untouched(v, c) /\ Untouched(w, c)
    BY <1>1, <1>2, <2>1
  <2> QED BY <1>1, <1>2, <2>2, LandsConcat
<1>10. Lands(v \o w, ee, <<"mode", 0>>, {m})
  BY <1>4, <1>7, CellNames
<1>11. \A g \in TuningFields : Lands(v \o w, ee, <<g, 0>>, {t[g]})
  <2> SUFFICES ASSUME NEW g \in TuningFields
               PROVE  Lands(v \o w, ee, <<g, 0>>, {t[g]})
    OBVIOUS
  <2>1. Lands(v \o w, ee, <<g, 0>>, {f[<<g, 0>>]})
    BY <1>7, CellNames
  <2> QED BY <1>4, <2>1
<1> QED BY <1>3, <1>6, <1>8, <1>9, <1>10, <1>11

\* he_save_to_eeprom is the key records in front of the settings record: every
\* cell of the data block lands on the value it was given.
LEMMA SaveWritesLand ==
    ASSUME NEW cfg \in [Keys -> KeyRecords], NEW m \in Modes, NEW t \in Tunings
    PROVE  /\ SaveWrites(cfg, m, t) \in Seq(Images)
           /\ Lands(SaveWrites(cfg, m, t), ee, <<"version", 0>>, {TRUE})
           /\ \A c \in KeyCells :
                 Lands(SaveWrites(cfg, m, t), ee, c, {cfg[c[2]][c[1]]})
           /\ Lands(SaveWrites(cfg, m, t), ee, <<"mode", 0>>, {m})
           /\ \A f \in TuningFields :
                 Lands(SaveWrites(cfg, m, t), ee, <<f, 0>>, {t[f]})
           /\ \A c \in {<<"magic", 0>>, <<"via", 0>>} :
                 Untouched(SaveWrites(cfg, m, t), c)
<1> DEFINE v == Update(Stamp("version"))
           k == Update(KeyImage(cfg))
           w == Update(SettingsImage(m, t))
           s == SaveWrites(cfg, m, t)
<1>1. /\ v \in Seq(Images)
      /\ Lands(v, ee, <<"version", 0>>, {Stamp("version")[<<"version", 0>>]})
      /\ \A c : c # <<"version", 0>> => Untouched(v, c)
  <2>1. /\ Stamp("version") \in Images
        /\ DOMAIN Stamp("version") = {<<"version", 0>>}
    BY StampImage
  <2> DEFINE f == Stamp("version")
  <2> HIDE DEF f
  <2>2. /\ Update(f) \in Seq(Images)
        /\ \A c \in DOMAIN f : Lands(Update(f), ee, c, {f[c]})
        /\ \A c : c \notin DOMAIN f => Untouched(Update(f), c)
    BY <2>1, UpdateLands DEF f
  <2>3. DOMAIN f = {<<"version", 0>>}
    BY <2>1 DEF f
  <2>4. /\ Lands(Update(f), ee, <<"version", 0>>, {f[<<"version", 0>>]})
        /\ \A c : c # <<"version", 0>> => Untouched(Update(f), c)
    BY <2>2, <2>3, Zenon
  <2> QED BY <2>2, <2>4 DEF f
<1>2. Stamp("version")[<<"version", 0>>] = TRUE
  BY StampImage
<1>3. /\ k \in Seq(Images)
      /\ \A c \in KeyCells : Lands(k, ee, c, {KeyImage(cfg)[c]})
      /\ \A c : c \notin KeyCells => Untouched(k, c)
  <2> DEFINE f == KeyImage(cfg)
  <2>1. f \in Images /\ DOMAIN f = KeyCells
    BY KeyImageCells
  <2>2. /\ k \in Seq(Images)
        /\ \A c \in DOMAIN f : Lands(k, ee, c, {f[c]})
        /\ \A c : c \notin DOMAIN f => Untouched(k, c)
    BY <2>1, UpdateLands
  <2>3. /\ \A c \in KeyCells : Lands(k, ee, c, {f[c]})
        /\ \A c : c \notin KeyCells => Untouched(k, c)
    <3> HIDE DEF k, f
    <3> QED BY <2>1, <2>2, Zenon
  <2> QED BY <2>2, <2>3
<1>4. \A c \in KeyCells : KeyImage(cfg)[c] = cfg[c[2]][c[1]]
  BY KeyImageCells
<1>5. /\ w \in Seq(Images)
      /\ \A c \in SettingsCells : Lands(w, ee, c, {SettingsImage(m, t)[c]})
      /\ \A c : c \notin SettingsCells => Untouched(w, c)
  <2> DEFINE f == SettingsImage(m, t)
  <2>1. f \in Images /\ DOMAIN f = SettingsCells
    BY SettingsImageCells
  <2>2. /\ w \in Seq(Images)
        /\ \A c \in DOMAIN f : Lands(w, ee, c, {f[c]})
        /\ \A c : c \notin DOMAIN f => Untouched(w, c)
    BY <2>1, UpdateLands
  <2>3. /\ \A c \in SettingsCells : Lands(w, ee, c, {f[c]})
        /\ \A c : c \notin SettingsCells => Untouched(w, c)
    <3> HIDE DEF w, f
    <3> QED BY <2>1, <2>2, Zenon
  <2> QED BY <2>2, <2>3
<1>6. /\ SettingsImage(m, t)[<<"mode", 0>>] = m
      /\ \A f \in TuningFields : SettingsImage(m, t)[<<f, 0>>] = t[f]
  BY SettingsImageCells
<1>7. s = (v \o k) \o w
  BY DEF SaveWrites
<1> HIDE DEF v, k, w, s
<1>8. v \o k \in Seq(Images) /\ (v \o k) \o w \in Seq(Images)
  BY <1>1, <1>3, <1>5, ConcatProperties
<1>9. ASSUME NEW c, NEW S
      PROVE  /\ Untouched(v, c) /\ Untouched(k, c) /\ Untouched(w, c)
                   => Untouched((v \o k) \o w, c)
             /\ Lands(v, ee, c, S) /\ Untouched(k, c) /\ Untouched(w, c)
                   => Lands((v \o k) \o w, ee, c, S)
             /\ Untouched(v, c) /\ Lands(k, ee, c, S) /\ Untouched(w, c)
                   => Lands((v \o k) \o w, ee, c, S)
             /\ Untouched(v, c) /\ Untouched(k, c) /\ Lands(w, ee, c, S)
                   => Lands((v \o k) \o w, ee, c, S)
  <2> DEFINE x == v \o k
  <2>1. /\ Untouched(v, c) /\ Untouched(k, c) => Untouched(x, c)
        /\ Untouched(v, c) /\ Lands(k, ee, c, S) => Lands(x, ee, c, S)
        /\ Untouched(k, c) /\ Lands(v, ee, c, S) => Lands(x, ee, c, S)
    BY <1>1, <1>3, LandsConcat
  <2>2. x \in Seq(Images)
    BY <1>8
  <2> HIDE DEF x
  <2>3. /\ Untouched(x, c) /\ Untouched(w, c) => Untouched(x \o w, c)
        /\ Untouched(x, c) /\ Lands(w, ee, c, S) => Lands(x \o w, ee, c, S)
        /\ Untouched(w, c) /\ Lands(x, ee, c, S) => Lands(x \o w, ee, c, S)
    BY <1>5, <2>2, LandsConcat
  <2> QED BY <2>1, <2>3, Zenon DEF x
<1>10. Lands(s, ee, <<"version", 0>>, {TRUE})
  <2>1. <<"version", 0>> \notin KeyCells /\ <<"version", 0>> \notin SettingsCells
    BY CellNames
  <2>2. Lands(v, ee, <<"version", 0>>, {TRUE})
    BY <1>1, <1>2
  <2> QED BY <1>3, <1>5, <1>7, <1>9, <2>1, <2>2
<1>11. ASSUME NEW c \in KeyCells PROVE Lands(s, ee, c, {cfg[c[2]][c[1]]})
  <2>1. c # <<"version", 0>> /\ c \notin SettingsCells
    BY CellNames
  <2>2. Lands(k, ee, c, {cfg[c[2]][c[1]]})
    BY <1>3, <1>4
  <2> QED BY <1>1, <1>5, <1>7, <1>9, <2>1, <2>2
<1>12. ASSUME NEW c \in SettingsCells PROVE Lands(s, ee, c, {SettingsImage(m, t)[c]})
  <2>1. c # <<"version", 0>> /\ c \notin KeyCells
    BY CellNames
  <2> QED BY <1>1, <1>3, <1>5, <1>7, <1>9, <2>1
<1>13. Lands(s, ee, <<"mode", 0>>, {m})
  BY <1>6, <1>12, CellNames
<1>14. ASSUME NEW f \in TuningFields PROVE Lands(s, ee, <<f, 0>>, {t[f]})
  <2>1. Lands(s, ee, <<f, 0>>, {SettingsImage(m, t)[<<f, 0>>]})
    BY <1>12, CellNames
  <2> QED BY <1>6, <2>1
<1>15. ASSUME NEW c \in {<<"magic", 0>>, <<"via", 0>>} PROVE Untouched(s, c)
  <2>1. c # <<"version", 0>> /\ c \notin KeyCells /\ c \notin SettingsCells
    BY CellNames
  <2> QED BY <1>1, <1>3, <1>5, <1>7, <1>9, <2>1
<1> QED BY <1>7, <1>8, <1>10, <1>11, <1>13, <1>14, <1>15 DEF s

\* eeconfig_init_quantum sets both magics, and nothing later in it clears them.
LEMMA FormatWritesLand ==
    /\ FormatWrites \in Seq(Images)
    /\ \A e : /\ Lands(FormatWrites, e, <<"magic", 0>>, {TRUE})
              /\ Lands(FormatWrites, e, <<"via", 0>>, {TRUE})
<1> DEFINE a == Stamp("magic")
           b == Stamp("version")
           d == Stamp("via")
           k == KeyImage(DefaultConfig)
           s == SettingsImage(HE_MODE_RAPID_TRIGGER, DefaultTuning)
           w == <<a, b, d, k, s>>
<1>1. /\ DefaultConfig \in [Keys -> KeyRecords]
      /\ HE_MODE_RAPID_TRIGGER \in Modes /\ DefaultTuning \in Tunings
  BY DefaultsInRange DEF DefaultConfig, KeyRecords, Modes, DefaultTuning, Tunings
<1>2. /\ a \in Images /\ DOMAIN a = {<<"magic", 0>>} /\ a[<<"magic", 0>>] = TRUE
      /\ b \in Images /\ DOMAIN b = {<<"version", 0>>}
      /\ d \in Images /\ DOMAIN d = {<<"via", 0>>} /\ d[<<"via", 0>>] = TRUE
  BY StampImage
<1>3. k \in Images /\ DOMAIN k = KeyCells
  BY <1>1, KeyImageCells
<1>4. s \in Images /\ DOMAIN s = SettingsCells
  BY <1>1, SettingsImageCells
<1>5. FormatWrites = w
  BY DEF FormatWrites
<1>6. /\ <<"magic", 0>> \notin KeyCells /\ <<"magic", 0>> \notin SettingsCells
      /\ <<"via", 0>> \notin KeyCells /\ <<"via", 0>> \notin SettingsCells
  BY CellNames
<1> HIDE DEF a, b, d, k, s
<1>7. /\ w \in Seq(Images) /\ Len(w) = 5
      /\ w[1] = a /\ w[2] = b /\ w[3] = d /\ w[4] = k /\ w[5] = s
  BY <1>2, <1>3, <1>4
<1> HIDE DEF w
<1>8. /\ 1 \in 1..Len(w) /\ 3 \in 1..Len(w)
      /\ \A n \in 1..Len(w) : /\ n > 1 => n \in {2, 3, 4, 5}
                              /\ n > 3 => n \in {4, 5}
  BY <1>7
<1>9. Last(w, <<"magic", 0>>, {TRUE})
  <2>1. \A n \in 1..Len(w) : n > 1 => <<"magic", 0>> \notin DOMAIN w[n]
    BY <1>2, <1>3, <1>4, <1>6, <1>7, <1>8
  <2>2. <<"magic", 0>> \in DOMAIN w[1] /\ w[1][<<"magic", 0>>] \in {TRUE}
    BY <1>2, <1>7, Zenon
  <2> QED BY <1>8, <2>1, <2>2, Zenon DEF Last
<1>10. Last(w, <<"via", 0>>, {TRUE})
  <2>1. \A n \in 1..Len(w) : n > 3 => <<"via", 0>> \notin DOMAIN w[n]
    BY <1>3, <1>4, <1>6, <1>7, <1>8
  <2>2. <<"via", 0>> \in DOMAIN w[3] /\ w[3][<<"via", 0>>] \in {TRUE}
    BY <1>2, <1>7, Zenon
  <2> QED BY <1>8, <2>1, <2>2, Zenon DEF Last
<1> QED BY <1>5, <1>7, <1>9, <1>10 DEF Lands

-----------------------------------------------------------------------------
(* The load.                                                               *)

\* The bytes from which he_load_from_eeprom makes a given setting.
KeyYields(cfg, c) ==
    {v \in Byte : IF c[1] = "actuation"
                  THEN ClampActuation(v) = cfg[c[2]].actuation
                  ELSE ClampRelease(v) = cfg[c[2]].release}
ModeYields(m) == {v \in Byte : LoadMode(v) = m}
TuningYields(t, f) ==
    {v \in Byte : ClampTuning([g \in TuningFields |-> v])[f] = t[f]}

\* ClampTuning treats its fields one by one.
LEMMA ClampFields ==
    ASSUME NEW t, NEW f \in TuningFields
    PROVE  ClampTuning(t)[f] = ClampTuning([g \in TuningFields |-> t[f]])[f]
BY DEF ClampTuning, TuningFields

\* A clamped value is legal.
LEMMA ClampTypes ==
    /\ \A v \in Byte : ClampActuation(v) \in Actuations /\ ClampRelease(v) \in Releases
    /\ \A v \in Byte : LoadMode(v) \in Modes
    /\ \A t \in [TuningFields -> Byte] : ClampTuning(t) \in Tunings
<1>1. ASSUME NEW v \in Byte
      PROVE  ClampActuation(v) \in Actuations /\ ClampRelease(v) \in Releases
  BY <1>1, ThresholdLimits
     DEF ClampActuation, ClampRelease, Clamp, Actuations, Releases, Byte
<1>2. ASSUME NEW v \in Byte PROVE LoadMode(v) \in Modes
  BY <1>2 DEF LoadMode, Modes, HE_MODE_NORMAL, HE_MODE_RAPID_TRIGGER,
              HE_MODE_KEY_CANCEL, Byte
<1>3. ASSUME NEW t \in [TuningFields -> Byte] PROVE ClampTuning(t) \in Tunings
  <2>1. t.deadzone \in Byte /\ t.engage \in Byte /\ t.release_dist \in Byte
    BY <1>3 DEF TuningFields
  <2> QED BY <2>1, ThresholdLimits DEF ClampTuning, Clamp, Tunings, Byte
<1> QED BY <1>1, <1>2, <1>3

\* What a save wrote is loaded as it was.
LEMMA SavedIsLoaded ==
    ASSUME NEW cfg \in [Keys -> KeyRecords], NEW m \in Modes, NEW t \in Tunings
    PROVE  /\ \A c \in KeyCells : cfg[c[2]][c[1]] \in KeyYields(cfg, c)
           /\ m \in ModeYields(m)
           /\ \A f \in TuningFields : t[f] \in TuningYields(t, f)
<1>1. ASSUME NEW c \in KeyCells PROVE cfg[c[2]][c[1]] \in KeyYields(cfg, c)
  <2>1. c[2] \in Keys /\ c[1] \in {"actuation", "release"}
    BY CellParts
  <2>2. cfg[c[2]] \in KeyRecords
    BY <2>1
  <2>3. /\ cfg[c[2]]["actuation"] \in Actuations
        /\ cfg[c[2]]["release"] \in Releases
        /\ cfg[c[2]].actuation = cfg[c[2]]["actuation"]
        /\ cfg[c[2]].release = cfg[c[2]]["release"]
    BY <2>2 DEF KeyRecords
  <2>4. /\ \A v \in Actuations : ClampActuation(v) = v
        /\ \A v \in Releases : ClampRelease(v) = v
    BY ThresholdLimits DEF ClampActuation, ClampRelease, Clamp, Actuations, Releases
  <2>5. CASE c[1] = "actuation"
    BY <2>3, <2>4, <2>5, SettingsFit DEF KeyYields
  <2>6. CASE c[1] = "release"
    BY <2>3, <2>4, <2>6, SettingsFit DEF KeyYields
  <2> QED BY <2>1, <2>5, <2>6
<1>2. m \in ModeYields(m)
  BY SettingsFit DEF ModeYields, LoadMode, Modes, HE_MODE_NORMAL,
                     HE_MODE_RAPID_TRIGGER, HE_MODE_KEY_CANCEL
<1>3. ASSUME NEW f \in TuningFields PROVE t[f] \in TuningYields(t, f)
  <2>1. ClampTuning(t) = t
    BY ThresholdLimits DEF ClampTuning, Clamp, Tunings
  <2>2. ClampTuning(t)[f] = ClampTuning([g \in TuningFields |-> t[f]])[f]
    BY ClampFields
  <2> QED BY <2>1, <2>2, SettingsFit DEF TuningYields
<1> QED BY <1>1, <1>2, <1>3

-----------------------------------------------------------------------------
(* The invariants.                                                         *)

\* Types, with the updates as a sequence.
ViaTypes ==
    /\ phase \in {"off", "boot", "run"}
    /\ writes \in Seq(Images)
    /\ ee = [c \in Cells |-> ee[c]] /\ \A c \in Cells : ee[c] \in CellValues(c)
    /\ config \in [Keys -> KeyRecords]
    /\ he_mode \in Modes /\ he_tuning \in Tunings
    /\ staged_actuation \in Byte /\ staged_release \in Byte
    /\ staged_dirty \in BOOLEAN /\ autosave_pending \in BOOLEAN
    /\ autosave_timer \in 0..(TimerMod - 1) /\ now \in 0..(TimerMod - 1)

\* Without power nothing is outstanding; once the boot is done with the format,
\* the EEPROM is enabled.
EnableLands ==
    /\ phase = "off" => writes = <<>>
    /\ phase # "off" => /\ Lands(writes, ee, <<"magic", 0>>, {TRUE})
                        /\ Lands(writes, ee, <<"via", 0>>, {TRUE})

\* Once the handler is done the block is valid and its bytes load as the working
\* thresholds and mode.
SettingsLand ==
    phase = "run" =>
        /\ Lands(writes, ee, <<"version", 0>>, {TRUE})
        /\ \A c \in KeyCells : Lands(writes, ee, c, KeyYields(config, c))
        /\ Lands(writes, ee, <<"mode", 0>>, ModeYields(he_mode))

\* The tuning too, unless it waits for the auto-save.
TuningLands ==
    phase = "run" /\ ~autosave_pending =>
        \A f \in TuningFields :
            Lands(writes, ee, <<f, 0>>, TuningYields(he_tuning, f))

ViaInv == /\ ViaTypes /\ StagedWillBeSaved
          /\ EnableLands /\ SettingsLand /\ TuningLands

\* A cell that lands in a set lands in a larger one.
LEMMA LandsMonotonic ==
    ASSUME NEW w, NEW e, NEW c, NEW S, NEW T, S \subseteq T, Lands(w, e, c, S)
    PROVE  Lands(w, e, c, T)
BY DEF Last, Lands

\* The static initialisers are legal settings.
LEMMA DefaultsType ==
    /\ DefaultConfig \in [Keys -> KeyRecords]
    /\ HE_MODE_RAPID_TRIGGER \in Modes /\ DefaultTuning \in Tunings
    /\ HE_ACTUATION_DEFAULT \in Byte /\ HE_RELEASE_DEFAULT \in Byte
    /\ 0 \in 0..(TimerMod - 1)
BY DefaultsInRange, ThresholdLimits, TimerFits
   DEF DefaultConfig, KeyRecords, Modes, DefaultTuning, Tunings, Actuations,
       Releases, Byte

\* A zeroed cell is typed.
LEMMA ZeroType == \A c \in Cells : Zero(c) \in CellValues(c)
<1> SUFFICES ASSUME NEW c \in Cells PROVE Zero(c) \in CellValues(c)
  OBVIOUS
<1>1. 0 \in Byte
  BY DEF Byte
<1> QED BY <1>1, Zenon DEF Zero, CellValues

\* A save makes the data block valid and its bytes load as what was saved.
LEMMA SaveKeeps ==
    ASSUME NEW cfg \in [Keys -> KeyRecords], NEW m \in Modes, NEW t \in Tunings,
           NEW w, w = SaveWrites(cfg, m, t)
    PROVE  /\ w \in Seq(Images)
           /\ Lands(w, ee, <<"version", 0>>, {TRUE})
           /\ \A c \in KeyCells : Lands(w, ee, c, KeyYields(cfg, c))
           /\ Lands(w, ee, <<"mode", 0>>, ModeYields(m))
           /\ \A f \in TuningFields : Lands(w, ee, <<f, 0>>, TuningYields(t, f))
           /\ \A c \in {<<"magic", 0>>, <<"via", 0>>} : Untouched(w, c)
<1>1. /\ w \in Seq(Images)
      /\ Lands(w, ee, <<"version", 0>>, {TRUE})
      /\ \A c \in KeyCells : Lands(w, ee, c, {cfg[c[2]][c[1]]})
      /\ Lands(w, ee, <<"mode", 0>>, {m})
      /\ \A f \in TuningFields : Lands(w, ee, <<f, 0>>, {t[f]})
      /\ \A c \in {<<"magic", 0>>, <<"via", 0>>} : Untouched(w, c)
  BY SaveWritesLand
<1>2. ASSUME NEW c \in KeyCells PROVE Lands(w, ee, c, KeyYields(cfg, c))
  <2>1. {cfg[c[2]][c[1]]} \subseteq KeyYields(cfg, c)
    BY SavedIsLoaded
  <2> QED BY <1>1, <2>1, LandsMonotonic
<1>3. Lands(w, ee, <<"mode", 0>>, ModeYields(m))
  <2>1. {m} \subseteq ModeYields(m)
    BY SavedIsLoaded
  <2> QED BY <1>1, <2>1, LandsMonotonic
<1>4. ASSUME NEW f \in TuningFields
      PROVE  Lands(w, ee, <<f, 0>>, TuningYields(t, f))
  <2>1. {t[f]} \subseteq TuningYields(t, f)
    BY SavedIsLoaded
  <2> QED BY <1>1, <2>1, LandsMonotonic
<1> QED BY <1>1, <1>2, <1>3, <1>4

-----------------------------------------------------------------------------
(* The steps.                                                              *)

\* A new board.
LEMMA ViaInit == Init => ViaInv
<1> SUFFICES ASSUME Init PROVE ViaInv
  OBVIOUS
<1>1. ee = [c \in Cells |-> ee[c]] /\ \A c \in Cells : ee[c] \in CellValues(c)
  BY ZeroType DEF Init, Erased
<1>2. ViaTypes
  BY <1>1, DefaultsType, EmptySeq DEF Init, ViaTypes
<1> QED BY <1>2 DEF Init, ViaInv, StagedWillBeSaved, EnableLands, SettingsLand,
                    TuningLands

\* keyboard_pre_init_kb: format or leave alone.
LEMMA PowerOnKeeps ==
    ASSUME ViaInv, PowerOn
    PROVE  ViaInv'
<1>1. CASE EeconfigEnabled
  <2>1. /\ writes = <<>> /\ writes' = <<>> /\ ee' = ee /\ phase' = "boot"
        /\ UNCHANGED <<working, staged, timer, now>>
    BY <1>1 DEF PowerOn, ViaInv, EnableLands
  <2>2. ViaTypes'
    BY <2>1 DEF ViaInv, ViaTypes, working, staged, timer
  <2>3. ee[<<"magic", 0>>] \in {TRUE} /\ ee[<<"via", 0>>] \in {TRUE}
    <3>1. ee[<<"magic", 0>>] \in BOOLEAN /\ ee[<<"via", 0>>] \in BOOLEAN
      BY CellNames DEF ViaInv, ViaTypes, CellValues
    <3> QED BY <1>1, <3>1, Zenon DEF EeconfigEnabled
  <2>4. EnableLands'
    BY <2>1, <2>3, LandsNow DEF EnableLands
  <2> QED BY <2>1, <2>2, <2>4
          DEF ViaInv, StagedWillBeSaved, SettingsLand, TuningLands, staged, timer
<1>2. CASE ~EeconfigEnabled
  <2>1. /\ writes' = FormatWrites /\ ee' = Erased /\ phase' = "boot"
        /\ UNCHANGED <<working, staged, timer, now>>
    BY <1>2 DEF PowerOn
  <2>2. ee' = [c \in Cells |-> ee'[c]] /\ \A c \in Cells : ee'[c] \in CellValues(c)
    BY <2>1, ZeroType DEF Erased
  <2>3. ViaTypes'
    BY <2>1, <2>2, FormatWritesLand DEF ViaInv, ViaTypes, working, staged, timer
  <2>4. EnableLands'
    BY <2>1, FormatWritesLand DEF EnableLands
  <2> QED BY <2>1, <2>3, <2>4
          DEF ViaInv, StagedWillBeSaved, SettingsLand, TuningLands, staged, timer
<1> QED BY <1>1, <1>2

\* he_load_from_eeprom: what was loaded is what the next load would make of the
\* bytes; an invalid block is written anew.
LEMMA KeyboardInitKeeps ==
    ASSUME ViaInv, KeyboardInit
    PROVE  ViaInv'
<1>1. /\ ViaTypes /\ writes = <<>> /\ phase' = "run" /\ ee' = ee
      /\ UNCHANGED <<staged, timer, now>>
  BY DEF ViaInv, KeyboardInit
<1>2. StagedWillBeSaved'
  BY <1>1 DEF ViaInv, StagedWillBeSaved, staged, timer
<1>3. ee[<<"magic", 0>>] \in {TRUE} /\ ee[<<"via", 0>>] \in {TRUE}
  BY <1>1, LandsNow DEF ViaInv, EnableLands, KeyboardInit
<1>4. CASE DatablockValid
  <2>1. /\ config' = LoadConfig /\ he_mode' = LoadMode(ee[<<"mode", 0>>])
        /\ he_tuning' = LoadTuning /\ writes' = <<>>
    BY <1>4 DEF KeyboardInit
  <2>2. /\ \A c \in KeyCells : ee[c] \in Byte
        /\ \A c \in SettingsCells : ee[c] \in Byte
    <3>1. \A c \in Cells : ee[c] \in CellValues(c)
      BY <1>1 DEF ViaTypes
    <3> QED BY <3>1, CellNames DEF CellValues
  <2>3. /\ \A i \in Keys : ee[<<"actuation", i>>] \in Byte /\ ee[<<"release", i>>] \in Byte
        /\ ee[<<"mode", 0>>] \in Byte
        /\ \A f \in TuningFields : ee[<<f, 0>>] \in Byte
    BY <2>2, CellNames
  <2>4. config' \in [Keys -> KeyRecords]
    BY <2>1, <2>3, ClampTypes DEF LoadConfig, KeyRecords
  <2>5. he_mode' \in Modes /\ he_tuning' \in Tunings
    <3>1. [f \in TuningFields |-> ee[<<f, 0>>]] \in [TuningFields -> Byte]
      BY <2>3
    <3> QED BY <2>1, <2>3, <3>1, ClampTypes DEF LoadTuning
  <2>6. ViaTypes'
    BY <1>1, <2>1, <2>4, <2>5, EmptySeq DEF ViaTypes, staged, timer
  <2>7. ASSUME NEW c \in KeyCells PROVE ee[c] \in KeyYields(config', c)
    <3>1. c[2] \in Keys /\ c = <<c[1], c[2]>> /\ c[1] \in {"actuation", "release"}
      BY DEF KeyCells
    <3>2. /\ config'[c[2]].actuation = ClampActuation(ee[<<"actuation", c[2]>>])
          /\ config'[c[2]].release = ClampRelease(ee[<<"release", c[2]>>])
      BY <2>1, <3>1 DEF LoadConfig
    <3>3. CASE c[1] = "actuation"
      <4>1. c = <<"actuation", c[2]>>
        BY <3>1, <3>3
      <4>2. ClampActuation(ee[c]) = config'[c[2]].actuation
        BY <3>2, <4>1
      <4> QED BY <2>2, <3>3, <4>2 DEF KeyYields
    <3>4. CASE c[1] = "release"
      <4>1. c = <<"release", c[2]>>
        BY <3>1, <3>4
      <4>2. ClampRelease(ee[c]) = config'[c[2]].release
        BY <3>2, <4>1
      <4> QED BY <2>2, <3>4, <4>2 DEF KeyYields
    <3> QED BY <3>1, <3>3, <3>4
  <2>8. ee[<<"mode", 0>>] \in ModeYields(he_mode')
    BY <2>1, <2>3 DEF ModeYields
  <2>9. ASSUME NEW f \in TuningFields
        PROVE  ee[<<f, 0>>] \in TuningYields(he_tuning', f)
    <3> DEFINE t == [g \in TuningFields |-> ee[<<g, 0>>]]
    <3>1. t[f] = ee[<<f, 0>>] /\ he_tuning' = ClampTuning(t)
      BY <2>1 DEF LoadTuning
    <3> HIDE DEF t
    <3>2. ClampTuning(t)[f] = ClampTuning([g \in TuningFields |-> t[f]])[f]
      BY ClampFields
    <3> QED BY <2>3, <3>1, <3>2 DEF TuningYields
  <2>10. ee[<<"version", 0>>] \in {TRUE}
    <3>1. ee[<<"version", 0>>] \in BOOLEAN
      BY <1>1, CellNames DEF ViaTypes, CellValues
    <3> QED BY <1>4, <3>1, Zenon DEF DatablockValid
  <2>11. EnableLands'
    BY <1>1, <1>3, <2>1, LandsNow DEF EnableLands
  <2>12. SettingsLand'
    BY <1>1, <2>1, <2>7, <2>8, <2>10, LandsNow DEF SettingsLand
  <2>13. TuningLands'
    BY <1>1, <2>1, <2>9, LandsNow DEF TuningLands
  <2> QED BY <1>2, <2>6, <2>11, <2>12, <2>13 DEF ViaInv
<1>5. CASE ~DatablockValid
  <2>1. /\ writes' = SaveWrites(config, he_mode, he_tuning)
        /\ config' = config /\ he_mode' = he_mode /\ he_tuning' = he_tuning
    BY <1>5 DEF KeyboardInit, working
  <2>2. /\ config \in [Keys -> KeyRecords] /\ he_mode \in Modes
        /\ he_tuning \in Tunings
    BY <1>1 DEF ViaTypes
  <2>3. /\ writes' \in Seq(Images)
        /\ Lands(writes', ee, <<"version", 0>>, {TRUE})
        /\ \A c \in KeyCells : Lands(writes', ee, c, KeyYields(config, c))
        /\ Lands(writes', ee, <<"mode", 0>>, ModeYields(he_mode))
        /\ \A f \in TuningFields :
              Lands(writes', ee, <<f, 0>>, TuningYields(he_tuning, f))
        /\ \A c \in {<<"magic", 0>>, <<"via", 0>>} : Untouched(writes', c)
    BY <2>1, <2>2, SaveKeeps
  <2>4. ViaTypes'
    BY <1>1, <2>1, <2>3 DEF ViaTypes, staged, timer
  <2>5. EnableLands'
    BY <1>1, <1>3, <2>3 DEF EnableLands, Lands
  <2>6. SettingsLand' /\ TuningLands'
    BY <1>1, <2>1, <2>3 DEF SettingsLand, TuningLands
  <2> QED BY <1>2, <2>4, <2>5, <2>6 DEF ViaInv
<1> QED BY <1>4, <1>5

\* A log entry or a consolidation: where the cells land does not change.
LEMMA WriteThroughKeeps ==
    ASSUME ViaInv, writes # <<>>, NEW done, done \subseteq DOMAIN Head(writes),
           WriteThrough(done)
    PROVE  ViaInv'
<1> DEFINE h == Head(writes)
<1>1. /\ ViaTypes /\ writes \in Seq(Images) /\ ee' = Written(h, done)
      /\ UNCHANGED <<phase, working, staged, timer, now>>
  BY DEF ViaInv, ViaTypes, WriteThrough
<1>2. /\ h \in Images /\ Tail(writes) \in Seq(Images) /\ h = writes[1]
      /\ Len(writes) \in Nat \ {0}
  BY <1>1, HeadTailProperties, EmptySeq
<1>3. DOMAIN h \subseteq Cells /\ \A c \in DOMAIN h : h[c] \in CellValues(c)
  BY <1>2, ImageCells
<1>4. /\ ee' = [c \in Cells |-> ee'[c]]
      /\ \A c \in Cells : ee'[c] = IF c \in done THEN h[c] ELSE ee[c]
  BY <1>1 DEF Written
<1>5. ASSUME NEW c \in Cells PROVE ee'[c] \in CellValues(c)
  <2>1. ee[c] \in CellValues(c)
    BY <1>1 DEF ViaTypes
  <2>2. c \in done => h[c] \in CellValues(c)
    BY <1>3
  <2> HIDE DEF h
  <2> QED BY <1>4, <2>1, <2>2, Zenon
<1>6. /\ writes' \in Seq(Images)
      /\ \A c \in Cells : \A S : Lands(writes, ee, c, S) => Lands(writes', ee', c, S)
  <2>1. CASE DOMAIN h \subseteq done
    <3>1. writes' = Tail(writes)
      BY <2>1 DEF WriteThrough
    <3>2. ASSUME NEW c \in Cells, NEW S, Lands(writes, ee, c, S)
          PROVE  Lands(writes', ee', c, S)
      <4>1. ee'[c] = IF c \in DOMAIN writes[1] THEN writes[1][c] ELSE ee[c]
        <5>1. c \in done <=> c \in DOMAIN writes[1]
          BY <1>2, <2>1
        <5> QED BY <1>2, <1>4, <5>1
      <4>2. Lands(Tail(writes), ee', c, S)
        <5> HIDE DEF h
        <5> QED BY <1>1, <3>2, <4>1, LandsTail
      <4> QED BY <3>1, <4>2
    <3> QED BY <1>2, <3>1, <3>2
  <2>2. CASE ~(DOMAIN h \subseteq done)
    <3> DEFINE r == [c \in DOMAIN h \ done |-> h[c]]
    <3>1. writes' = [writes EXCEPT ![1] = r]
      <4>1. writes' = [writes EXCEPT ![1] = [c \in DOMAIN @ \ done |-> @[c]]]
        BY <2>2 DEF WriteThrough
      <4> QED BY <1>2, <4>1
    <3>2. r \in Images
      <4>1. /\ DOMAIN h \ done \subseteq Cells
            /\ r = [c \in DOMAIN h \ done |-> r[c]]
            /\ \A c \in DOMAIN h \ done : r[c] \in CellValues(c)
        BY <1>3
      <4> HIDE DEF r
      <4> QED BY <4>1, ImageType
    <3>3. /\ writes' \in Seq(Images) /\ Len(writes') = Len(writes)
          /\ writes'[1] = r
          /\ \A n \in 1..Len(writes) : n # 1 => writes'[n] = writes[n]
      <4> HIDE DEF r, h
      <4> QED BY <1>1, <1>2, <3>1, <3>2
    <3>4. ASSUME NEW c \in Cells, NEW S, Lands(writes, ee, c, S)
          PROVE  Lands(writes', ee', c, S)
      <4>1. ee'[c] = IF c \in done THEN writes[1][c] ELSE ee[c]
        BY <1>2, <1>4
      <4>2. writes'[1] = [d \in DOMAIN writes[1] \ done |-> writes[1][d]]
        BY <1>2, <3>3
      <4>3. done \subseteq DOMAIN writes[1]
        BY <1>2
      <4> HIDE DEF h
      <4> QED BY <1>1, <3>3, <3>4, <4>1, <4>2, <4>3, LandsRest
    <3> QED BY <3>3, <3>4
  <2> QED BY <2>1, <2>2
<1> HIDE DEF h
<1>7. ViaTypes'
  BY <1>1, <1>4, <1>5, <1>6 DEF ViaTypes, working, staged, timer
<1>8. StagedWillBeSaved'
  BY <1>1 DEF ViaInv, StagedWillBeSaved, staged, timer
<1>9. EnableLands'
  <2>1. phase # "off" /\ phase' = phase
    BY <1>1 DEF ViaInv, EnableLands
  <2>2. Lands(writes, ee, <<"magic", 0>>, {TRUE}) /\ Lands(writes, ee, <<"via", 0>>, {TRUE})
    BY <2>1 DEF ViaInv, EnableLands
  <2>3. Lands(writes', ee', <<"magic", 0>>, {TRUE}) /\ Lands(writes', ee', <<"via", 0>>, {TRUE})
    BY <1>6, <2>2, CellNames
  <2> QED BY <2>1, <2>3 DEF EnableLands
<1>10. SettingsLand'
  <2> SUFFICES ASSUME phase' = "run"
               PROVE  /\ Lands(writes', ee', <<"version", 0>>, {TRUE})
                      /\ \A c \in KeyCells : Lands(writes', ee', c, KeyYields(config', c))
                      /\ Lands(writes', ee', <<"mode", 0>>, ModeYields(he_mode'))
    BY DEF SettingsLand
  <2>1. phase = "run" /\ config' = config /\ he_mode' = he_mode
    BY <1>1 DEF working
  <2>2. /\ Lands(writes, ee, <<"version", 0>>, {TRUE})
        /\ \A c \in KeyCells : Lands(writes, ee, c, KeyYields(config, c))
        /\ Lands(writes, ee, <<"mode", 0>>, ModeYields(he_mode))
    BY <2>1 DEF ViaInv, SettingsLand
  <2>3. Lands(writes', ee', <<"version", 0>>, {TRUE})
    BY <1>6, <2>2, CellNames
  <2>4. \A c \in KeyCells : Lands(writes', ee', c, KeyYields(config, c))
    BY <1>6, <2>2, CellNames
  <2>5. Lands(writes', ee', <<"mode", 0>>, ModeYields(he_mode))
    BY <1>6, <2>2, CellNames
  <2> QED BY <2>1, <2>3, <2>4, <2>5
<1>11. TuningLands'
  <2> SUFFICES ASSUME phase' = "run", ~autosave_pending', NEW f \in TuningFields
               PROVE  Lands(writes', ee', <<f, 0>>, TuningYields(he_tuning', f))
    BY DEF TuningLands
  <2>1. phase = "run" /\ ~autosave_pending /\ he_tuning' = he_tuning
    BY <1>1 DEF working, timer
  <2>2. Lands(writes, ee, <<f, 0>>, TuningYields(he_tuning, f))
    BY <2>1 DEF ViaInv, TuningLands
  <2> QED BY <1>6, <2>1, <2>2, CellNames
<1> QED BY <1>7, <1>8, <1>9, <1>10, <1>11 DEF ViaInv

\* Power fails: whatever mixture of old, new and zeroed cells is left, it is
\* typed, and nothing more is promised of it until the next boot has loaded it.
LEMMA PowerLossKeeps ==
    ASSUME ViaInv, PowerLoss
    PROVE  ViaInv'
<1>1. ViaTypes /\ phase' = "off" /\ writes' = <<>> /\ Statics
  BY DEF ViaInv, PowerLoss
<1> DEFINE h == Head(writes)
<1>2. PICK kept \in {Cells} \cup Survivors :
           \E e \in {ee} \cup IF writes = <<>> THEN {}
                              ELSE {Torn(h), Written(h, Entry(h))} :
              ee' = [c \in Cells |-> IF c \in kept THEN e[c] ELSE Zero(c)]
  BY DEF PowerLoss
<1>3. PICK e \in {ee} \cup IF writes = <<>> THEN {}
                           ELSE {Torn(h), Written(h, Entry(h))} :
           ee' = [c \in Cells |-> IF c \in kept THEN e[c] ELSE Zero(c)]
  BY <1>2
<1>4. \A c \in Cells : ee[c] \in CellValues(c)
  BY <1>1 DEF ViaTypes
<1>5. ASSUME writes # <<>>, NEW c \in Cells
      PROVE  Torn(h)[c] \in CellValues(c) /\ Written(h, Entry(h))[c] \in CellValues(c)
  <2>1. h \in Images
    BY <1>1, <1>5, HeadTailProperties DEF ViaTypes
  <2>2. \A d \in Entry(h) : h[d] \in CellValues(d)
    BY <2>1, ImageCells DEF Entry
  <2> HIDE DEF h
  <2>3. Torn(h)[c] \in {ee[c], Zero(c)} \cup {h[d] : d \in {x \in Entry(h) : x = c}}
    BY DEF Torn
  <2>4. Written(h, Entry(h))[c] \in {ee[c]} \cup {h[d] : d \in {x \in Entry(h) : x = c}}
    BY DEF Written
  <2> QED BY <1>4, <2>2, <2>3, <2>4, ZeroType, Zenon
<1>6. ASSUME NEW c \in Cells PROVE e[c] \in CellValues(c)
  <2>1. CASE e = ee
    BY <1>4, <2>1
  <2>2. CASE e # ee
    <3>1. writes # <<>> /\ (e = Torn(h) \/ e = Written(h, Entry(h)))
      BY <1>3, <2>2
    <3> QED BY <1>5, <3>1
  <2> QED BY <2>1, <2>2
<1>7. /\ ee' = [c \in Cells |-> ee'[c]]
      /\ \A c \in Cells : ee'[c] = IF c \in kept THEN e[c] ELSE Zero(c)
  BY <1>3
<1>8. \A c \in Cells : ee'[c] \in CellValues(c)
  BY <1>6, <1>7, ZeroType, Zenon
<1>9. ViaTypes'
  BY <1>1, <1>7, <1>8, DefaultsType, EmptySeq DEF Statics, ViaTypes
<1> QED BY <1>1, <1>9 DEF Statics, ViaInv, StagedWillBeSaved, EnableLands,
                          SettingsLand, TuningLands

\* A reflash only clears stamps, QK_CLEAR_EEPROM everything.
LEMMA OffKeeps ==
    ASSUME ViaInv, Reflash \/ ClearEeprom
    PROVE  ViaInv'
<1>1. CASE Reflash
  <2>1. PICK stale \in SUBSET {<<"via", 0>>, <<"version", 0>>} :
             ee' = [c \in Cells |-> IF c \in stale THEN FALSE ELSE ee[c]]
    BY <1>1 DEF Reflash
  <2>2. /\ ViaTypes /\ phase = "off" /\ phase' = "off" /\ writes' = writes
        /\ UNCHANGED <<working, staged, timer, now>>
    BY <1>1 DEF Reflash, ViaInv
  <2>3. /\ ee' = [c \in Cells |-> ee'[c]]
        /\ \A c \in Cells : ee'[c] = IF c \in stale THEN FALSE ELSE ee[c]
    BY <2>1
  <2>4. \A c \in Cells : c \in stale => FALSE \in CellValues(c)
    BY CellNames DEF CellValues
  <2>5. \A c \in Cells : ee[c] \in CellValues(c)
    BY <2>2 DEF ViaTypes
  <2>6. \A c \in Cells : ee'[c] \in CellValues(c)
    BY <2>3, <2>4, <2>5, Zenon
  <2>7. ViaTypes'
    BY <2>2, <2>3, <2>6 DEF ViaTypes, working, staged, timer
  <2> QED BY <2>2, <2>7 DEF ViaInv, StagedWillBeSaved, EnableLands, SettingsLand,
                            TuningLands, staged, timer
<1>2. CASE ClearEeprom
  <2>1. ee' = [c \in Cells |-> ee'[c]] /\ \A c \in Cells : ee'[c] \in CellValues(c)
    BY <1>2, ZeroType DEF ClearEeprom, Erased
  <2>2. ViaTypes'
    BY <1>2, <2>1, DefaultsType, EmptySeq DEF ClearEeprom, Statics, ViaTypes
  <2> QED BY <1>2, <2>2 DEF ClearEeprom, Statics, ViaInv, StagedWillBeSaved,
                            EnableLands, SettingsLand, TuningLands
<1> QED BY <1>1, <1>2

\* While the loop is idle the EEPROM is enabled.
LEMMA IdleEnabled ==
    ASSUME ViaInv, Idle
    PROVE  ee[<<"magic", 0>>] \in {TRUE} /\ ee[<<"via", 0>>] \in {TRUE}
BY LandsNow DEF ViaInv, EnableLands, Idle

\* he_via_commit_thresholds: the configuration, dirty or not, is what the save
\* that follows writes.
LEMMA CommitKeeps ==
    ASSUME ViaInv, Idle, NEW act \in Byte, NEW rel \in Byte, NEW dirty \in BOOLEAN,
           CommitThresholds(act, rel, dirty),
           UNCHANGED <<phase, ee, he_mode, he_tuning>>,
           staged_actuation' \in Byte, staged_release' \in Byte,
           autosave_pending' \in BOOLEAN, autosave_timer' = autosave_timer,
           now' \in 0..(TimerMod - 1)
    PROVE  ViaInv'
<1>1. Committed(act, rel) \in [Keys -> KeyRecords]
  BY ClampTypes DEF Committed, KeyRecords
<1>2. /\ ViaTypes /\ config' \in [Keys -> KeyRecords]
      /\ staged_dirty' = FALSE
      /\ writes' = SaveWrites(config', he_mode, he_tuning)
      /\ he_mode \in Modes /\ he_tuning \in Tunings
  BY <1>1 DEF ViaInv, ViaTypes, CommitThresholds
<1>3. /\ writes' \in Seq(Images)
      /\ Lands(writes', ee, <<"version", 0>>, {TRUE})
      /\ \A c \in KeyCells : Lands(writes', ee, c, KeyYields(config', c))
      /\ Lands(writes', ee, <<"mode", 0>>, ModeYields(he_mode))
      /\ \A f \in TuningFields :
            Lands(writes', ee, <<f, 0>>, TuningYields(he_tuning, f))
      /\ \A c \in {<<"magic", 0>>, <<"via", 0>>} : Untouched(writes', c)
  BY <1>2, SaveKeeps
<1>4. ViaTypes'
  BY <1>2, <1>3 DEF ViaTypes
<1>5. StagedWillBeSaved'
  BY <1>2 DEF StagedWillBeSaved
<1>6. EnableLands'
  BY <1>3, IdleEnabled DEF EnableLands, Lands, Idle
<1>7. SettingsLand' /\ TuningLands'
  BY <1>3 DEF SettingsLand, TuningLands
<1> QED BY <1>4, <1>5, <1>6, <1>7 DEF ViaInv

\* A SET changes RAM only, and arms the auto-save.
LEMMA ArmingKeeps ==
    ASSUME ViaInv, Idle, UNCHANGED <<phase, writes, ee, config, he_mode, now>>,
           he_tuning' \in Tunings, ArmAutosave,
           staged_actuation' \in Byte, staged_release' \in Byte,
           staged_dirty' \in BOOLEAN
    PROVE  ViaInv'
<1>1. ViaTypes'
  BY DEF ViaInv, ViaTypes, ArmAutosave
<1>2. StagedWillBeSaved' /\ EnableLands' /\ SettingsLand' /\ TuningLands'
  BY DEF ViaInv, StagedWillBeSaved, EnableLands, SettingsLand, TuningLands,
         ArmAutosave
<1> QED BY <1>1, <1>2 DEF ViaInv

\* he_set_mode writes the settings record at once; the key records stay.
LEMMA SetModeKeeps ==
    ASSUME ViaInv, NEW m \in ModeBytes, SetMode(m)
    PROVE  ViaInv'
<1>1. /\ ViaTypes /\ phase = "run" /\ writes = <<>> /\ he_mode' = m
      /\ writes' = SettingsWrites(m, he_tuning) /\ Idle
      /\ UNCHANGED <<phase, ee, config, he_tuning, staged, timer, now>>
  BY DEF ViaInv, SetMode, Idle, ModeWrites
<1>2. m \in Modes /\ he_tuning \in Tunings
  <2>1. m \in Byte /\ m <= HE_MODE_KEY_CANCEL
    BY Requests DEF SetMode
  <2>2. m \in Modes
    BY <2>1 DEF Modes, Byte, HE_MODE_NORMAL, HE_MODE_RAPID_TRIGGER,
                HE_MODE_KEY_CANCEL
  <2> QED BY <1>1, <2>2 DEF ViaTypes
<1>3. /\ writes' \in Seq(Images)
      /\ Lands(writes', ee, <<"version", 0>>, {TRUE})
      /\ Lands(writes', ee, <<"mode", 0>>, {m})
      /\ \A f \in TuningFields : Lands(writes', ee, <<f, 0>>, {he_tuning[f]})
      /\ \A c \in KeyCells \cup {<<"magic", 0>>, <<"via", 0>>} : Untouched(writes', c)
  BY <1>1, <1>2, SettingsWritesLand
<1>4. ViaTypes'
  BY <1>1, <1>2, <1>3 DEF ViaTypes, staged, timer
<1>5. StagedWillBeSaved'
  BY <1>1 DEF ViaInv, StagedWillBeSaved, staged, timer
<1>6. EnableLands'
  BY <1>1, <1>3, IdleEnabled DEF EnableLands, Lands
<1>7. SettingsLand'
  <2>1. \A c \in KeyCells : ee[c] \in KeyYields(config, c)
    BY <1>1, LandsNow DEF ViaInv, SettingsLand
  <2>2. \A c \in KeyCells : Lands(writes', ee, c, KeyYields(config, c))
    BY <1>3, <2>1 DEF Lands
  <2>3. {m} \subseteq ModeYields(m)
    BY <1>1, <1>2, SavedIsLoaded DEF ViaTypes
  <2>4. Lands(writes', ee, <<"mode", 0>>, ModeYields(m))
    BY <1>3, <2>3, LandsMonotonic
  <2> QED BY <1>1, <1>3, <2>2, <2>4 DEF SettingsLand
<1>8. TuningLands'
  <2>1. ASSUME NEW f \in TuningFields
        PROVE  Lands(writes', ee, <<f, 0>>, TuningYields(he_tuning, f))
    <3>1. {he_tuning[f]} \subseteq TuningYields(he_tuning, f)
      BY <1>1, <1>2, SavedIsLoaded DEF ViaTypes
    <3> QED BY <1>3, <3>1, LandsMonotonic
  <2> QED BY <1>1, <2>1 DEF TuningLands
<1> QED BY <1>4, <1>5, <1>6, <1>7, <1>8 DEF ViaInv

\* he_via_task: the auto-save fires or time just passes.
LEMMA ScanKeeps ==
    ASSUME ViaInv, NEW d \in ScanTicks, Scan(d)
    PROVE  ViaInv'
<1>1. ViaTypes /\ Idle
  BY DEF ViaInv, Scan
<1>2. now' \in 0..(TimerMod - 1)
  <2> DEFINE x == now + d
  <2>1. x \in Nat /\ TimerMod \in Nat \ {0} /\ now' = x % TimerMod
    BY <1>1, TimerFits DEF ViaTypes, Scan
  <2> HIDE DEF x
  <2> QED BY <2>1
<1>3. CASE autosave_pending /\ Elapsed(now') >= HE_VIA_AUTOSAVE_MS
  <2>1. /\ autosave_pending' = FALSE
        /\ CommitThresholds(staged_actuation, staged_release, staged_dirty)
        /\ UNCHANGED <<phase, ee, he_mode, he_tuning, staged_actuation,
                       staged_release, autosave_timer>>
    BY <1>3 DEF Scan
  <2>2. /\ staged_actuation \in Byte /\ staged_release \in Byte
        /\ staged_dirty \in BOOLEAN
    BY <1>1 DEF ViaTypes
  <2> QED BY <1>1, <1>2, <2>1, <2>2, CommitKeeps
<1>4. CASE ~(autosave_pending /\ Elapsed(now') >= HE_VIA_AUTOSAVE_MS)
  <2>1. UNCHANGED <<phase, writes, ee, working, staged, timer>>
    BY <1>4 DEF Scan, working, staged, timer
  <2>2. ViaTypes'
    BY <1>1, <1>2, <2>1 DEF ViaTypes, working, staged, timer
  <2> QED BY <2>1, <2>2 DEF ViaInv, StagedWillBeSaved, EnableLands, SettingsLand,
                            TuningLands, working, staged, timer
<1> QED BY <1>3, <1>4

\* The commands: SETs, saves and the tuning.
LEMMA CommandsKeep ==
    ASSUME ViaInv,
           \/ \E v \in SetBytes : SetActuation(v) \/ SetRelease(v) \/ SetAll(v)
           \/ Save
           \/ \E r \in TuningRequests : SetTuning(r)
    PROVE  ViaInv'
<1>1. /\ ViaTypes /\ staged_actuation \in Byte /\ staged_release \in Byte
      /\ staged_dirty \in BOOLEAN /\ he_tuning \in Tunings
      /\ autosave_pending \in BOOLEAN /\ now \in 0..(TimerMod - 1)
  BY DEF ViaInv, ViaTypes
<1>2. ASSUME NEW v \in SetBytes, SetActuation(v) \/ SetRelease(v)
      PROVE  ViaInv'
  <2>1. v \in Byte
    BY Requests
  <2>2. /\ Idle /\ UNCHANGED <<phase, writes, ee, config, he_mode, now>>
        /\ he_tuning' \in Tunings /\ ArmAutosave /\ staged_actuation' \in Byte
        /\ staged_release' \in Byte /\ staged_dirty' \in BOOLEAN
    BY <1>1, <1>2, <2>1 DEF SetActuation, SetRelease, working
  <2> QED BY <2>2, ArmingKeeps
<1>3. ASSUME NEW v \in SetBytes, SetAll(v)
      PROVE  ViaInv'
  <2>1. v \in Byte /\ SetAllRelease(v) \in Byte
    BY Requests DEF SetAllRelease, Byte
  <2>2. /\ Idle /\ UNCHANGED <<phase, ee, he_mode, he_tuning>>
        /\ staged_actuation' \in Byte /\ staged_release' \in Byte
        /\ CommitThresholds(v, SetAllRelease(v), TRUE)
        /\ autosave_pending' = autosave_pending
        /\ autosave_timer' = autosave_timer /\ now' = now
    BY <1>3, <2>1 DEF SetAll, CommitThresholds, timer
  <2> QED BY <1>1, <2>1, <2>2, CommitKeeps
<1>4. CASE Save
  <2>1. /\ Idle /\ UNCHANGED <<phase, ee, he_mode, he_tuning>>
        /\ staged_actuation' \in Byte /\ staged_release' \in Byte
        /\ CommitThresholds(staged_actuation, staged_release, staged_dirty)
        /\ autosave_pending' = autosave_pending
        /\ autosave_timer' = autosave_timer /\ now' = now
    BY <1>1, <1>4 DEF Save, timer
  <2> QED BY <1>1, <2>1, CommitKeeps
<1>5. ASSUME NEW r \in TuningRequests, SetTuning(r)
      PROVE  ViaInv'
  <2>1. he_tuning \in [TuningFields -> Byte]
    BY <1>1, ThresholdLimits DEF Tunings, TuningFields, Byte
  <2>2. r.field \in TuningFields /\ r.value \in Byte
    BY Requests
  <2>3. [he_tuning EXCEPT ![r.field] = r.value] \in [TuningFields -> Byte]
    BY <2>1, <2>2
  <2>4. he_tuning' \in Tunings
    BY <1>5, <2>3, ClampTypes DEF SetTuning
  <2> QED BY <1>1, <1>5, <2>4, ArmingKeeps DEF SetTuning, staged
<1> QED BY <1>2, <1>3, <1>4, <1>5

\* Every step keeps the invariant.
LEMMA ViaStep ==
    ASSUME ViaInv, [Next]_vars
    PROVE  ViaInv'
<1>1. CASE UNCHANGED vars
  <2>1. UNCHANGED <<phase, writes, ee, working, staged, timer, now>>
    BY <1>1 DEF vars
  <2>2. ViaTypes'
    BY <2>1 DEF ViaInv, ViaTypes, working, staged, timer
  <2> QED BY <2>1, <2>2 DEF ViaInv, StagedWillBeSaved, EnableLands, SettingsLand,
                            TuningLands, working, staged, timer
<1>2. CASE AppendEntry
  <2>1. Entry(Head(writes)) \subseteq DOMAIN Head(writes)
    BY DEF Entry
  <2> QED BY <1>2, <2>1, WriteThroughKeeps DEF AppendEntry
<1>3. CASE Consolidate
  BY <1>3, WriteThroughKeeps DEF Consolidate
<1>4. CASE \E m \in ModeBytes : SetMode(m)
  BY <1>4, SetModeKeeps
<1>5. CASE \E d \in ScanTicks : Scan(d)
  BY <1>5, ScanKeeps
<1> QED BY <1>1, <1>2, <1>3, <1>4, <1>5, PowerOnKeeps, KeyboardInitKeeps,
           PowerLossKeeps, OffKeeps, CommandsKeep DEF Next

-----------------------------------------------------------------------------
(* The theorems.                                                           *)

\* The inductive invariant, wherever power fails.
THEOREM ViaInvariant == Spec => []ViaInv
<1>1. Init => ViaInv
  BY ViaInit
<1>2. ViaInv /\ [Next]_vars => ViaInv'
  BY ViaStep
<1> QED BY <1>1, <1>2, PTL DEF Spec

\* Every setting stays in its range, every cell and pending update in its type.
THEOREM ViaTyped == Spec => []TypeOK
<1>1. ViaInv => TypeOK
  <2> SUFFICES ASSUME ViaInv PROVE TypeOK
    OBVIOUS
  <2>1. writes \in Seq(Images)
    BY DEF ViaInv, ViaTypes
  <2>2. DOMAIN writes = 1..Len(writes)
    BY <2>1, LenProperties
  <2>3. \A n \in DOMAIN writes : writes[n] \in Images
    BY <2>1, <2>2, ElementOfSeq
  <2>4. \A n \in DOMAIN writes :
           /\ DOMAIN writes[n] \subseteq Cells
           /\ \A c \in DOMAIN writes[n] : writes[n][c] \in CellValues(c)
    BY <2>3, ImageCells
  <2>5. DOMAIN ee = Cells /\ \A c \in Cells : ee[c] \in CellValues(c)
    BY DEF ViaInv, ViaTypes
  <2> QED BY <2>2, <2>4, <2>5 DEF TypeOK, ViaInv, ViaTypes, KeyRecords
<1> QED BY <1>1, ViaInvariant, PTL

\* A staged threshold always has an auto-save armed for it.
THEOREM StagedIsArmed == Spec => []StagedWillBeSaved
<1>1. ViaInv => StagedWillBeSaved
  BY DEF ViaInv
<1> QED BY <1>1, ViaInvariant, PTL

\* he_set_mode's promise: with the loop idle a power cycle restores the working
\* mode.
THEOREM ModeSurvives == Spec => []ModeIsDurable
<1>1. ViaInv => ModeIsDurable
  <2> SUFFICES ASSUME ViaInv, Idle PROVE ModeRestored
    BY DEF ModeIsDurable
  <2>1. ee[<<"mode", 0>>] \in ModeYields(he_mode)
    BY LandsNow DEF ViaInv, SettingsLand, Idle
  <2> QED BY <2>1 DEF ModeRestored, ModeYields
<1> QED BY <1>1, ViaInvariant, PTL

\* A quiescent keyboard has its settings in the EEPROM: the next load yields
\* exactly the working ones, wherever power failed before, in a format, a save,
\* the middle of a log entry or a consolidation.
THEOREM SettingsAreSaved == Spec => []QuiescentIsSaved
<1>1. ViaInv => QuiescentIsSaved
  <2> SUFFICES ASSUME ViaInv, Idle, ~staged_dirty, ~autosave_pending
               PROVE  SettingsRestored
    BY DEF QuiescentIsSaved
  <2>1. ViaTypes /\ phase = "run" /\ writes = <<>>
    BY DEF ViaInv, Idle
  <2>2. EeconfigEnabled
    BY IdleEnabled, Zenon DEF EeconfigEnabled
  <2>3. /\ ee[<<"version", 0>>] \in {TRUE}
        /\ \A c \in KeyCells : ee[c] \in KeyYields(config, c)
        /\ ee[<<"mode", 0>>] \in ModeYields(he_mode)
    BY <2>1, LandsNow DEF ViaInv, SettingsLand
  <2>4. \A f \in TuningFields : ee[<<f, 0>>] \in TuningYields(he_tuning, f)
    BY <2>1, LandsNow DEF ViaInv, TuningLands
  <2>5. DatablockValid
    BY <2>3, Zenon DEF DatablockValid
  <2>6. LoadConfig = config
    <3>1. config \in [Keys -> KeyRecords]
      BY <2>1 DEF ViaTypes
    <3>2. ASSUME NEW i \in Keys PROVE LoadConfig[i] = config[i]
      <4>1. /\ ee[<<"actuation", i>>] \in KeyYields(config, <<"actuation", i>>)
            /\ ee[<<"release", i>>] \in KeyYields(config, <<"release", i>>)
        BY <2>3, CellNames
      <4>2. /\ ClampActuation(ee[<<"actuation", i>>]) = config[i].actuation
            /\ ClampRelease(ee[<<"release", i>>]) = config[i].release
        BY <4>1 DEF KeyYields
      <4>3. config[i] = [actuation |-> config[i].actuation,
                         release |-> config[i].release]
        BY <3>1 DEF KeyRecords
      <4> QED BY <4>2, <4>3 DEF LoadConfig
    <3> QED BY <3>1, <3>2 DEF LoadConfig
  <2>7. LoadTuning = he_tuning
    <3> DEFINE t == [f \in TuningFields |-> ee[<<f, 0>>]]
    <3>1. \A f \in TuningFields : t[f] = ee[<<f, 0>>]
      OBVIOUS
    <3> HIDE DEF t
    <3>2. ASSUME NEW f \in TuningFields PROVE ClampTuning(t)[f] = he_tuning[f]
      <4>1. ClampTuning(t)[f] = ClampTuning([g \in TuningFields |-> t[f]])[f]
        BY ClampFields
      <4>2. t[f] \in TuningYields(he_tuning, f)
        BY <2>4, <3>1
      <4> QED BY <4>1, <4>2 DEF TuningYields
    <3>3. /\ ClampTuning(t).deadzone = he_tuning.deadzone
          /\ ClampTuning(t).engage = he_tuning.engage
          /\ ClampTuning(t).release_dist = he_tuning.release_dist
      BY <3>2 DEF TuningFields
    <3>4. he_tuning = [deadzone |-> he_tuning.deadzone, engage |-> he_tuning.engage,
                       release_dist |-> he_tuning.release_dist]
      BY <2>1 DEF ViaTypes, Tunings
    <3>5. ClampTuning(t) = he_tuning
      BY <3>3, <3>4 DEF ClampTuning
    <3> QED BY <3>5 DEF LoadTuning, t
  <2>8. ModeRestored
    BY <2>3 DEF ModeRestored, ModeYields
  <2> QED BY <2>2, <2>5, <2>6, <2>7, <2>8 DEF SettingsRestored
<1> QED BY <1>1, ViaInvariant, PTL

\* he_id_set_all leaves no key with crossed thresholds, whatever byte it sends.
THEOREM SetAllKeepsOrder == Spec => SetAllNeverCrosses
<1>1. ASSUME NEW v \in SetBytes, SetAll(v), NEW i \in Keys
      PROVE  config'[i].release <= config'[i].actuation
  <2>1. v \in Byte
    BY Requests
  <2>2. config' = Committed(v, SetAllRelease(v))
    BY <1>1 DEF SetAll, CommitThresholds
  <2>3. /\ config'[i].actuation = ClampActuation(v)
        /\ config'[i].release = ClampRelease(SetAllRelease(v))
    BY <2>2 DEF Committed
  <2>4. ClampRelease(SetAllRelease(v)) <= ClampActuation(v)
    BY <2>1, ThresholdLimits, ReleaseRange
       DEF ClampRelease, ClampActuation, Clamp, SetAllRelease, Byte
  <2> QED BY <2>3, <2>4
<1>2. [Next]_vars =>
         [(\E v \in SetBytes : SetAll(v)) =>
             \A i \in Keys : config'[i].release <= config'[i].actuation]_vars
  BY <1>1
<1> QED BY <1>2, PTL DEF Spec, SetAllNeverCrosses
=============================================================================
