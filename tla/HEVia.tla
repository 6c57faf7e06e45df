-------------------------------- MODULE HEVia --------------------------------
(***************************************************************************)
(* The settings of the Icebreaker HE: the VIA custom-value handler         *)
(* (he_via.c), the setters it calls (he_matrix.c) and what survives a      *)
(* power cycle in the QMK keyboard data block.                             *)
(*                                                                         *)
(* A handler changes RAM in one step and leaves its EEPROM updates, in the *)
(* order the code issues them, in `writes`; the wear-leveling driver makes *)
(* them durable log entry by log entry (AppendEntry), or all at once when  *)
(* the log is full (Consolidate), and no other handler runs until it is    *)
(* done, because the driver writes synchronously.  PowerLoss may fall      *)
(* anywhere in between: between two entries, inside one, where its first   *)
(* byte is new and the others read as zero, or inside a consolidation,     *)
(* where only what the log still holds survives.  WearLeveling derives     *)
(* these outcomes flash word by flash word.                                *)
(*                                                                         *)
(* A cell is a byte of the data block, or one of three stamps.  A torn     *)
(* stamp is no case of its own: half of eeconfig's magic is no magic, VIA  *)
(* writes its own byte by byte and needs the last, and the version's first *)
(* byte is the only one that is not zero.                                  *)
(***************************************************************************)
EXTENDS HEKey, Sequences

CONSTANTS
    HE_SENSOR_COUNT,
    HE_VIA_AUTOSAVE_MS,         \* ticks of inactivity before the auto-save
    TimerMod,                   \* timer_read() is 16 bits wide: 2^16
    ScanTicks,                  \* ms one turn of the main loop may take
    SetBytes,                   \* data bytes VIA may send for thresholds
    TuningRequests,             \* [field, value] pairs VIA may send
    ModeBytes,                  \* mode bytes VIA or a custom keycode may send
    LOG_ENTRY_MULTIBYTE_MAX_BYTES, \* bytes of an update in one log entry
    Survivors,                  \* cells the log may hold when an erase is cut
    PowerLossIn                 \* the phases in which power may fail

Keys == 0..(HE_SENSOR_COUNT - 1)
TuningFields == {"deadzone", "engage", "release_dist"}

\* he_eeprom_key_config_t for every key, he_settings_eeprom_t behind them, and
\* the stamps: eeconfig's magic, VIA's build-date magic, the block's version.
KeyCells      == {"actuation", "release"} \X Keys
SettingsCells == ({"mode"} \cup TuningFields) \X {0}
Stamps        == {"magic", "via", "version"} \X {0}
Cells         == Stamps \cup KeyCells \cup SettingsCells

ASSUME SensorCount == HE_SENSOR_COUNT \in Nat \ {0}

\* config.h gives both thresholds the same range; SetAllNeverCrosses needs the
\* release range to end no higher than the actuation range, at either end.
ASSUME ReleaseRange ==
    HE_RELEASE_MIN <= HE_ACTUATION_MIN /\ HE_RELEASE_MAX <= HE_ACTUATION_MAX

\* The auto-save window fits in the 16-bit timer, and no turn of the main loop
\* stalls for the rest of the timer's range.
ASSUME TimerFits ==
    /\ HE_VIA_AUTOSAVE_MS \in Nat \ {0}
    /\ TimerMod \in Nat \ {0} /\ ScanTicks \subseteq Nat
    /\ \A d \in ScanTicks : HE_VIA_AUTOSAVE_MS + d < TimerMod

ASSUME Requests ==
    /\ SetBytes \subseteq Byte
    /\ TuningRequests \subseteq [field : TuningFields, value : Byte]
    /\ ModeBytes \subseteq Byte

ASSUME Power ==
    /\ PowerLossIn \subseteq {"boot", "run"}
    /\ Survivors \subseteq SUBSET Cells
    /\ LOG_ENTRY_MULTIBYTE_MAX_BYTES \in Nat \ {0}

VARIABLES
    phase,                      \* "off", "boot" or "run"
    writes,                     \* EEPROM updates the running handler still owes
    ee,                         \* the durable cells
    config,                     \* he_config[].actuation / .release
    he_mode, he_tuning,
    staged_actuation, staged_release, staged_dirty,
    autosave_pending, autosave_timer,
    now                         \* timer_read()

working == <<config, he_mode, he_tuning>>
staged  == <<staged_actuation, staged_release, staged_dirty>>
timer   == <<autosave_pending, autosave_timer>>
vars    == <<phase, writes, ee, working, staged, timer, now>>

-----------------------------------------------------------------------------
(* The durable cells and the updates each save routine issues.             *)

CellValues(c) == IF c \in Stamps THEN BOOLEAN ELSE Byte
Zero(c)       == IF c \in Stamps THEN FALSE ELSE 0

\* What wear_leveling_erase() leaves: every byte reads as zero.
Erased == [c \in Cells |-> Zero(c)]

\* Where a byte lies in the data block: two bytes for each key, then mode,
\* deadzone, engage and release distance.
Address(c) ==
    CASE c[1] = "actuation"    -> 2 * c[2]
      [] c[1] = "release"      -> 2 * c[2] + 1
      [] c[1] = "mode"         -> 2 * HE_SENSOR_COUNT
      [] c[1] = "deadzone"     -> 2 * HE_SENSOR_COUNT + 1
      [] c[1] = "engage"       -> 2 * HE_SENSOR_COUNT + 2
      [] c[1] = "release_dist" -> 2 * HE_SENSOR_COUNT + 3
      [] OTHER                 -> 0

\* An update is the function from the cells it covers to their new values.
Stamp(name)          == [c \in {<<name, 0>>} |-> TRUE]
KeyImage(cfg)        == [c \in KeyCells |-> cfg[c[2]][c[1]]]
SettingsImage(mode, tuning) ==
    [c \in SettingsCells |-> IF c[1] = "mode" THEN mode ELSE tuning[c[1]]]

\* eeprom_update_block: what is there already is not written again.
Update(image) ==
    IF \A c \in DOMAIN image : ee[c] = image[c] THEN <<>> ELSE <<image>>

\* he_save_settings_to_eeprom: eeconfig_update_kb_datablock stamps the version
\* before it writes the data.
SettingsWrites(mode, tuning) ==
    Update(Stamp("version")) \o Update(SettingsImage(mode, tuning))

SaveWritesNoSettings(cfg, mode, tuning) == \* mutant: only the key records
    Update(Stamp("version")) \o Update(KeyImage(cfg))

\* he_save_to_eeprom: all key records, then the settings; the second stamp is
\* the first one again and is never written.
SaveWrites(cfg, mode, tuning) ==
    Update(Stamp("version")) \o Update(KeyImage(cfg))
        \o Update(SettingsImage(mode, tuning))

DefaultConfig == [i \in Keys |-> [actuation |-> HE_ACTUATION_DEFAULT,
                                  release   |-> HE_RELEASE_DEFAULT]]

\* eeconfig_init_quantum after the erase: enable, stamp the keyboard block (its
\* zeros are there already), validate VIA, and only then eeconfig_init_kb.
FormatWrites ==
    << Stamp("magic"), Stamp("version"), Stamp("via"), KeyImage(DefaultConfig),
       SettingsImage(HE_MODE_RAPID_TRIGGER, DefaultTuning) >>

\* eeconfig_is_enabled / eeconfig_is_kb_datablock_valid
EeconfigEnabled == ee[<<"magic", 0>>] /\ ee[<<"via", 0>>]
DatablockValid  == ee[<<"version", 0>>]

-----------------------------------------------------------------------------
TypeOK ==
    /\ phase \in {"off", "boot", "run"}
    /\ DOMAIN writes = 1..Len(writes)
    /\ \A n \in DOMAIN writes :
          /\ DOMAIN writes[n] \subseteq Cells
          /\ \A c \in DOMAIN writes[n] : writes[n][c] \in CellValues(c)
    /\ DOMAIN ee = Cells
    /\ \A c \in Cells : ee[c] \in CellValues(c)
    /\ config \in [Keys -> [actuation : Actuations, release : Releases]]
    /\ he_mode \in Modes
    /\ he_tuning \in Tunings
    /\ staged_actuation \in Byte /\ staged_release \in Byte
    /\ staged_dirty \in BOOLEAN
    /\ autosave_pending \in BOOLEAN
    /\ autosave_timer \in 0..(TimerMod - 1)
    /\ now \in 0..(TimerMod - 1)

\* The static initialisers of he_matrix.c and he_via.c.
Statics ==
    /\ config' = DefaultConfig
    /\ he_mode' = HE_MODE_RAPID_TRIGGER
    /\ he_tuning' = DefaultTuning
    /\ staged_actuation' = HE_ACTUATION_DEFAULT
    /\ staged_release' = HE_RELEASE_DEFAULT
    /\ staged_dirty' = FALSE
    /\ autosave_pending' = FALSE
    /\ autosave_timer' = 0
    /\ now' = 0

\* A new board: blank flash, powered off.
Init ==
    /\ phase = "off" /\ writes = <<>> /\ ee = Erased
    /\ config = DefaultConfig
    /\ he_mode = HE_MODE_RAPID_TRIGGER
    /\ he_tuning = DefaultTuning
    /\ staged_actuation = HE_ACTUATION_DEFAULT
    /\ staged_release = HE_RELEASE_DEFAULT
    /\ staged_dirty = FALSE
    /\ autosave_pending = FALSE
    /\ autosave_timer = 0
    /\ now = 0

-----------------------------------------------------------------------------
(* Power.                                                                  *)

\* keyboard_pre_init_kb: format the EEPROM unless it is enabled.
PowerOn ==
    /\ phase = "off"
    /\ phase' = "boot"
    /\ IF EeconfigEnabled
       THEN UNCHANGED <<ee, writes>>
       ELSE ee' = Erased /\ writes' = FormatWrites
    /\ UNCHANGED <<working, staged, timer, now>>

LoadConfig ==
    [i \in Keys |->
        [actuation |-> ClampActuation(ee[<<"actuation", i>>]),
         release   |-> ClampRelease(ee[<<"release", i>>])]]

LoadMode(m) == IF m <= HE_MODE_KEY_CANCEL THEN m ELSE HE_MODE_RAPID_TRIGGER

LoadTuning == ClampTuning([f \in TuningFields |-> ee[<<f, 0>>]])

\* matrix_init_custom sets the defaults, keyboard_post_init_kb runs
\* he_load_from_eeprom: an invalid block is written anew, a valid one is read.
KeyboardInit ==
    /\ phase = "boot" /\ writes = <<>>
    /\ phase' = "run"
    /\ IF DatablockValid
       THEN /\ config' = LoadConfig
            /\ he_mode' = LoadMode(ee[<<"mode", 0>>])
            /\ he_tuning' = LoadTuning
            /\ writes' = <<>>
       ELSE /\ writes' = SaveWrites(config, he_mode, he_tuning)
            /\ UNCHANGED working
    /\ UNCHANGED <<ee, staged, timer, now>>

\* The next log entry of an update: its lowest bytes, at most five of them.
Entry(image) ==
    {c \in DOMAIN image : \A d \in DOMAIN image :
        Address(c) < Address(d) + LOG_ENTRY_MULTIBYTE_MAX_BYTES}

\* The store with some cells of an update written; its first log entry with only
\* the first of its two words.
Written(image, done) == [c \in Cells |-> IF c \in done THEN image[c] ELSE ee[c]]
Torn(image) ==
    [c \in Cells |->
        IF c \notin Entry(image) THEN ee[c]
        ELSE IF \A d \in Entry(image) : Address(c) <= Address(d) THEN image[c]
        ELSE Zero(c)]

\* These cells of the update at the head of the queue become durable.
WriteThrough(done) ==
    /\ ee' = Written(Head(writes), done)
    /\ writes' = IF DOMAIN Head(writes) \subseteq done THEN Tail(writes)
                 ELSE [writes EXCEPT ![1] = [c \in DOMAIN @ \ done |-> @[c]]]
    /\ UNCHANGED <<phase, working, staged, timer, now>>

\* wear_leveling_write_raw: one more log entry.
AppendEntry == writes # <<>> /\ WriteThrough(Entry(Head(writes)))

\* wear_leveling_consolidate_force: the log is full, and the cache, which has
\* the whole update already, is written in its place.
Consolidate == writes # <<>> /\ WriteThrough(DOMAIN Head(writes))

\* Power fails: RAM is gone, the remaining updates never happen.  A log entry may
\* be there in part; inside a consolidation (which another client's write may
\* have started) only the cells whose value the log still holds come back.
PowerLoss ==
    /\ phase \in PowerLossIn
    /\ \E kept \in {Cells} \cup Survivors :
       \E e \in {ee} \cup IF writes = <<>> THEN {}
                          ELSE {Torn(Head(writes)),
                                Written(Head(writes), Entry(Head(writes)))} :
          ee' = [c \in Cells |-> IF c \in kept THEN e[c] ELSE Zero(c)]
    /\ phase' = "off" /\ writes' = <<>>
    /\ Statics

\* New firmware while off: a new build date invalidates VIA's magic, a new
\* EECONFIG_KB_DATA_VERSION (or layout) the data block's stamp.
Reflash ==
    /\ phase = "off"
    /\ \E stale \in (SUBSET {<<"via", 0>>, <<"version", 0>>}) \ {{}} :
          ee' = [c \in Cells |-> IF c \in stale THEN FALSE ELSE ee[c]]
    /\ UNCHANGED <<phase, writes, working, staged, timer, now>>

\* QK_CLEAR_EEPROM: eeconfig_disable formats, then the keyboard resets.  (A cut
\* inside its erase is a PowerLoss with what the log holds.)
ClearEeprom ==
    /\ phase = "run" /\ writes = <<>>
    /\ ee' = Erased
    /\ phase' = "off" /\ writes' = <<>>
    /\ Statics

-----------------------------------------------------------------------------
(* The VIA commands; the loop is idle (no write outstanding) before each.  *)

Idle == phase = "run" /\ writes = <<>>

ArmAutosaveNot == UNCHANGED timer \* mutant: a SET does not arm the auto-save

\* he_via_arm_autosave
ArmAutosave == autosave_pending' = TRUE /\ autosave_timer' = now

SetActuation(v) ==
    /\ Idle
    /\ staged_actuation' = v /\ staged_dirty' = TRUE
    /\ ArmAutosave
    /\ UNCHANGED <<phase, writes, ee, working, staged_release, now>>

SetRelease(v) ==
    /\ Idle
    /\ staged_release' = v /\ staged_dirty' = TRUE
    /\ ArmAutosave
    /\ UNCHANGED <<phase, writes, ee, working, staged_actuation, now>>

CommittedUnclamped(act, rel) == \* mutant: the setters do not clamp
    [i \in Keys |-> [actuation |-> act, release |-> rel]]

\* he_set_actuation + he_set_release: every sensor, clamped.
Committed(act, rel) ==
    [i \in Keys |-> [actuation |-> ClampActuation(act),
                     release   |-> ClampRelease(rel)]]

CommitThresholdsKeepDirty(act, rel, dirty) == \* mutant: staged_dirty stays set
    /\ config' = IF dirty THEN Committed(act, rel) ELSE config
    /\ staged_dirty' = dirty
    /\ writes' = SaveWrites(config', he_mode, he_tuning)

\* he_via_commit_thresholds, given the staged values.
CommitThresholds(act, rel, dirty) ==
    /\ config' = IF dirty THEN Committed(act, rel) ELSE config
    /\ staged_dirty' = FALSE
    /\ writes' = SaveWrites(config', he_mode, he_tuning)

\* he_id_save, or the generic id_custom_save.
Save ==
    /\ Idle
    /\ CommitThresholds(staged_actuation, staged_release, staged_dirty)
    /\ UNCHANGED <<phase, ee, he_mode, he_tuning, staged_actuation,
                   staged_release, timer, now>>

SetAllReleaseWraps(v) == (v - 1) % 256 \* mutant: no test for zero, a byte wraps

\* One percent below the actuation point, and zero below zero.
SetAllRelease(v) == IF v > 0 THEN v - 1 ELSE 0

\* he_id_set_all
SetAll(v) ==
    /\ Idle
    /\ staged_actuation' = v
    /\ staged_release' = SetAllRelease(v)
    /\ CommitThresholds(staged_actuation', staged_release', TRUE)
    /\ UNCHANGED <<phase, ee, he_mode, he_tuning, timer, now>>

ModeWritesNone(m) == <<>>       \* mutant: the mode stays RAM-only

ModeWrites(m) == SettingsWrites(m, he_tuning)

\* he_set_mode, from he_id_mode or from the QK_KB_0..2 keycodes.
SetMode(m) ==
    /\ Idle
    /\ m <= HE_MODE_KEY_CANCEL
    /\ he_mode' = m
    /\ writes' = ModeWrites(m)
    /\ UNCHANGED <<phase, ee, config, he_tuning, staged, timer, now>>

\* he_set_deadzone, he_set_engage, he_set_release_dist: RAM, and arm.
SetTuning(r) ==
    /\ Idle
    /\ he_tuning' = ClampTuning([he_tuning EXCEPT ![r.field] = r.value])
    /\ ArmAutosave
    /\ UNCHANGED <<phase, writes, ee, config, he_mode, staged, now>>

\* timer_elapsed: 16-bit difference.
Elapsed(t) == (t - autosave_timer) % TimerMod

\* he_via_task at the end of a matrix scan, d ms after the last one.
Scan(d) ==
    /\ Idle
    /\ now' = (now + d) % TimerMod
    /\ IF autosave_pending /\ Elapsed(now') >= HE_VIA_AUTOSAVE_MS
       THEN /\ autosave_pending' = FALSE
            /\ CommitThresholds(staged_actuation, staged_release, staged_dirty)
       ELSE UNCHANGED <<config, staged_dirty, writes, autosave_pending>>
    /\ UNCHANGED <<phase, ee, he_mode, he_tuning, staged_actuation,
                   staged_release, autosave_timer>>

Next ==
    \/ PowerOn \/ KeyboardInit \/ AppendEntry \/ Consolidate \/ PowerLoss
    \/ Reflash \/ ClearEeprom
    \/ \E v \in SetBytes : SetActuation(v) \/ SetRelease(v) \/ SetAll(v)
    \/ Save
    \/ \E m \in ModeBytes : SetMode(m)
    \/ \E r \in TuningRequests : SetTuning(r)
    \/ \E d \in ScanTicks : Scan(d)

Spec == Init /\ [][Next]_vars

\* The main loop and the flash driver always make progress and time passes;
\* nobody is obliged to switch the board on or to send a command.
Fairness == /\ WF_vars(KeyboardInit)
            /\ WF_vars(AppendEntry \/ Consolidate)
            /\ WF_vars(\E d \in ScanTicks \ {0} : Scan(d))

FairSpec == Spec /\ Fairness

-----------------------------------------------------------------------------
(* Properties.                                                             *)

\* What a power cycle would bring back: no format, a valid block, and a load
\* that yields the working settings.  The bytes themselves may differ: after a
\* torn save the load clamps a zero in RAM and leaves it in the EEPROM.
ModeRestored    == LoadMode(ee[<<"mode", 0>>]) = he_mode
SettingsRestored ==
    /\ EeconfigEnabled /\ DatablockValid
    /\ LoadConfig = config /\ ModeRestored /\ LoadTuning = he_tuning

\* Nothing is lost silently: with the loop idle, no staged value and no
\* auto-save outstanding, a power cycle restores exactly the working settings,
\* whatever mix of SETs, saves, mode keys, cut formats, saves and
\* consolidations, and reflashes came before.
QuiescentIsSaved ==
    Idle /\ ~staged_dirty /\ ~autosave_pending => SettingsRestored

\* A staged threshold is never forgotten: until it is committed, an auto-save
\* is armed for it.
StagedWillBeSaved == staged_dirty => autosave_pending

\* "Persist immediately so a mode change survives reboot": whenever the loop
\* is idle a power cycle restores the working mode, also while tuning sliders
\* are still unsaved.
ModeIsDurable == Idle => ModeRestored

\* An enabled EEPROM with a valid block holds records that a save wrote, never
\* the zeros of the format: no setter can store a threshold below the minimum.
EnabledMeansSeeded ==
    phase = "off" /\ EeconfigEnabled /\ DatablockValid =>
        \A i \in Keys : /\ ee[<<"actuation", i>>] \in Actuations
                        /\ ee[<<"release", i>>] \in Releases

\* he_id_set_all promises one actuation point with the release just below it.
\* Whatever byte it carries, both clamps included, no key is left with its
\* thresholds crossed: a key held between crossed thresholds flips on every
\* scan, which SET of the two values one by one can bring about.
SetAllNeverCrosses ==
    [][(\E v \in SetBytes : SetAll(v)) =>
          \A i \in Keys : config'[i].release <= config'[i].actuation]_vars

\* The auto-save fallback works: once the host stops sending commands and the
\* power stays on (only the firmware's own steps remain), what was staged or
\* tuned is committed and from then on survives a power cycle.
AutosavePersists ==
    (<>[](phase = "run") /\ <>[][\/ KeyboardInit \/ AppendEntry \/ Consolidate
                                   \/ \E d \in ScanTicks : Scan(d)]_vars)
        => <>[](~staged_dirty /\ SettingsRestored)
=============================================================================
