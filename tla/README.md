# Icebreaker HE: TLA+ models, model checking and proofs

This directory verifies the firmware of the Icebreaker HE, a Hall-effect
keyboard built on QMK. The repository is a fork of QMK; the board's own logic is
`keyboards/icebreaker/he/` (`he_matrix.c`, `he_via.c`, `config.h`, a keymap), and
it runs inside a few pieces of QMK core that decide whether it is correct: the
main loop with its matrix task, global debounce and encoder, `eeconfig` and the
wear-leveling EEPROM under it, the rgblight driver, the millisecond clock, and
VIA. Everything else in the repository (other keyboards,
USB, layouts, tooling) is upstream code this board does not change.

All paths below are relative to the repository root.

## 1. The system

The firmware is one main loop. Each turn scans the matrix, debounces, sends key
events and handles whatever raw-HID command (VIA) arrived. There are no threads
in the board's code (only the clock is also read from interrupts); what makes it
hard is the order of things across turns: commands and key events fall between
two scans, state of one actuation mode survives into another, flash writes are
cut short by power loss, counters, timers and the write log wrap or fill up.

Facts of the build the models use: an STM32F411 with the flash driver of ChibiOS
(4-byte writes), 16384 bytes of flash behind an 8192-byte EEPROM; 4 layers of
5 x 16 keys, one encoder, 16 macros; a 32-bit system timer at 100 kHz, which
wraps every 11.9 hours.

| component | state | operations | talks to |
|---|---|---|---|
| scan pipeline (`he_matrix.c`) | per key: thresholds, raw span, travel, peak, valley, debounce counter, physical / debounced / reported state; mode, tuning, key-cancel winners, scan counter, rest floors | `matrix_scan_custom`, boot auto-calibration, calibration start / end, setters | reads the ADC; fills the raw matrix; calls `he_via_task` and rgblight |
| VIA settings (`he_via.c`) | staged thresholds, dirty flag, auto-save flag and time | SET / save / set-all / mode / tuning, auto-save | setters and save routines of `he_matrix.c` |
| persistence (`eeconfig.c`, `nvm_eeconfig.c`, `via.c`) | eeconfig magic, VIA build-date magic, block version, 69 key records, settings record | format, load, save, invalidate | `keyboard_pre_init_kb`, `keyboard_post_init_kb` |
| RGB strip (`rgblight.c`, calibration feedback in `he_matrix.c`) | enable, colour, LEDs, persisted record, saved colour, green latches | calibration start / end / latch, underglow keys, VIA lighting | EEPROM |
| main loop (`keyboard.c`, `matrix_common.c`, `sym_defer_g.c`) | raw, published and previous matrix, debounce window | scan, publish, one event per changed key; then the encoder | host report |
| encoder (`encoder_quadrature.c`, `encoder.c`) | last pin reading, pulse count, event queue | poll, queue, send | host report |
| mux, ADC, sensor table (`he_matrix.c`) | 4 address lines, 5 chip enables | select, sample | scan pipeline |
| wear leveling (`wear_leveling.c`, `wear_leveling_efl.c`) | RAM cache, write address; in flash: consolidated copy, checksum, write log | playback, write, append, consolidate, erase | flash; every EEPROM client |
| VIA keymap and macros (`via.c`, `dynamic_keymap.c`, `nvm_dynamic_keymap.c`) | build-date magic, layout options, keymap, encoder map, macro buffer | initialise, SET commands, buffer writes, resets, macro sending | EEPROM |
| clock (`platforms/chibios/timer.c`) | tick and millisecond offsets, last ticks, timer extension | read, clear, save, restore | every timeout |

What has to be right, component by component: a key that is down is reported and
one that is up is not, in every mode and across every change of settings; of a
key-cancel pair exactly one key is reported and it is the latest; calibration
never leaves an unusable span; settings that were acknowledged survive power
loss, and after a torn write a restart keeps loading what the board works with;
the end of a calibration brings the previous colour back; the host ends up with
what the scan saw, and with every detent of the knob; the EEPROM returns after a restart what was
written before it, or a documented part of it; a keymap belongs to the firmware
whose magic it carries; a macro is sent whole or not at all; the clock is exact
through every wrap.

The hazards (places a unit test would hardly reach) are listed with their lines
in `PROJECT.json` under `hazards`, each with the properties aimed at it.

## 2. Modules

| module | models | role |
|---|---|---|
| `HEKey` | `config.h` limits and defaults, `he_clamp_u8`, `he_raw_to_travel`, the rest base | pure arithmetic, shared |
| `HEMatrix` | `matrix_scan_custom`, `he_compute_pressed`, calibration, setters | the core state machine and its properties |
| `HEMatrixHistory` | the same with observer variables | properties about sequences of scans |
| `HEMatrixProofs` | theorems about the scan pipeline and its history | TLAPS |
| `HEViaProofs`, `HELightProofs`, `HEMuxProofs` | theorems about settings, lighting, sensor selection | TLAPS |
| `KeyboardTaskProofs`, `TimerProofs` | theorems about the main loop and the clock | TLAPS |
| `WearLevelingProofs` | theorems about the flash driver, and that it implements `EepromStore` | TLAPS |
| `ViaKeymapProofs` | theorems about keymap storage and macros | TLAPS |
| `HEVia` | `he_via.c`, save / load of `he_matrix.c`, the format of `eeconfig.c` | settings, staging, EEPROM bytes and the log entries that carry them, power loss |
| `HELight` | calibration feedback, `rgblight.c`, VIA lighting | the strip |
| `HELightHistory` | the same with observer variables | what a calibration brings back |
| `MatrixTask` | `matrix_scan`, `debounce`, `matrix_task` | from raw matrix to host report |
| `Encoder` | `encoder_quadrature.c`, the queue of `encoder.c` | from the knob's contacts to the host |
| `KeyboardTask` | `keyboard_task` | composes `MatrixTask` and `Encoder` in the main loop's order |
| `EepromStore` | | what an EEPROM client may rely on: the abstract specification |
| `WearLeveling` | `wear_leveling.c` over `wear_leveling_efl.c` | flash operation by flash operation; implements `EepromStore` |
| `ViaKeymap` | `via.c`, `dynamic_keymap.c`, `nvm_dynamic_keymap.c`, `nvm_via.c`, the macro part of `send_string.c` | keymap and macro storage, byte by byte |
| `Timer` | `platforms/chibios/timer.c` | the millisecond clock |
| `HEMux` | `he_mux_select`, `he_sensors[]`, `he_led_remap[]`, the commit loop | pins and tables, at the grain of one GPIO write |
| `MC*` | | values for TLC |

How state and actions correspond to the code:

* **HEMatrix.** The variables carry the names of the C objects; a field of
  `he_config[]` is a function of its own. One `Scan(raw, push)` step is one call
  of `matrix_scan_custom()`, whole: `raw` is what the ADC returns for each
  analog sensor, `push` the level of the encoder switch. The stages of the loop
  body are operators in code order (`RestFloor`, `SampledMin/Max`,
  `SampledTravel`, `PhysPressed`, `NextPeak/Valley`, `NextDebounced`,
  `NextWinner`, `Suppressed`). Inside a scan each key is computed from its own
  state, so the loop over the keys is a function constructor; the key-cancel
  stage reads this scan's debounced states, as the code does. `init_step`
  follows `keyboard_init`: VIA forces bootmagic, so two scans run on the
  compile-time defaults before `LoadFromEeprom` (which keeps them when the data
  block is not valid) and before any command. Commands are steps of their own. What a command writes to the EEPROM is in HEVia and what
  calibration paints is in HELight; nothing in the pipeline reads either.
* **HEVia.** A handler changes RAM at once and appends its EEPROM updates, in
  code order, to `writes`; no other handler runs until they are out (the driver
  is synchronous). The cells are the bytes of the data block and three stamps. An
  update becomes durable log entry by log entry (`AppendEntry`: its lowest bytes,
  at most five on the board, across the border of two key records), or all at
  once when the log is full (`Consolidate`). `PowerLoss` can cut the queue between
  two entries, between the two words of one (its first byte is new, the others
  read as zero: `Torn`) or inside a consolidation, the settings' own or one that
  another client caused, which leaves the cells of one of the sets in
  `Survivors`. These are the outcomes `EepromStore` allows and WearLeveling
  derives. `PowerOn` is `keyboard_pre_init_kb`, `KeyboardInit` the rest of the
  boot up to `he_load_from_eeprom`. `Reflash` invalidates VIA's magic (new build
  date), the block version, or both.
* **HELight.** A colour is a hue and a brightness; `Shown` is what an LED shows,
  with the brownout cap. The board enables no rgblight effect, so only the
  static mode exists. HELightHistory remembers the colour from before the running
  calibration (`previous`, forgotten at a second start) and the whole lighting
  from before it (`untouched`, forgotten when anything but a scan happens).
* **MatrixTask.** `RawStates` is the set of raw matrices a scan can produce; the
  key-cancel theorems about HEMatrix justify leaving out the states with both
  keys of a pair. `KeyEvent` sends one event, lowest key first. The two boot scans
  publish nothing: with a debounce of five scans the raw matrix is still empty.
* **KeyboardTask, Encoder.** `task` says which call of `keyboard_task` comes next:
  a scan, then its key events until none is pending, then the encoder driver's
  poll, then its queued events. The knob makes quarter steps at any moment, in
  either direction; bounce is a step and back. `moved` and `turned` are the
  observer's account of what the polls could see and what the host was told.
* **WearLeveling.** A flash word is its four bytes after the driver's complement,
  so erased flash reads as zeros and programming can only set bits. The running
  call is a `phase`; each step programs one word, erases the sector or plays back
  one log entry. A write in progress is the `block` of bytes still to be logged and
  the words `sent` of its first entry. `PowerLoss` may come between any two and inside an erase, where
  the sector is then erased up to some word. A flash operation may also fail and
  say so: the code's error paths are the second disjunct of each step.
  The FNV checksum is taken to be free of collisions and the log header is its
  three bytes, because a payload word that is mistaken for a header is one of
  the hazards.
* **EepromStore** and the refinement. `mem` is what reads return, `disk` what a
  restart would bring back; a write reaches `disk` in spans of at most five bytes,
  whose first byte may become durable alone (the other bytes then read as zero),
  and now and then the store is wiped and rewritten. `ImplementsStore` maps
  `mem` to the cache and `disk` to the playback of the flash, a function of the
  flash alone (`Durable`): `Played(flash)[n]` is the playback after n entries, a
  recursive function, so that it can be reasoned about.
* **ViaKeymap.** A command is the list of byte writes its handler makes, and each
  `eeprom_update_byte` a step. The host uploads macros in the order
  `dynamic_keymap.h` asks for and may give up; macro keys are pressed at any
  moment (`MacroSend` is a function of the EEPROM). A build has its own date
  stamp, default keymap and requests, and `Reflash` moves between builds. The stamp
  is a date, so two builds of one day cannot be told apart, and neither does the
  property `MagicMeansOwnData` (`SameDay`).
* **Timer.** `elapsed` and `base` are a perfect clock. `ReadBegin` is the part of
  `timer_read32` under the lock, `ReadEnd` the conversion after it; `InterruptRead`
  may come between. Both widths of the hardware timer are covered, the board's
  32 bits and a narrow one extended in software.

* **HEMux.** One step per GPIO write of the selection, one for the settling wait,
  one for the conversion, one per sensor of the commit loop, over the board's
  real table. `bus` is the set of sensors whose voltage is on the ADC input and
  lags behind the selection until the wait is over. It justifies two things
  HEMatrix takes for granted: `raw[i]` is the reading of sensor `i`, and the raw
  matrix is the set of reported keys. The assumption `BoardTables` checks the
  LED map and the key-cancel pairs that HELight and HEMatrix abstract.

Definitions marked `mutant` are deliberately wrong versions of their neighbour.
They are used by nothing: `PROJECT.json` pairs each with a property that fails
when the wrong version takes the place of the right one.

## 3. Runs

`tlc -config <name>.cfg <module>`; modules and properties are in `PROJECT.json`.

Passing:

| run | shows |
|---|---|
| `socd` | with a pair under every sequence of readings and mode switches: a held pair reports exactly one key, the latest press wins, the owner never flickers |
| `settings` | settings change, and calibrations start and end, between any two scans: no stuck key, a bottomed-out key is reported, a held key is reported unless its thresholds cross, rapid trigger settles |
| `rapid_trigger` | boot window, VIA start and end in every order with the scans of a key and the encoder switch: outside a calibration every span is at least `HE_ADC_MIN_SPAN`; against an observer of the true extremes every press and release is earned; a reported flip needs `HE_DEBOUNCE` agreeing scans |
| `settings_store` | with power failing in the format, in a log entry and in a consolidation, reflashes and EEPROM clears: at rest a power cycle loads exactly the working settings (the bytes may differ: a zero from a torn entry is clamped in RAM and stays in the EEPROM); a staged value always has an auto-save armed; a power cycle restores the mode as soon as the command is done; set-all never crosses the thresholds; once the host is silent the staged values survive a power cycle |
| `light` | cap on the wire; dark when disabled; a calibration that was started once and ends on an enabled strip brings the previous colour back on every LED, whatever lighting commands came in between, and one with nothing but scans in it leaves the strip and the stored record as they were |
| `mux` | on the real table: addresses move only while no chip drives the bus, each conversion sees its own sensor, the commit loop sets exactly the reported keys |
| `keyboard_task` | matrix and encoder in one loop: keys that no scan reports together are down together at the host only while the release of one is still to come in the same pass; the host follows the published matrix and catches up with the raw one; every detent the polls could see is reported once, in its direction and in its turn of the loop |
| `wear_leveling` | the driver implements `EepromStore`; between calls a restart would rebuild the cache and find the same place to append; only erased, unlocked flash inside the store is programmed; every start comes to an end, also on a log damaged by failed operations |
| `via_keymap` | a valid magic means this build's keymap and macros, through any sequence of cut initialisations and reflashes; a command reads back what it wrote and leaves its neighbours alone; no macro key ever sends a mixture of two uploads |
| `timer` | each read equals a perfect clock, whatever wrapped and whoever read, cleared, saved or restored in between; a read overtaken by an interrupt's is exact too |

Runs that expect a counterexample. Each states what a comment or document of
the repository says, and TLC finds the code doing something else; the quoted
lines are under `findings` in `PROJECT.json`.

| run | what the code does |
|---|---|
| `rt_relative_release` | above the actuation point the relative release of rapid trigger is undone by the absolute press one scan later, and the debounce hides it; with the default tuning (deadzone 50 = actuation 50) it never takes effect |
| `format_power_loss` | power lost late in the first format leaves valid-looking zeros |

Seen while modelling and not given a run of their own.

In the scan pipeline:

* `he_scan_count` is 32 bits wide (`he_matrix.c:688` calls it monotonic). When it
  wraps, scans 1..64 sample the rest floor again and scan 64 replaces every span,
  a VIA-calibrated one too, although `config.h:111-112` lets the VIA calibration
  override the derived one. At a thousand scans per second this takes seven weeks
  of uptime.
* `socd_winner` is cleared only by a key-cancel scan that finds both keys
  released. A winner from an earlier visit to the mode survives, so entering the
  mode mid-hold may keep the second key where `he_matrix.c:804-806` says a cold
  start keeps the first. It is still exactly one key, and it stays.
* Normal and key-cancel presses do not touch `peak`, so a switch to rapid trigger
  with a key held can release it against the peak of an earlier press. That is
  why `rapid_trigger` has no mode switches: `RTReleaseJustified` and
  `RTPressJustified` say nothing about a board that leaves the mode.
* release >= actuation is accepted, and a normal-mode key held between the two
  oscillates below the debounce (the premise of `HeldKeyReported`); during a
  calibration one count of noise is a full press.

In settings and lighting:

* The staged thresholds start at 50/30, not at the loaded values, and share one
  dirty flag (`he_via.c:57`): after a restart, setting the actuation alone and
  saving resets every release threshold to 30. `doc/via.md:70-73` speaks of values
  that were actually SET.
* Set-all gives equal thresholds at both ends of the range.
* A lighting command during a calibration repaints keys already marked green.
* `he_matrix.c:387-388` and `:437` speak of the colour from before the
  calibration. A second start saves the calibration red as the colour to restore
  (`:409`), and rgblight ignores the end of a calibration while the strip is
  disabled (`:438`), so red is left in the configuration and shows when the strip
  is switched on again. `CalibrationRestores` promises nothing in these two cases.
* A save torn inside a log entry, or a cut consolidation, leaves zeros in the data
  block under a valid version. The load clamps them in RAM and does not write them
  back: the board works with the minimum (10 %, mode Normal) and goes on to load
  it, until something is saved. This is why `SettingsRestored` compares what a
  load would yield and not the bytes.

In the store, the keymap, the clock and the knob:

* A consolidation erases the only copy first: power lost before its checksum is
  written means a blank EEPROM and a format on the next start. `EepromStore` says
  so (`Wipe`).
* After a failed flash write the cache already holds the new bytes, so repeating
  the write is skipped as unchanged (`wear_leveling.c:688`). After a failed erase
  at a full log the write address stays behind the end of the store and the next
  write programs there (`wear_leveling.c:307`, `:351`).
* A consolidation at start-up erases before `backing_store_unlock` is called
  (`wear_leveling.c:606`). What the flash driver of ChibiOS does with that is outside
  this repository; the model lets the erase succeed or fail, like any other.
* A macro reset does not set the "being written" flag, so a cut one leaves the end
  of the old macros sendable (`SendsWholeMacros` names it). A power failure between
  the two bytes of a keycode leaves a mixture of the two keycodes.
* Two quarter steps of the knob between two polls read as none and three as one
  backwards. `ENCODER_DEFAULT_POS` is not set, so such a loss shifts the position of
  the detent for good.
* The clock loses time when nobody reads it for more than `OVERFLOW_ADJUST_TICKS`;
  with the bound one larger TLC finds it. The main loop reads it every turn.
* A hand-over from the later to the earlier key of a pair sends one report with
  both down, because events go out in row and column order. `OverlapIsHandOver`
  limits it to the pass that releases the old key.

Every state machine has a `TypeOK`, which says what its variables range over and is the
first conjunct of the inductive invariants. The runs list it where it carries more
than types: the debounce counter's bound (`socd`), clamped settings
(`settings_store`), cache and write address of a damaged log (`wear_leveling`).

### Bounds

The limits of `config.h` (thresholds, tuning, ADC range, margin, span) have their
real values. Scaled down: `HE_DEBOUNCE` 5 to 2 (the counter's first and last
value both occur; the theorems hold for any value), `HE_ADC_REST_SAMPLE_SCANS` 64
to 1 or, where the load is to fall inside the window as on the board, 3 (before, at
and after the lock-in), `HE_VIA_AUTOSAVE_MS` to 2, and the
timers' range to 5 or 7, so that the wrap happens. `ScanTicks` 0..2 covers scans
within a millisecond and ones that pass the debounce at once. The scan counter's range is 2
to 4 instead of 2^32, so every run also sees the lock-in repeat; the price is
that a user-calibrated span lasts only a few scans before the lock-in replaces
it, and what holds for arbitrarily long use of such a span rests on the theorems
and not on the runs.
One or two keys are enough for the pipeline because keys only meet in a pair and
pairs are disjoint (the theorems remove the bound). Readings are one per travel
band: below the deadzone, between the thresholds, around a release distance, and
bottomed out. Two sensors stand for 69 records and three bytes for the five of a log
entry, so that an entry holds one record and part of the next and an update takes
more than one entry. `Survivors` has three sets: nothing, the stamps, stamps and
settings. In `settings_store` power may fail in every phase; `format_power_loss`
asks only what a cut format leaves behind.
HEMux has no scaled bound: 69 sensors, five chips, four lines.
HELight scales hue to 3 and brightness to 4 values around the cap.
The encoder has its real resolution of 4 and queue of 4 slots; `MaxMoved` is 2, the
most the decoder can tell from a step backwards.
WearLeveling has 8 logical bytes, a log of four words, one failed operation, and
two overlapping blocks: one byte, and six bytes in two entries, so that the log
fills inside an entry, between two and at the end. A payload byte is chosen to
look like a header of length six.
ViaKeymap has two layers of 2 x 3 keys, one encoder, six macro bytes uploaded in
two chunks, and two builds whose keymaps share no byte, so that a left-over shows.
The two bytes of eeconfig's magic are one cell.
Timer replaces 2^32 by 8 and the tick rate by one for which no power of two is a
whole number of milliseconds, as on the board.
No cfg disables deadlock checking: none of the systems may stop.

### Fairness

`WF(MatrixScan)` and `WF(LoadFromEeprom)` in HEMatrix; in HEVia `WF` on scans that
take time, `WF(AppendEntry \/ Consolidate)` and `WF(KeyboardInit)`; in KeyboardTask `WF` on the steps inside a turn
of the loop and `SF` on a scan that takes time; in WearLeveling `WF` on the steps of
the running call: the main loop calls `keyboard_task` for ever, has no blocking
call in these paths, a synchronous flash write returns, and time passes (the strong
fairness: a loop that scans infinitely often does not do so within one
millisecond). No command of the host or the user is
ever assumed to come, and power never has to return.

## 4. Proofs

Each `*Proofs` module is checked by `tlapm <module>.tla`. The theorems hold for
every value of the constants that satisfies the named assumptions; TLC evaluates
those assumptions in the runs. Where a theorem states a property of a run, the run
shows it on a small instance and the theorem without the bound.

**Scan pipeline** (`HEMatrixProofs`; any keys, any disjoint pairs, any inputs;
`ThresholdLimits`, `DefaultsInRange`, `AdcLimits`, `ScanLimits`, `PairsDisjoint`,
`InputBytes`). All theorems include the boot scans on the defaults and the load.

* `TypeCorrect` carries real facts: travel stays in 0..100 (from the shape of
  `he_raw_to_travel`, whatever the span, an inverted one during calibration too),
  loaded and commanded bytes end up inside their clamps, the debounce counter stays
  below `HE_DEBOUNCE`, spans stay 16-bit.
* `DebounceCounts` and `CalibratedSpan` are inductive given the types. A scan leaves
  a span alone outside a calibration or installs `RestBase + HE_ADC_TRAVEL_SPAN`; an
  end accepts a span of at least the minimum or installs the same width; this needs
  `HE_ADC_MIN_SPAN <= HE_ADC_TRAVEL_SPAN`.
* `SocdExclusive` and `SocdLastInput`: action properties of one scan. The lemma
  `SuppressedInPair` uses disjointness to decide the suppression of a pair by that
  pair alone, `ScanReportsPair` says what the scan reports in terms of the winner.
* `SocdStable`: `SocdOwnerKeepsOutput` does not follow from the types, because the
  output could move if the stored winner disagreed with the reported key. The
  strengthening `WinnerOwnsOutput` rules that out, and `WinnerInvariant` proves it
  through every mode switch.

**Sequences of scans** (in the same module, which extends `HEMatrixHistory`). `HistoryRefines` shows that the
observer variables only watch, which makes the pipeline's theorems available.
`FlipsAreDebounced` rests on `HistoryInv`: a debounce counter never claims more scans
than the physical state really lasted. `RTReleasesAreEarned` and
`RTPressesAreEarned` rest on `ExtremesExact`: peak and valley are the extremes an
observer would compute. The last three assume `OnlyRapidTrigger` (no other mode is
stored and no command leaves it): the other modes do not maintain the extremes,
as section 3 says, so without it the statement is false.

**Settings** (`HEViaProofs`; `SensorCount`, `ThresholdLimits`, `DefaultsInRange`,
`ReleaseRange`, `TimerFits`, `Requests`, `Power`). Handlers queue their updates, so the
invariants speak of where a cell *lands*: `Lands(writes, ee, c, S)` says that once the
queue is written, cell c has a value in S. It is kept by each `AppendEntry` and
`Consolidate`, and by a handler whose updates end in S. S is the set of bytes that
*load* as the working value, not the value itself: after a torn entry the two differ,
and with the bytes themselves the invariant is false. `ViaInvariant` says that
thresholds and mode, and with no auto-save armed the tuning too, land on such bytes,
and the stamps on valid ones. A power failure may leave any mix of old bytes, new bytes
and zeros; that is harmless because the boot loads whatever is there before the
invariant has to hold again. It gives `ViaTyped`, `StagedIsArmed`, `ModeSurvives` and
`SettingsAreSaved`, with power failing in any phase and for any `Survivors`.
`SetAllKeepsOrder` is the arithmetic of the two clamps.

**Lighting** (`HELightProofs`; `LedMap`, `LightLimits`). Cap and darkness are inductive
together with the types and with `ShowsConfig` (outside a calibration an enabled strip
shows the configured colour on every LED). `CalibrationRestoresColour` rests on
`BeforeInvariant`: the colour he_start_calibration saved is the remembered one until a
second start, and while only scans happen the switch, the stored record and the LEDs of
a disabled strip are the remembered ones; `LightHistoryRefines` brings in the strip's
own invariant, which says that the LEDs before the start showed the colour that the end
puts back.

**Sensor selection** (`HEMuxProofs`; `MuxInputs`, `ChannelsDiffer`, `PositionsDiffer`,
which the real table satisfies: TLC evaluates them on it). `SelectInv` follows `he_mux_select` write by write: the chips below n are off,
then the lines below n carry the address, then exactly one sensor is connected.
`CommitInv`: the sensors below i have their bit, and every bit is some sensor's.

**Main loop** (`KeyboardTaskProofs`; `TaskInputs`, `TaskTimer`, `EncoderLimits`).
`LoopRunsMatrixTask` is a refinement (`KSpec => Spec` of `MatrixTask`).
`TaskInv` says that within a pass the pending keys are the difference between the
published and the previous matrix and that the host has the previous one.
`LoopHandsOver` adds that a published matrix is one raw state (`PublishedWhole`): an
exclusive set is never published whole, so if the host has all of it, one of its keys
is among the pending differences.
`EveryDetentReported` needs `RotationInv`: the stored pin reading is the one from
before the knob moved, and what was turned is what is in the pulse count plus the one
event that may be queued.

**Clock** (`TimerProofs`; `TimerConfig`). Two congruences modulo 2^32 carry the proof:
the extended counter has moved on by `gap` since the last read (`CountInv`), and the
ticks that are no longer in `last_ticks` are a whole number of seconds, which
`ms_offset` has absorbed (`TimeInv`). That whole seconds are taken off is what keeps
the rounding exact, and that the extension misses no round (`NoRoundMissed`) is what
`chVTSet`'s half period is for.

**Wear leveling** (`WearLevelingProofs`; `StoreSizes`, `ClientBlocks`). For all sizes
within the STATIC_ASSERTs, any blocks, any number of failed operations:

* `WearTyped`: no access leaves the sector, whatever the log holds. `TypeOK` alone is not
  inductive, since a failed erase leaves a full log behind and each further append
  passes the end by one word; `TypeInv` therefore bounds the write address in each
  phase by the number of faults so far.
* `LogInvariant`: as long as no operation has failed, the flash is a log of K entries
  that ends at word n with nothing behind it (`LogIs`), and cache, write address and
  playback position are what this log says, in each phase; a half-written entry is the
  last one, with its second word missing. During a copy, the flash is a prefix of the
  image and the rest is erased.
* The playback is a recursive function of the flash. That it exists and follows its
  recursion (`PlayedRecursion`) and facts for every number of entries (`PlayedTyped`,
  `Rises`, `SamePrefix`: flash that agrees up to a word is played back the same up to
  it) are proved by induction on the natural numbers in the form of a subset that is
  closed under successor (`NatInduction2`), from the well-foundedness of `<`. The
  provers cannot instantiate the library's schema, but this one has no operator
  parameter.
* `EntryShape`, `HeaderDecodes`: the playback accepts the entries the driver writes and
  reads the same address, length and bytes back out of their two words.
* `AcknowledgedIsDurable`, `OnlyErasedFlash`: consequences of the two invariants.
* `ImplementsEeprom`: the refinement, `Spec => ImplementsStore`. Each flash word maps to
  a step of `EepromStore`: the first word of an entry to `Begin` of its span or, for a
  one-byte entry, to `Finish`; the second to `Finish`; the erase to `Wipe`; the last
  word of the copy to `Rewrite`, and every one before it to a stutter, since a copy
  without its checksum is as good as blank (`PartialIsBlank`); a failed operation to
  `Fail`, and the first complete rewrite after it to `Heal`.

**Keymap and macros** (`ViaKeymapProofs`; `SizesAreSane`, `BuildsAreSane`). For every
size of keymap, encoder map, macro buffer and chunk, any number of builds, default
keymaps, requests and uploads. A command is a list of byte writes still to make, so the
invariants say where the cells end when the list is worked off: `Fills(todo, eeprom, a, S)`
says that cell a holds, or is still going to be written with, members of S only. It
survives each `WriteByte` (`FillsStep`), and a power failure throws the list away.

* `KeymapInvariant` proves `KeymapInv`: types; a command's writes lie in its region
  (`InRegion`) and carry bytes of the running build (`OwnBytes`); an initialisation
  fills every cell, and the last byte of the magic, the day, is 0 or 255 up to its very
  last write (`Initialising`), which is what "save the magic number last" means with the
  power failing anywhere; a command's bytes are in place or queued (`Stores`).
  `MagicMeansOwnData` is a conjunct because it is not inductive alone: that the cells
  belong to the build whose magic is about to be complete is known only from the list.
  Here `BuildsAreSane` is needed: a day of the month in BCD is neither 0 nor 255, so an
  EEPROM in the middle of its initialisation carries no build's magic, whichever
  firmware reads it next.
* `KeymapTypes`: whatever indices, offsets and lengths a host sends, no write leaves the
  EEPROM. The address arithmetic (`KeyAddress`, `EncoderAddress`: inside their region, and
  every cell of a region is a byte of some key or turn) is products of the sizes, which are not constants, and is
  proved in lemmas of its own. What the folds of `dynamic_keymap_reset` put together is
  shown by induction on the number of parts (`FlattenSeq`, in the form of a set closed
  under successor, as for the playback of the log).
* `ReadsBackAlways`, `OwnDataAlways`: consequences. `RegionsKept`: the action property.
* `MacroInvariant` proves `MacroInv`: the buffer is flagged or it is one whole buffer
  (`Whole`); during an upload the flag stays set and the bytes sent are in place
  (`Uploading`); only the last write of the last chunk clears the flag, when all others
  are in place (`Flagging`); a macro reset clears from the front (`Clearing`).
* `SendsWholeAlways`: from `Whole` to what the keys send. The search of
  `dynamic_keymap_macro_send` for the n-th string is a running count of zero bytes
  (`PassesCounts`, `FirstIsStart`); what follows is parsed by `SendString` on both sides
  of the equation, so the theorem says which bytes are parsed, and the parser itself is
  compared with nothing.

Only model-checked: liveness under fairness, which the prover does not handle
(`NoStuckKey`, `BottomedOutKeyReported`, `HeldKeyReported`, `RapidTriggerSettles`,
`AutosavePersists`, `HostCatchesUp`, `StartCompletes`). Every other property of a
passing run is stated by a theorem.

## 5. Not modelled

* USB, HID reports, layers and action processing: upstream QMK, not changed by
  this board; KeyboardTask stops at the events;
* the 2- and 8-byte formats of the write log, the split-keyboard and default-position
  parts of the encoder, VIA's EEPROM reset command: not built for this board;
* rgblight's animated effects (none is enabled), saturation and speed;
* GET handlers, console output, pin and clock configuration: no state.
* the reset of bootmagic: `bootmagic_should_reset` is overridden to decline always
  (its two scans are in HEMatrix); the two init paths after `keyboard_pre_init_kb` that would format
  (`quantum_init`, `via_init`) find the EEPROM enabled and do nothing.

## 6. Plan

Done: the pipeline, settings, lighting, mux and main loop; the store with its
refinement; keymap, encoder and clock; proofs of every safety property the runs check.
Left, in the order of what it would say about the system:

1. Composition of HEMatrix, HELight and MatrixTask over the shared calibration
   flag and raw matrix.
2. ViaKeymap over `EepromStore` instead of a byte array, so that a power failure
   inside a log entry reaches it as it does HEVia.
3. A reference for `SendString` (the sequences and delays of `send_string.c`).
