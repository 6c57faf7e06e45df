-------------------------------- MODULE Timer --------------------------------
(***************************************************************************)
(* The millisecond clock of platforms/chibios/timer.c, which every timeout *)
(* of the keyboard reads: the debounce, the auto-save window, the effects. *)
(*                                                                         *)
(* The system timer counts ticks and wraps.  A narrow timer is extended in *)
(* software (`overflow`, refreshed by a virtual timer); the extended count *)
(* wraps too and is then pulled back by a whole number of seconds.  The    *)
(* main thread reads the clock under a lock and converts outside of it; an *)
(* interrupt may read in between.                                          *)
(*                                                                         *)
(* `elapsed` and `base` are what a perfect clock knows: the ticks since    *)
(* the last clear or restore and the milliseconds it started from.         *)
(***************************************************************************)
EXTENDS Integers

CONSTANTS
    Range32,            \* 2^32
    TimerRanges,        \* 2^CH_CFG_ST_RESOLUTION of the builds considered
    CH_CFG_ST_FREQUENCY,
    MsPerSecond,        \* 1000
    ReadGap             \* bound: the clock is read at least this often (ticks)

\* The highest multiple of the frequency that fits.
OVERFLOW_ADJUST_TICKS ==
    ((Range32 - 1) \div CH_CFG_ST_FREQUENCY) * CH_CFG_ST_FREQUENCY

\* A gap of more than OVERFLOW_ADJUST_TICKS between two reads loses time.
ASSUME TimerConfig ==
    /\ Range32 \in Nat /\ CH_CFG_ST_FREQUENCY \in 1..(Range32 - 1)
    /\ MsPerSecond \in 1..CH_CFG_ST_FREQUENCY
    /\ \A r \in TimerRanges : r \in Nat /\ r % 2 = 0 /\ Range32 % r = 0
    /\ ReadGap \in 1..OVERFLOW_ADJUST_TICKS

VARIABLES
    range, systime,                         \* the hardware counter
    last_systime, overflow, armed,          \* its extension; ticks since chVTSet
    ticks_offset, last_ticks, ms_offset, saved_ms,
    read,                                   \* the main thread's read in progress
    gap,                                    \* ticks since the clock was last read
    elapsed, base

extension == <<last_systime, overflow>>
offsets   == <<ticks_offset, last_ticks, ms_offset>>
vars      == <<range, systime, extension, armed, offsets, saved_ms, read, gap,
               elapsed, base>>

TickCounts == 0..(Range32 - 1)
NoRead     == [busy |-> FALSE, ticks |-> 0, ms_offset |-> 0, exact |-> 0]

\* ChibiOS rounds an interval up to whole milliseconds.
TIME_I2MS(ticks) ==
    ((ticks * MsPerSecond + CH_CFG_ST_FREQUENCY - 1) \div CH_CFG_ST_FREQUENCY)
        % Range32

OVERFLOW_ADJUST_MS == TIME_I2MS(OVERFLOW_ADJUST_TICKS)

\* A perfect clock would show this.
Ideal == (base + (elapsed * MsPerSecond + CH_CFG_ST_FREQUENCY - 1)
                     \div CH_CFG_ST_FREQUENCY) % Range32

-----------------------------------------------------------------------------
(* get_system_time_ticks                                                   *)

Extended == range < Range32

NextOverflow ==
    IF Extended /\ systime < last_systime THEN (overflow + range) % Range32
                                          ELSE overflow

SystemTicks == (systime + NextOverflow) % Range32

GetSystemTimeTicks ==
    /\ overflow' = NextOverflow
    /\ last_systime' = IF Extended THEN systime ELSE last_systime

-----------------------------------------------------------------------------
(* timer_read32, the part under the lock                                   *)

Ticks   == (SystemTicks - ticks_offset) % Range32
Wrapped == Ticks < last_ticks

AdjustWholeRange == IF Wrapped THEN Range32 ELSE 0 \* mutant: not whole seconds

Adjust   == IF Wrapped THEN OVERFLOW_ADJUST_TICKS ELSE 0
AdjustMs == IF Wrapped THEN OVERFLOW_ADJUST_MS ELSE 0

NextTicks    == (Ticks - Adjust) % Range32
NextMsOffset == (ms_offset + AdjustMs) % Range32

LockedRead ==
    /\ GetSystemTimeTicks
    /\ ticks_offset' = (ticks_offset + Adjust) % Range32
    /\ ms_offset' = NextMsOffset
    /\ last_ticks' = NextTicks
    /\ gap' = 0

\* The value such a read returns.
ReadNow == (TIME_I2MS(NextTicks) + NextMsOffset) % Range32

-----------------------------------------------------------------------------
TypeOK ==
    /\ range \in TimerRanges /\ systime \in 0..(range - 1)
    /\ last_systime \in 0..(range - 1) /\ overflow \in TickCounts
    /\ armed \in 0..(range - 1)
    /\ {ticks_offset, last_ticks, ms_offset, saved_ms} \subseteq TickCounts
    /\ read \in [busy : BOOLEAN, ticks : TickCounts, ms_offset : TickCounts,
                 exact : TickCounts]
    /\ gap \in 0..ReadGap

\* timer_init, at any value of the hardware counter.
Init ==
    /\ range \in TimerRanges /\ systime \in 0..(range - 1)
    /\ last_systime = IF Extended THEN systime ELSE 0
    /\ overflow = 0 /\ armed = 0
    /\ ticks_offset = systime /\ last_ticks = 0 /\ ms_offset = 0
    /\ saved_ms = 0 /\ read = NoRead /\ gap = 0
    /\ elapsed = 0 /\ base = 0

\* Time passes.  Something reads the clock within ReadGap ticks, and interrupts
\* are never blocked for half the period of a narrow timer.
Tick ==
    /\ gap < ReadGap /\ gap' = gap + 1
    /\ armed' = IF Extended THEN armed + 1 ELSE armed
    /\ armed' < range
    /\ systime' = (systime + 1) % range
    /\ elapsed' = (elapsed + 1) % (Range32 * CH_CFG_ST_FREQUENCY)
    /\ UNCHANGED <<range, extension, offsets, saved_ms, read, base>>

UPDATE_INTERVAL == range \div 2

\* The virtual timer's callback, from its first possible moment on.
UpdateFn ==
    /\ Extended /\ armed >= UPDATE_INTERVAL
    /\ GetSystemTimeTicks
    /\ armed' = 0
    /\ UNCHANGED <<range, systime, offsets, saved_ms, read, gap, elapsed, base>>

\* timer_clear and timer_restore
StartFrom(ms) ==
    /\ ~read.busy
    /\ GetSystemTimeTicks
    /\ ticks_offset' = SystemTicks
    /\ last_ticks' = 0
    /\ ms_offset' = ms
    /\ gap' = 0 /\ elapsed' = 0 /\ base' = ms
    /\ UNCHANGED <<range, systime, armed, saved_ms, read>>

TimerClear   == StartFrom(0)
TimerRestore == StartFrom(saved_ms)

TimerSave ==
    /\ ~read.busy
    /\ LockedRead
    /\ saved_ms' = ReadNow
    /\ UNCHANGED <<range, systime, armed, read, elapsed, base>>

\* The main thread takes its copies and leaves the lock.
ReadBegin ==
    /\ ~read.busy
    /\ LockedRead
    /\ read' = [busy |-> TRUE, ticks |-> NextTicks, ms_offset |-> NextMsOffset,
                exact |-> Ideal]
    /\ UNCHANGED <<range, systime, armed, saved_ms, elapsed, base>>

ReadingUncopied == \* mutant: the offset is read after the unlock
    (TIME_I2MS(read.ticks) + ms_offset) % Range32

\* What timer_read32 returns to the main thread.
Reading == (TIME_I2MS(read.ticks) + read.ms_offset) % Range32

ReadEnd ==
    /\ read.busy /\ read' = NoRead
    /\ UNCHANGED <<range, systime, extension, armed, offsets, saved_ms, gap,
                   elapsed, base>>

\* A read from an interrupt, at any moment outside the lock.
InterruptRead ==
    /\ LockedRead
    /\ UNCHANGED <<range, systime, armed, saved_ms, read, elapsed, base>>

Next ==
    \/ Tick \/ UpdateFn
    \/ TimerClear \/ TimerRestore \/ TimerSave
    \/ ReadBegin \/ ReadEnd \/ InterruptRead

Spec == Init /\ [][Next]_vars

-----------------------------------------------------------------------------
(* Properties.                                                             *)

\* However often the counters have wrapped, and at whatever moments the clock
\* was read, cleared, saved and restored, a read at this moment returns the
\* time of a perfect millisecond clock, rounded up, modulo 2^32.
ClockExact == ReadNow = Ideal

\* "read while still holding the lock to ensure a consistent value": a read
\* that an interrupt's read overtakes after the unlock still returns the time
\* at which it held the lock, also when that other read handled a wrap.
PreemptedReadExact == read.busy => Reading = read.exact
=============================================================================
