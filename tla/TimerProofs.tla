----------------------------- MODULE TimerProofs -----------------------------
(***************************************************************************)
(* Proofs about the millisecond clock, for any width of the counters, any  *)
(* tick frequency and any gap between two reads within the assumption.     *)
(* The counters are compared modulo 2^32: Cong says that two numbers are   *)
(* the same count.                                                         *)
(***************************************************************************)
EXTENDS Timer, TLAPS

-----------------------------------------------------------------------------
(* Arithmetic modulo Range32.                                              *)

Cong(a, b) == \E z \in Int : a = b + z * Range32

\* The constants are positive numbers.
LEMMA TimerConstants ==
    /\ Range32 \in Nat /\ Range32 > 1 /\ CH_CFG_ST_FREQUENCY \in Nat \ {0}
    /\ MsPerSecond \in Nat \ {0}
BY TimerConfig

\* A multiple that is smaller than the modulus in size is zero.
LEMMA SmallMultiple ==
    ASSUME NEW z \in Int, NEW b \in Nat \ {0}, z * b < b, -b < z * b
    PROVE  z = 0
<1>1. CASE z >= 1
  <2>1. (z - 1) * b >= 0
    BY <1>1
  <2>2. (z - 1) * b = z * b - b
    OBVIOUS
  <2> QED BY <2>1, <2>2
<1>2. CASE z <= -1
  <2>1. (-1 - z) * b >= 0
    BY <1>2
  <2>2. (-1 - z) * b = -b - z * b
    OBVIOUS
  <2> QED BY <2>1, <2>2
<1> QED BY <1>1, <1>2

\* Division with remainder.
LEMMA DivMod ==
    ASSUME NEW a \in Int, NEW b \in Nat \ {0}
    PROVE  /\ a \div b \in Int /\ a % b \in 0..(b - 1)
           /\ a = (a \div b) * b + (a % b)
OBVIOUS

\* Quotient and remainder are unique.
LEMMA DivUnique ==
    ASSUME NEW a \in Int, NEW b \in Nat \ {0}, NEW q \in Int, NEW r \in 0..(b - 1),
           a = q * b + r
    PROVE  a \div b = q /\ a % b = r
<1> DEFINE p == a \div b
           t == a % b
           z == p - q
<1>1. p \in Int /\ t \in 0..(b - 1) /\ a = p * b + t
  BY DivMod
<1> HIDE DEF p, t
<1>2. z \in Int /\ z * b = p * b - q * b
  BY <1>1
<1>3. z * b = r - t
  BY <1>1, <1>2
<1>4. z = 0
  <2> HIDE DEF z
  <2>1. z * b < b /\ -b < z * b
    BY <1>1, <1>3
  <2> QED BY <1>2, <2>1, SmallMultiple
<1>5. p = q
  BY <1>1, <1>4
<1>6. t = r
  BY <1>1, <1>5
<1> QED BY <1>5, <1>6 DEF p, t

\* Whole multiples of the divisor come out of a quotient.
LEMMA DivShift ==
    ASSUME NEW a \in Int, NEW q \in Int, NEW b \in Nat \ {0}
    PROVE  (a + q * b) \div b = a \div b + q
<1> DEFINE p == a \div b
           r == a % b
<1>1. p \in Int /\ r \in 0..(b - 1) /\ a = p * b + r
  BY DivMod
<1> HIDE DEF p, r
<1>2. (p + q) * b = p * b + q * b
  BY <1>1
<1>3. a + q * b = (p + q) * b + r
  BY <1>1, <1>2
<1>4. (a + q * b) \div b = p + q
  <2> DEFINE x == a + q * b
             y == p + q
  <2>1. x \in Int /\ y \in Int /\ x = y * b + r
    BY <1>1, <1>3
  <2> HIDE DEF x, y
  <2>2. x \div b = y
    BY <1>1, <2>1, DivUnique
  <2> QED BY <2>2 DEF x, y
<1> QED BY <1>4 DEF p

\* Congruence is an equivalence that addition respects.
LEMMA CongRules ==
    ASSUME NEW a \in Int, NEW b \in Int
    PROVE  /\ Cong(a, a)
           /\ Cong(a, b) => Cong(b, a)
           /\ \A c \in Int : Cong(a, b) /\ Cong(b, c) => Cong(a, c)
           /\ \A c, d \in Int : Cong(a, b) /\ Cong(c, d) =>
                                   Cong(a + c, b + d) /\ Cong(a - c, b - d)
<1>0. Range32 \in Int
  BY TimerConstants
<1>1. Cong(a, a)
  <2>1. a = a + 0 * Range32
    BY <1>0
  <2> QED BY <2>1 DEF Cong
<1>2. ASSUME Cong(a, b) PROVE Cong(b, a)
  <2>1. PICK z \in Int : a = b + z * Range32
    BY <1>2 DEF Cong
  <2>2. b = a + (-z) * Range32
    BY <1>0, <2>1
  <2> QED BY <2>2 DEF Cong
<1>3. ASSUME NEW c \in Int, Cong(a, b), Cong(b, c) PROVE Cong(a, c)
  <2>1. PICK z \in Int : a = b + z * Range32
    BY <1>3 DEF Cong
  <2>2. PICK y \in Int : b = c + y * Range32
    BY <1>3 DEF Cong
  <2>3. a = c + (z + y) * Range32
    BY <1>0, <2>1, <2>2
  <2> QED BY <2>3 DEF Cong
<1>4. ASSUME NEW c \in Int, NEW d \in Int, Cong(a, b), Cong(c, d)
      PROVE  Cong(a + c, b + d) /\ Cong(a - c, b - d)
  <2>1. PICK z \in Int : a = b + z * Range32
    BY <1>4 DEF Cong
  <2>2. PICK y \in Int : c = d + y * Range32
    BY <1>4 DEF Cong
  <2>3. a + c = (b + d) + (z + y) * Range32
    BY <1>0, <2>1, <2>2
  <2>4. a - c = (b - d) + (z - y) * Range32
    BY <1>0, <2>1, <2>2
  <2> QED BY <2>3, <2>4 DEF Cong
<1> QED BY <1>1, <1>2, <1>3, <1>4

\* Reducing modulo Range32 does not change the count.
LEMMA ModCong ==
    ASSUME NEW a \in Int
    PROVE  a % Range32 \in TickCounts /\ Cong(a % Range32, a)
<1> DEFINE q == a \div Range32
           r == a % Range32
<1>1. Range32 \in Nat \ {0}
  BY TimerConstants
<1>2. q \in Int /\ r \in 0..(Range32 - 1) /\ a = q * Range32 + r
  BY <1>1, DivMod
<1> HIDE DEF q, r
<1>3. r = a + (-q) * Range32
  BY <1>1, <1>2
<1>4. Cong(r, a)
  BY <1>2, <1>3 DEF Cong
<1> QED BY <1>2, <1>4 DEF r, TickCounts

\* Two counts in range that are congruent are equal.
LEMMA CongUnique ==
    ASSUME NEW a \in TickCounts, NEW b \in TickCounts, Cong(a, b)
    PROVE  a = b
<1>1. Range32 \in Nat \ {0} /\ a \in 0..(Range32 - 1) /\ b \in 0..(Range32 - 1)
  BY TimerConstants DEF TickCounts
<1>2. PICK z \in Int : a = b + z * Range32
  BY DEF Cong
<1>3. z * Range32 < Range32 /\ -Range32 < z * Range32
  BY <1>1, <1>2
<1>4. z = 0
  BY <1>1, <1>3, SmallMultiple
<1> QED BY <1>1, <1>2, <1>4

\* Congruent numbers have the same remainder.
LEMMA CongMod ==
    ASSUME NEW a \in Int, NEW b \in Int, Cong(a, b)
    PROVE  a % Range32 = b % Range32
<1> DEFINE x == a % Range32
           y == b % Range32
<1>1. x \in TickCounts /\ y \in TickCounts /\ Cong(x, a) /\ Cong(y, b)
  BY ModCong
<1>2. TickCounts \subseteq Int
  BY TimerConstants DEF TickCounts
<1> HIDE DEF x, y
<1>3. Cong(x, b) /\ Cong(b, y)
  BY <1>1, <1>2, CongRules
<1>4. Cong(x, y)
  BY <1>1, <1>2, <1>3, CongRules
<1>5. x = y
  BY <1>1, <1>4, CongUnique
<1> QED BY <1>5 DEF x, y

-----------------------------------------------------------------------------
(* Ticks and milliseconds.                                                 *)

\* The milliseconds of an interval, rounded up, before they are cut to 32 bits.
Ms(ticks) ==
    (ticks * MsPerSecond + CH_CFG_ST_FREQUENCY - 1) \div CH_CFG_ST_FREQUENCY

\* An interval is a number of milliseconds.
LEMMA MsType ==
    ASSUME NEW t \in Int
    PROVE  /\ Ms(t) \in Int /\ TIME_I2MS(t) = Ms(t) % Range32
           /\ TIME_I2MS(t) \in TickCounts /\ Cong(TIME_I2MS(t), Ms(t))
<1> DEFINE a == t * MsPerSecond + CH_CFG_ST_FREQUENCY - 1
<1>1. a \in Int /\ CH_CFG_ST_FREQUENCY \in Nat \ {0}
  BY TimerConstants
<1>2. Ms(t) \in Int
  <2> HIDE DEF a
  <2>1. a \div CH_CFG_ST_FREQUENCY \in Int
    BY <1>1, DivMod
  <2> QED BY <2>1 DEF Ms, a
<1>3. TIME_I2MS(t) = Ms(t) % Range32
  BY DEF TIME_I2MS, Ms
<1> QED BY <1>2, <1>3, ModCong

\* Whole seconds come out of the rounding.
LEMMA MsSeconds ==
    ASSUME NEW t \in Int, NEW k \in Int
    PROVE  Ms(t + k * CH_CFG_ST_FREQUENCY) = Ms(t) + k * MsPerSecond
<1> DEFINE F == CH_CFG_ST_FREQUENCY
           M == MsPerSecond
           a == t * M + F - 1
<1>1. F \in Nat \ {0} /\ M \in Nat \ {0} /\ a \in Int /\ k * M \in Int
  BY TimerConstants
<1>2. (t + k * F) * M = t * M + (k * M) * F
  <2> HIDE DEF F, M
  <2> QED BY <1>1
<1>3. (t + k * F) * M + F - 1 = a + (k * M) * F
  <2>1. (t + k * F) * M \in Int /\ t * M \in Int /\ (k * M) * F \in Int
    BY <1>1
  <2> DEFINE x == (t + k * F) * M
             y == t * M
             w == (k * M) * F
  <2>2. x = y + w /\ x \in Int /\ y \in Int /\ w \in Int
    BY <1>2, <2>1
  <2>3. a = y + F - 1
    OBVIOUS
  <2> HIDE DEF x, y, w, a, F
  <2>4. x + F - 1 = a + w
    BY <1>1, <2>2, <2>3
  <2> QED BY <2>4 DEF x, w, F
<1>4. (a + (k * M) * F) \div F = a \div F + k * M
  <2> DEFINE q == k * M
  <2>1. q \in Int
    BY <1>1
  <2> HIDE DEF q, F, a
  <2>2. (a + q * F) \div F = a \div F + q
    BY <1>1, <2>1, DivShift
  <2> QED BY <2>2 DEF q
<1> QED BY <1>3, <1>4 DEF Ms

\* OVERFLOW_ADJUST_TICKS is a whole number of seconds below 2^32 ticks, and
\* OVERFLOW_ADJUST_MS the same seconds.
LEMMA AdjustSeconds ==
    \E k \in Int : /\ OVERFLOW_ADJUST_TICKS = k * CH_CFG_ST_FREQUENCY
                   /\ OVERFLOW_ADJUST_TICKS \in 1..(Range32 - 1)
                   /\ Cong(OVERFLOW_ADJUST_MS, k * MsPerSecond)
<1> DEFINE F == CH_CFG_ST_FREQUENCY
           R == Range32
           k == (R - 1) \div F
<1>1. F \in Nat \ {0} /\ R \in Nat /\ R > 1 /\ MsPerSecond \in Int
  BY TimerConstants
<1>2. k \in Int /\ (R - 1) % F \in 0..(F - 1) /\ R - 1 = k * F + ((R - 1) % F)
  <2> DEFINE a == R - 1
  <2>1. a \in Int
    BY <1>1
  <2> HIDE DEF a, F, R
  <2>2. a \div F \in Int /\ a % F \in 0..(F - 1) /\ a = (a \div F) * F + (a % F)
    BY <1>1, <2>1, DivMod
  <2> QED BY <2>2 DEF a
<1>3. OVERFLOW_ADJUST_TICKS = k * F
  BY DEF OVERFLOW_ADJUST_TICKS
<1>4. OVERFLOW_ADJUST_TICKS \in 1..(R - 1)
  <2>1. k * F <= R - 1
    <3> DEFINE r == (R - 1) % F
               p == k * F
    <3>1. p \in Int /\ r \in 0..(F - 1) /\ R - 1 = p + r
      BY <1>1, <1>2
    <3> HIDE DEF r, p, R, F
    <3>2. p <= R - 1
      BY <1>1, <3>1
    <3> QED BY <3>2 DEF p
  <2>2. k * F \in Int
    BY <1>1, <1>2
  <2>3. ReadGap \in 1..OVERFLOW_ADJUST_TICKS
    BY TimerConfig
  <2> HIDE DEF k, F, R
  <2> QED BY <1>1, <1>3, <2>1, <2>2, <2>3
<1>5. Ms(0) = 0
  <2>1. Ms(0) = (F - 1) \div F
    BY <1>1 DEF Ms
  <2> HIDE DEF F
  <2>2. F - 1 = 0 * F + (F - 1) /\ F - 1 \in 0..(F - 1)
    BY <1>1
  <2>3. (F - 1) \div F = 0
    BY <1>1, <2>2, DivUnique
  <2> QED BY <2>1, <2>3
<1>6. Ms(k * F) = k * MsPerSecond
  <2>1. k * F = 0 + k * F /\ k * MsPerSecond \in Int
    BY <1>1, <1>2
  <2> HIDE DEF k
  <2> QED BY <1>1, <1>2, <1>5, <2>1, MsSeconds
<1>7. Cong(OVERFLOW_ADJUST_MS, k * MsPerSecond)
  <2>1. k * F \in Int
    BY <1>1, <1>2
  <2> HIDE DEF k
  <2> QED BY <1>3, <1>6, <2>1, MsType DEF OVERFLOW_ADJUST_MS
<1> QED BY <1>2, <1>3, <1>4, <1>7

-----------------------------------------------------------------------------
(* The invariant.                                                          *)

TimerTypes ==
    /\ range \in TimerRanges /\ range \in Nat \ {0}
    /\ systime \in 0..(range - 1) /\ last_systime \in 0..(range - 1)
    /\ overflow \in TickCounts /\ armed \in 0..(range - 1)
    /\ ticks_offset \in TickCounts /\ last_ticks \in TickCounts
    /\ ms_offset \in TickCounts /\ saved_ms \in TickCounts
    /\ gap \in 0..ReadGap
    /\ elapsed \in 0..(Range32 * CH_CFG_ST_FREQUENCY - 1) /\ base \in TickCounts

\* The narrow counter has moved on by x ticks since last_systime, less than one
\* round: a wrap shows as systime < last_systime.
Behind(x) == systime = last_systime + x \/ systime = last_systime + x - range

NoRoundMissed == Extended => \E x \in 0..armed : Behind(x)

\* The extended counter has moved on by gap since the last read.
CountInv == Cong(SystemTicks, ticks_offset + last_ticks + gap)

\* The ticks not in last_ticks are whole seconds, and ms_offset has them.
TimeInv ==
    \E k \in Int : /\ elapsed = last_ticks + gap + k * CH_CFG_ST_FREQUENCY
                   /\ Cong(ms_offset, base + k * MsPerSecond)

TimerInv == TimerTypes /\ NoRoundMissed /\ CountInv /\ TimeInv

\* A timer is no wider than 32 bits.
LEMMA RangeFits ==
    ASSUME NEW r \in TimerRanges, r # 0
    PROVE  r \in 1..Range32
<1>1. r \in Nat \ {0} /\ Range32 % r = 0
  BY TimerConfig
<1>2. CASE r > Range32
  <2>1. Range32 = 0 * r + Range32 /\ Range32 \in 0..(r - 1)
    BY <1>1, <1>2, TimerConstants
  <2>2. Range32 % r = Range32
    BY <1>1, <2>1, TimerConstants, DivUnique
  <2> QED BY <1>1, <2>2, TimerConstants
<1> QED BY <1>1, <1>2, TimerConstants

\* A timer that is not extended in software has the full width.
LEMMA FullWidth ==
    ASSUME TimerTypes, ~Extended
    PROVE  range = Range32
BY RangeFits, TimerConstants DEF TimerTypes, Extended

\* What the variables of the counters are, as integers.
LEMMA TimerInts ==
    ASSUME TimerTypes
    PROVE  /\ NextOverflow \in TickCounts /\ SystemTicks \in TickCounts
           /\ TickCounts \subseteq Int /\ Range32 \in Int
           /\ {systime, last_systime, overflow, ticks_offset, last_ticks,
               ms_offset, gap, base, elapsed} \subseteq Int
           /\ Cong(SystemTicks, systime + NextOverflow)
<1>1. TickCounts \subseteq Int /\ Range32 \in Int
  BY TimerConstants DEF TickCounts
<1>2. /\ {systime, last_systime, overflow, ticks_offset, last_ticks,
          ms_offset, base} \subseteq Int
  BY <1>1 DEF TimerTypes
<1>3. gap \in Int /\ elapsed \in Int
  BY TimerConstants DEF TimerTypes
<1>4. NextOverflow \in TickCounts
  <2>1. overflow + range \in Int
    BY <1>2 DEF TimerTypes
  <2>2. (overflow + range) % Range32 \in TickCounts
    BY <2>1, ModCong
  <2> QED BY <2>2 DEF NextOverflow, TimerTypes
<1>5. systime + NextOverflow \in Int
  BY <1>1, <1>2, <1>4
<1> QED BY <1>1, <1>2, <1>3, <1>4, <1>5, ModCong DEF SystemTicks

\* The extension shows the counter without its wraps: a counter that is x ticks,
\* less than a round, past its last reading `last`.
LEMMA ExtendedCount ==
    ASSUME NEW r \in Nat \ {0}, NEW sys \in 0..(r - 1), NEW last \in 0..(r - 1),
           NEW o \in Int, NEW x \in 0..(r - 1), NEW n,
           sys = last + x \/ sys = last + x - r,
           n = IF sys < last THEN (o + r) % Range32 ELSE o
    PROVE  Cong((sys + n) % Range32, last + x + o)
<1>1. CASE sys = last + x
  <2>1. n = o
    BY <1>1
  <2>2. sys + n = last + x + o /\ sys + n \in Int
    BY <1>1, <2>1
  <2>3. Cong((sys + n) % Range32, sys + n)
    BY <2>2, ModCong
  <2> QED BY <2>2, <2>3
<1>2. CASE sys # last + x
  <2>1. sys = last + x - r /\ sys < last
    BY <1>2
  <2>2. n = (o + r) % Range32 /\ o + r \in Int
    BY <2>1
  <2>3. n \in Int /\ Cong(n, o + r)
    BY <2>2, ModCong, TimerConstants DEF TickCounts
  <2>4. Cong(sys + n, sys + (o + r))
    <3>1. Cong(sys, sys) /\ sys \in Int
      BY CongRules
    <3> QED BY <2>2, <2>3, <3>1, CongRules
  <2>5. /\ sys + (o + r) = last + x + o /\ sys + n \in Int
        /\ last + x + o \in Int
    BY <2>1, <2>3
  <2> DEFINE a == sys + n
             b == last + x + o
  <2>6. a \in Int /\ b \in Int /\ Cong(a, b)
    BY <2>4, <2>5
  <2> HIDE DEF a, b
  <2>7. a % Range32 \in Int /\ Cong(a % Range32, a)
    BY <2>6, ModCong, TimerConstants DEF TickCounts
  <2>8. Cong(a % Range32, b)
    BY <2>6, <2>7, CongRules
  <2> QED BY <2>8 DEF a, b
<1> QED BY <1>1, <1>2

\* Reading the extended counter moves the reference, not the count.
LEMMA ReadKeepsCount ==
    ASSUME TimerTypes, GetSystemTimeTicks, UNCHANGED <<range, systime>>
    PROVE  /\ last_systime' \in 0..(range - 1) /\ overflow' \in TickCounts
           /\ SystemTicks' = SystemTicks
           /\ Extended' => Behind(0)'
<1>1. /\ systime \in 0..(range - 1) /\ last_systime \in 0..(range - 1)
      /\ range \in Nat \ {0} /\ NextOverflow \in TickCounts
  BY TimerInts DEF TimerTypes
<1>2. /\ last_systime' \in 0..(range - 1) /\ overflow' \in TickCounts
  BY <1>1 DEF GetSystemTimeTicks
<1>3. NextOverflow' = NextOverflow
  BY <1>1 DEF GetSystemTimeTicks, NextOverflow, Extended
<1>4. Extended' => Behind(0)'
  BY <1>1 DEF GetSystemTimeTicks, Extended, Behind
<1> QED BY <1>2, <1>3, <1>4 DEF SystemTicks

-----------------------------------------------------------------------------
(* What a read computes.                                                   *)

\* The subtraction sees the ticks since the reference, and Wrapped exactly when
\* they passed 2^32; the pull-back leaves a count that a later read can test.
LEMMA TicksRead ==
    ASSUME TimerInv
    PROVE  /\ Wrapped <=> last_ticks + gap >= Range32
           /\ NextTicks = last_ticks + gap - Adjust
           /\ NextTicks \in TickCounts /\ Adjust \in Int
<1> DEFINE A == OVERFLOW_ADJUST_TICKS
           u == last_ticks + gap
<1>1. TimerTypes /\ CountInv
  BY DEF TimerInv
<1>2. /\ Range32 \in Int /\ Range32 > 1 /\ last_ticks \in 0..(Range32 - 1)
      /\ ticks_offset \in Int /\ SystemTicks \in Int
  BY <1>1, TimerInts, TimerConstants DEF TimerTypes, TickCounts
<1>3. A \in 1..(Range32 - 1) /\ ReadGap \in 1..A
  BY AdjustSeconds, TimerConfig
<1>4. gap \in 0..A
  <2> HIDE DEF A
  <2> QED BY <1>1, <1>2, <1>3 DEF TimerTypes
<1>5. A \in Int /\ u \in Int
  <2> HIDE DEF A
  <2> QED BY <1>2, <1>3, <1>4
<1>6. Ticks \in TickCounts /\ Cong(Ticks, u)
  <2>1. SystemTicks - ticks_offset \in Int
    BY <1>2
  <2>2. Ticks \in TickCounts /\ Cong(Ticks, SystemTicks - ticks_offset)
    BY <2>1, ModCong DEF Ticks
  <2>3. Cong(ticks_offset, ticks_offset)
    BY <1>2, CongRules
  <2>4. ticks_offset + last_ticks + gap \in Int /\ Ticks \in Int
    BY <1>2, <1>5, <2>2, TimerInts, <1>1
  <2>5. Cong(SystemTicks - ticks_offset, (ticks_offset + last_ticks + gap) - ticks_offset)
    BY <1>1, <1>2, <2>3, <2>4, CongRules DEF CountInv
  <2>6. (ticks_offset + last_ticks + gap) - ticks_offset = u
    <3> HIDE DEF A
    <3> QED BY <1>2, <1>3, <1>4
  <2>7. Cong(SystemTicks - ticks_offset, u)
    BY <2>5, <2>6
  <2> HIDE DEF u
  <2> QED BY <1>5, <2>1, <2>2, <2>4, <2>7, CongRules
<1> HIDE DEF A
<1>7. CASE u < Range32
  <2>1. u \in TickCounts
    BY <1>2, <1>3, <1>4, <1>7 DEF TickCounts
  <2>2. Ticks = u
    <3> HIDE DEF u
    <3> QED BY <1>6, <2>1, CongUnique
  <2>3. ~Wrapped
    BY <1>2, <1>3, <1>4, <2>2 DEF Wrapped
  <2>4. Adjust = 0
    BY <2>3 DEF Adjust
  <2>5. NextTicks = u
    <3>1. Ticks - Adjust = u
      BY <1>5, <2>2, <2>4
    <3>2. u = 0 * Range32 + u /\ u \in 0..(Range32 - 1) /\ Range32 \in Nat \ {0}
      BY <1>2, <1>5, <2>1 DEF TickCounts
    <3> HIDE DEF u
    <3> QED BY <1>5, <3>1, <3>2, DivUnique DEF NextTicks
  <2>6. ~(last_ticks + gap >= Range32)
    BY <1>2, <1>5, <1>7
  <2>7. NextTicks = last_ticks + gap - Adjust /\ NextTicks \in TickCounts
        /\ Adjust \in Int
    BY <1>2, <1>3, <1>4, <2>1, <2>4, <2>5
  <2> QED BY <2>3, <2>6, <2>7, Zenon
<1>8. CASE u >= Range32
  <2> DEFINE v == u - Range32
             w == u - A
  <2>1. v \in TickCounts /\ v < last_ticks
    BY <1>2, <1>3, <1>4, <1>8 DEF TickCounts
  <2>2. Ticks = v
    <3>1. v = u + (-1) * Range32
      BY <1>2, <1>5
    <3>2. Cong(v, u)
      BY <3>1 DEF Cong
    <3>3. Ticks \in Int /\ v \in Int
      BY <1>2, <1>6, <2>1 DEF TickCounts
    <3> HIDE DEF u, v
    <3>4. Cong(Ticks, v)
      BY <1>5, <1>6, <3>2, <3>3, CongRules
    <3> QED BY <1>6, <2>1, <3>4, CongUnique
  <2>3. Wrapped
    BY <2>1, <2>2 DEF Wrapped
  <2>4. Adjust = A
    BY <2>3 DEF Adjust, A
  <2>5. w \in 0..(Range32 - 1) /\ v - A = (-1) * Range32 + w
    BY <1>2, <1>3, <1>4, <1>8
  <2>6. NextTicks = w
    <3>1. v - A \in Int /\ Range32 \in Nat \ {0} /\ -1 \in Int
      BY <1>2, <1>5
    <3> DEFINE y == v - A
    <3>2. y \in Int /\ y = (-1) * Range32 + w /\ Ticks - Adjust = y
      BY <2>2, <2>4, <2>5, <3>1
    <3> HIDE DEF v, w, y
    <3>3. y % Range32 = w
      BY <2>5, <3>1, <3>2, DivUnique
    <3> QED BY <3>2, <3>3 DEF NextTicks
  <2>7. last_ticks + gap >= Range32
    BY <1>8
  <2>8. NextTicks = last_ticks + gap - Adjust /\ NextTicks \in TickCounts
        /\ Adjust \in Int
    BY <1>2, <1>3, <1>4, <2>4, <2>5, <2>6 DEF TickCounts
  <2> QED BY <2>3, <2>7, <2>8, Zenon
<1> QED BY <1>2, <1>5, <1>7, <1>8

\* After the pull-back the time is still split into ticks and whole seconds.
LEMMA TimeRead ==
    ASSUME TimerInv
    PROVE  /\ NextMsOffset \in TickCounts
           /\ \E k \in Int : /\ elapsed = NextTicks + k * CH_CFG_ST_FREQUENCY
                             /\ Cong(NextMsOffset, base + k * MsPerSecond)
<1> DEFINE F == CH_CFG_ST_FREQUENCY
           M == MsPerSecond
<1>1. TimerTypes
  BY DEF TimerInv
<1>2. /\ last_ticks \in Int /\ gap \in Int /\ base \in Int /\ ms_offset \in Int
      /\ elapsed \in Int /\ F \in Int /\ M \in Int /\ TickCounts \subseteq Int
  BY <1>1, TimerInts, TimerConstants
<1>3. PICK k \in Int : elapsed = last_ticks + gap + k * F /\ Cong(ms_offset, base + k * M)
  BY DEF TimerInv, TimeInv
<1>4. PICK j \in Int : OVERFLOW_ADJUST_TICKS = j * F /\ Cong(OVERFLOW_ADJUST_MS, j * M)
  BY AdjustSeconds
<1>5. OVERFLOW_ADJUST_TICKS \in Int /\ OVERFLOW_ADJUST_MS \in Int
  <2>1. OVERFLOW_ADJUST_TICKS \in Int
    BY <1>2, <1>4
  <2> QED BY <1>2, <2>1, MsType DEF OVERFLOW_ADJUST_MS
<1>6. k * F \in Int /\ k * M \in Int /\ j * F \in Int /\ j * M \in Int
  BY <1>2
<1> DEFINE m == ms_offset + AdjustMs
<1>7. m \in Int /\ NextMsOffset = m % Range32
  BY <1>2, <1>5 DEF AdjustMs, NextMsOffset
<1>8. NextMsOffset \in TickCounts /\ Cong(NextMsOffset, m)
  <2> HIDE DEF m
  <2> QED BY <1>7, ModCong
<1>9. CASE Wrapped
  <2>1. /\ NextTicks = last_ticks + gap - j * F /\ m = ms_offset + OVERFLOW_ADJUST_MS
    BY <1>4, <1>9, TicksRead DEF Adjust, AdjustMs
  <2>2. (k + j) * F = k * F + j * F /\ (k + j) * M = k * M + j * M
    BY <1>2
  <2>3. elapsed = NextTicks + (k + j) * F
    BY <1>2, <1>3, <1>6, <2>1, <2>2
  <2>4. Cong(m, (base + k * M) + j * M)
    <3>1. base + k * M \in Int
      BY <1>2, <1>6
    <3> DEFINE p == base + k * M
               q == j * M
    <3>2. p \in Int /\ q \in Int /\ Cong(ms_offset, p) /\ Cong(OVERFLOW_ADJUST_MS, q)
      BY <1>3, <1>4, <1>6, <3>1
    <3> HIDE DEF p, q
    <3>3. Cong(ms_offset + OVERFLOW_ADJUST_MS, p + q)
      BY <1>2, <1>5, <3>2, CongRules
    <3> QED BY <2>1, <3>3 DEF p, q
  <2>5. (base + k * M) + j * M = base + (k + j) * M /\ base + (k + j) * M \in Int
    BY <1>2, <1>6, <2>2
  <2>6. Cong(NextMsOffset, base + (k + j) * M)
    <3> DEFINE p == base + (k + j) * M
    <3>1. p \in Int /\ Cong(m, p)
      BY <2>4, <2>5
    <3> HIDE DEF p, m
    <3>2. Cong(NextMsOffset, p)
      BY <1>2, <1>7, <1>8, <3>1, CongRules
    <3> QED BY <3>2 DEF p
  <2>7. k + j \in Int
    OBVIOUS
  <2> QED BY <1>8, <2>3, <2>6, <2>7
<1>10. CASE ~Wrapped
  <2>1. NextTicks = last_ticks + gap /\ m = ms_offset
    BY <1>2, <1>10, TicksRead DEF Adjust, AdjustMs
  <2>2. base + k * M \in Int
    BY <1>2, <1>6
  <2>3. Cong(NextMsOffset, base + k * M)
    <3> DEFINE p == base + k * M
    <3>1. p \in Int /\ Cong(m, p)
      BY <1>3, <2>1, <2>2
    <3> HIDE DEF p, m
    <3>2. Cong(NextMsOffset, p)
      BY <1>2, <1>7, <1>8, <3>1, CongRules
    <3> QED BY <3>2 DEF p
  <2> QED BY <1>3, <1>8, <2>1, <2>3
<1> QED BY <1>9, <1>10

-----------------------------------------------------------------------------
(* The steps.                                                              *)

\* A counter that moves on by one, modulo its range.
LEMMA CountUp ==
    ASSUME NEW b \in Nat \ {0}, NEW a \in 0..(b - 1)
    PROVE  (a + 1) % b = IF a + 1 = b THEN 0 ELSE a + 1
<1>1. CASE a + 1 = b
  <2>1. a + 1 = 1 * b + 0 /\ 0 \in 0..(b - 1) /\ a + 1 \in Int
    BY <1>1
  <2>2. (a + 1) % b = 0
    BY <2>1, DivUnique
  <2> QED BY <1>1, <2>2
<1>2. CASE a + 1 # b
  <2>1. a + 1 = 0 * b + (a + 1) /\ a + 1 \in 0..(b - 1) /\ a + 1 \in Int
    BY <1>2
  <2>2. (a + 1) % b = a + 1
    BY <2>1, DivUnique
  <2> QED BY <1>2, <2>2
<1> QED BY <1>1, <1>2

\* A tick moves the hardware counter, and the extension sees no missed round.
LEMMA TickCounter ==
    ASSUME TimerTypes, NoRoundMissed, Tick
    PROVE  /\ systime' \in 0..(range - 1) /\ armed' \in 0..(range - 1)
           /\ NoRoundMissed'
           /\ Cong(SystemTicks', SystemTicks + 1)
<1>1. /\ range \in Nat \ {0} /\ systime \in 0..(range - 1)
      /\ last_systime \in 0..(range - 1) /\ armed \in 0..(range - 1)
      /\ overflow \in Int /\ SystemTicks \in Int /\ NextOverflow \in Int
  BY TimerInts DEF TimerTypes
<1>2. /\ range' = range /\ last_systime' = last_systime /\ overflow' = overflow
      /\ armed' < range /\ (Extended' <=> Extended)
  BY DEF Tick, extension, Extended
<1>3. systime' = IF systime + 1 = range THEN 0 ELSE systime + 1
  BY <1>1, CountUp DEF Tick
<1>4. systime' \in 0..(range - 1)
  BY <1>1, <1>3
<1>5. armed' \in 0..(range - 1) /\ (Extended => armed' = armed + 1)
  BY <1>1, <1>2 DEF Tick
<1>6. SystemTicks' \in Int
  <2>1. NextOverflow' \in Int
    <3>1. overflow + range \in Int
      BY <1>1
    <3>2. (overflow + range) % Range32 \in Int
      BY <3>1, ModCong, TimerConstants DEF TickCounts
    <3> QED BY <1>1, <1>2, <3>2 DEF NextOverflow
  <2>2. systime' + NextOverflow' \in Int
    BY <1>1, <1>4, <2>1
  <2>3. (systime' + NextOverflow') % Range32 \in Int
    BY <2>2, ModCong, TimerConstants DEF TickCounts
  <2> QED BY <2>3 DEF SystemTicks
<1>7. CASE Extended
  <2>1. PICK x \in 0..armed : Behind(x)
    BY <1>7 DEF NoRoundMissed
  <2>2. /\ x \in 0..(range - 1) /\ x + 1 \in 0..(range - 1)
        /\ x + 1 \in 0..armed'
    BY <1>1, <1>2, <1>5, <1>7
  <2>3. Behind(x + 1)'
    BY <1>1, <1>2, <1>3, <2>1, <2>2 DEF Behind
  <2>4. NoRoundMissed'
    BY <2>2, <2>3 DEF NoRoundMissed
  <2>5. Cong(SystemTicks, last_systime + x + overflow)
    <3>1. systime = last_systime + x \/ systime = last_systime + x - range
      BY <2>1 DEF Behind
    <3>2. NextOverflow = IF systime < last_systime THEN (overflow + range) % Range32
                         ELSE overflow
      BY <1>7 DEF NextOverflow
    <3> QED BY <1>1, <2>2, <3>1, <3>2, ExtendedCount DEF SystemTicks
  <2>6. Cong(SystemTicks', last_systime + (x + 1) + overflow)
    <3>1. \/ systime' = last_systime + (x + 1)
          \/ systime' = last_systime + (x + 1) - range
      BY <1>2, <2>3 DEF Behind
    <3>2. NextOverflow' = IF systime' < last_systime
                          THEN (overflow + range) % Range32 ELSE overflow
      BY <1>2, <1>7 DEF NextOverflow
    <3>3. Cong((systime' + NextOverflow') % Range32, last_systime + (x + 1) + overflow)
      BY <1>1, <1>4, <2>2, <3>1, <3>2, ExtendedCount
    <3> QED BY <3>3 DEF SystemTicks
  <2>7. Cong(SystemTicks', SystemTicks + 1)
    <3> DEFINE c == last_systime + x + overflow
    <3>1. c \in Int /\ last_systime + (x + 1) + overflow = c + 1
      BY <1>1, <2>2
    <3>2. SystemTicks' \in Int
      BY <1>6
    <3> HIDE DEF c
    <3>3. Cong(c, SystemTicks) /\ Cong(1, 1) /\ Cong(SystemTicks', c + 1)
      BY <1>1, <2>5, <2>6, <3>1, CongRules DEF c
    <3>4. Cong(c + 1, SystemTicks + 1) /\ c + 1 \in Int /\ SystemTicks + 1 \in Int
      BY <1>1, <3>1, <3>3, CongRules
    <3> QED BY <3>2, <3>3, <3>4, CongRules
  <2> QED BY <1>4, <1>5, <2>4, <2>7
<1>8. CASE ~Extended
  <2>1. NoRoundMissed'
    BY <1>2, <1>8 DEF NoRoundMissed
  <2>2. range = Range32 /\ NextOverflow = overflow /\ NextOverflow' = overflow
    BY <1>2, <1>8, FullWidth DEF NextOverflow
  <2>3. systime + 1 \in Int /\ systime' = (systime + 1) % Range32
    BY <1>1, <2>2 DEF Tick
  <2>4. Cong(systime', systime + 1) /\ systime' \in Int
    BY <1>1, <1>4, <2>3, ModCong
  <2>5. Cong(systime' + overflow, (systime + 1) + overflow)
    BY <1>1, <2>3, <2>4, CongRules
  <2> DEFINE a == systime' + overflow
             c == systime + overflow
  <2>6. a \in Int /\ c \in Int /\ (systime + 1) + overflow = c + 1
    BY <1>1, <2>4
  <2>7. /\ SystemTicks' = a % Range32 /\ SystemTicks = c % Range32
        /\ Cong(a, c + 1)
    BY <2>2, <2>5, <2>6 DEF SystemTicks
  <2> HIDE DEF a, c
  <2>8. /\ Cong(SystemTicks', a) /\ Cong(c, SystemTicks) /\ Cong(1, 1)
        /\ SystemTicks' \in Int
    BY <1>1, <1>6, <2>6, <2>7, ModCong, CongRules
  <2>9. Cong(c + 1, SystemTicks + 1) /\ c + 1 \in Int /\ SystemTicks + 1 \in Int
    BY <1>1, <2>6, <2>8, CongRules
  <2>10. Cong(SystemTicks', c + 1)
    BY <2>6, <2>7, <2>8, <2>9, CongRules
  <2>11. Cong(SystemTicks', SystemTicks + 1)
    BY <2>8, <2>9, <2>10, CongRules
  <2> QED BY <1>4, <1>5, <2>1, <2>11
<1> QED BY <1>7, <1>8

\* Time passes: the ticks since the last read and the ideal clock go together.
LEMMA TickKeeps ==
    ASSUME TimerInv, Tick
    PROVE  TimerInv'
<1> DEFINE F == CH_CFG_ST_FREQUENCY
           M == MsPerSecond
           R == Range32
           RF == R * F
<1>1. /\ TimerTypes /\ NoRoundMissed /\ CountInv /\ TimeInv
  BY DEF TimerInv
<1>2. /\ last_ticks' = last_ticks /\ ms_offset' = ms_offset /\ base' = base
      /\ ticks_offset' = ticks_offset /\ gap' = gap + 1
  BY DEF Tick, offsets
<1>3. /\ F \in Nat \ {0} /\ M \in Nat \ {0} /\ R \in Nat \ {0} /\ RF \in Nat \ {0}
      /\ elapsed \in 0..(RF - 1)
      /\ last_ticks \in Int /\ gap \in Int /\ base \in Int /\ ticks_offset \in Int
      /\ SystemTicks \in Int
  BY <1>1, TimerConstants, TimerInts DEF TimerTypes
<1>4. elapsed' = IF elapsed + 1 = RF THEN 0 ELSE elapsed + 1
  <2>1. elapsed' = (elapsed + 1) % RF
    BY DEF Tick
  <2> HIDE DEF RF
  <2> QED BY <1>3, <2>1, CountUp
<1>5. gap' \in 0..ReadGap
  <2>1. ReadGap \in Int
    BY TimerConfig, AdjustSeconds, TimerConstants
  <2> QED BY <1>1, <2>1 DEF Tick, TimerTypes
<1>6. elapsed' \in 0..(RF - 1)
  <2> HIDE DEF RF
  <2> QED BY <1>3, <1>4
<1>7. TimerTypes'
  BY <1>1, <1>5, <1>6, TickCounter DEF TimerTypes, Tick, extension, offsets
<1>8. CountInv'
  <2> DEFINE c == ticks_offset + last_ticks + gap
  <2>1. c \in Int /\ ticks_offset + last_ticks + (gap + 1) = c + 1
    BY <1>3
  <2>2. Cong(SystemTicks', SystemTicks + 1) /\ Cong(SystemTicks, c)
    BY <1>1, TickCounter DEF CountInv
  <2>3. SystemTicks' \in Int
    <3>1. \E z \in Int : SystemTicks' = SystemTicks + 1 + z * R
      BY <2>2 DEF Cong
    <3> QED BY <1>3, <3>1
  <2> HIDE DEF c
  <2>4. /\ Cong(1, 1) /\ SystemTicks + 1 \in Int /\ c + 1 \in Int
    BY <1>3, <2>1, CongRules
  <2>5. Cong(SystemTicks + 1, c + 1)
    BY <1>3, <2>1, <2>2, <2>4, CongRules
  <2>6. Cong(SystemTicks', c + 1)
    BY <2>2, <2>3, <2>4, <2>5, CongRules
  <2> QED BY <1>2, <2>1, <2>6 DEF CountInv
<1>9. TimeInv'
  <2>1. PICK k \in Int : elapsed = last_ticks + gap + k * F /\ Cong(ms_offset, base + k * M)
    BY <1>1 DEF TimeInv
  <2>2. k * F \in Int /\ k * M \in Int /\ (k - R) \in Int
    BY <1>3
  <2>3. CASE elapsed + 1 # RF
    <3>1. elapsed' = last_ticks + (gap + 1) + k * F
      <4> HIDE DEF RF
      <4> QED BY <1>3, <1>4, <2>1, <2>2, <2>3
    <3> QED BY <1>2, <2>1, <3>1 DEF TimeInv
  <2>4. CASE elapsed + 1 = RF
    <3>1. (k - R) * F = k * F - RF /\ (k - R) * M = k * M - R * M
      BY <1>3
    <3>2. elapsed' = last_ticks + (gap + 1) + (k - R) * F
      <4> DEFINE p == k * F
                 q == (k - R) * F
      <4>1. p \in Int /\ q = p - RF /\ elapsed = last_ticks + gap + p
        BY <2>1, <2>2, <3>1
      <4> HIDE DEF RF, p, q
      <4>2. elapsed' = last_ticks + (gap + 1) + q
        BY <1>3, <1>4, <2>4, <4>1
      <4> QED BY <4>2 DEF q
    <3>3. Cong(ms_offset, base + (k - R) * M)
      <4>1. PICK z \in Int : ms_offset = base + k * M + z * R
        BY <2>1 DEF Cong
      <4>2. (z + M) * R = z * R + R * M
        BY <1>3
      <4>3. ms_offset = base + (k - R) * M + (z + M) * R
        <5> DEFINE p == k * M
                   q == R * M
                   w == z * R
        <5>1. p \in Int /\ q \in Int /\ w \in Int
          BY <1>3
        <5>2. /\ (k - R) * M = p - q /\ (z + M) * R = w + q
              /\ ms_offset = base + p + w
          BY <3>1, <4>1, <4>2
        <5> HIDE DEF p, q, w
        <5>3. base + (p - q) + (w + q) = base + p + w
          BY <1>3, <5>1
        <5> QED BY <5>2, <5>3
      <4>4. z + M \in Int
        BY <1>3
      <4> QED BY <4>3, <4>4 DEF Cong
    <3> QED BY <1>2, <2>2, <3>2, <3>3 DEF TimeInv
  <2> QED BY <2>3, <2>4
<1> QED BY <1>1, <1>7, <1>8, <1>9, TickCounter DEF TimerInv

\* The part of timer_read32 under the lock, from the main thread or from an
\* interrupt.
LEMMA LockedReadKeeps ==
    ASSUME TimerInv, LockedRead, saved_ms' \in TickCounts,
           UNCHANGED <<range, systime, armed, elapsed, base>>
    PROVE  TimerInv'
<1>1. /\ TimerTypes /\ NoRoundMissed /\ CountInv /\ GetSystemTimeTicks
      /\ ticks_offset' = (ticks_offset + Adjust) % Range32
      /\ ms_offset' = NextMsOffset /\ last_ticks' = NextTicks /\ gap' = 0
  BY DEF TimerInv, LockedRead
<1>2. /\ NextTicks = last_ticks + gap - Adjust /\ NextTicks \in TickCounts
      /\ Adjust \in Int
  BY TicksRead
<1>3. /\ ticks_offset \in Int /\ last_ticks \in Int /\ gap \in Int
      /\ SystemTicks \in Int
  BY <1>1, TimerInts
<1>4. ticks_offset + Adjust \in Int
  BY <1>2, <1>3
<1>5. ticks_offset' \in TickCounts /\ Cong(ticks_offset', ticks_offset + Adjust)
  BY <1>1, <1>4, ModCong
<1>6. 0 \in 0..ReadGap
  BY TimerConfig, AdjustSeconds, TimerConstants
<1>7. TimerTypes'
  BY <1>1, <1>2, <1>5, <1>6, TimeRead, ReadKeepsCount DEF TimerTypes
<1>8. NoRoundMissed'
  <2>1. Extended' => Behind(0)'
    BY <1>1, ReadKeepsCount
  <2>2. 0 \in 0..armed'
    BY <1>1 DEF TimerTypes
  <2> QED BY <2>1, <2>2 DEF NoRoundMissed
<1>9. CountInv'
  <2> DEFINE c == ticks_offset + last_ticks + gap
             d == ticks_offset' + NextTicks
  <2>1. SystemTicks' = SystemTicks /\ Cong(SystemTicks, c) /\ c \in Int
    BY <1>1, <1>3, ReadKeepsCount DEF CountInv
  <2>2. /\ ticks_offset' \in Int /\ NextTicks \in Int
    BY <1>2, <1>5, TimerConstants DEF TickCounts
  <2>3. Cong(NextTicks, NextTicks)
    BY <2>2, CongRules
  <2>4. Cong(d, (ticks_offset + Adjust) + NextTicks)
    BY <1>4, <1>5, <2>2, <2>3, CongRules
  <2>5. (ticks_offset + Adjust) + NextTicks = c
    BY <1>2, <1>3
  <2>6. d \in Int /\ Cong(d, c) /\ d = ticks_offset' + NextTicks + 0
    BY <2>2, <2>4, <2>5
  <2>7. CountInv' <=> Cong(SystemTicks', ticks_offset' + NextTicks + 0)
    BY <1>1 DEF CountInv
  <2> HIDE DEF c, d
  <2>8. Cong(SystemTicks, d)
    BY <1>3, <2>1, <2>6, CongRules
  <2> QED BY <2>1, <2>6, <2>7, <2>8
<1>10. TimeInv'
  <2>1. PICK k \in Int : /\ elapsed = NextTicks + k * CH_CFG_ST_FREQUENCY
                         /\ Cong(NextMsOffset, base + k * MsPerSecond)
    BY TimeRead
  <2>2. NextTicks + 0 = NextTicks
    BY <1>2, TimerConstants DEF TickCounts
  <2> QED BY <1>1, <2>1, <2>2 DEF TimeInv
<1> QED BY <1>7, <1>8, <1>9, <1>10 DEF TimerInv

\* The virtual timer's callback only moves the reference.
LEMMA UpdateFnKeeps ==
    ASSUME TimerInv, UpdateFn
    PROVE  TimerInv'
<1>1. /\ TimerTypes /\ CountInv /\ TimeInv /\ GetSystemTimeTicks
      /\ UNCHANGED <<range, systime>> /\ armed' = 0
      /\ UNCHANGED <<offsets, saved_ms, gap, elapsed, base>>
  BY DEF TimerInv, UpdateFn
<1>2. /\ last_systime' \in 0..(range - 1) /\ overflow' \in TickCounts
      /\ SystemTicks' = SystemTicks /\ (Extended' => Behind(0)')
  BY <1>1, ReadKeepsCount
<1>3. TimerTypes'
  BY <1>1, <1>2 DEF TimerTypes, offsets
<1>4. NoRoundMissed'
  BY <1>1, <1>2 DEF NoRoundMissed
<1>5. CountInv' /\ TimeInv'
  BY <1>1, <1>2 DEF CountInv, TimeInv, offsets
<1> QED BY <1>3, <1>4, <1>5 DEF TimerInv

\* timer_clear and timer_restore start a new count.
LEMMA StartFromKeeps ==
    ASSUME TimerInv, NEW ms \in TickCounts, StartFrom(ms)
    PROVE  TimerInv'
<1>1. /\ TimerTypes /\ GetSystemTimeTicks /\ UNCHANGED <<range, systime>>
      /\ armed' = armed /\ ticks_offset' = SystemTicks /\ last_ticks' = 0
      /\ ms_offset' = ms /\ gap' = 0 /\ elapsed' = 0 /\ base' = ms
      /\ saved_ms' = saved_ms
  BY DEF TimerInv, StartFrom
<1>2. /\ last_systime' \in 0..(range - 1) /\ overflow' \in TickCounts
      /\ SystemTicks' = SystemTicks /\ (Extended' => Behind(0)')
  BY <1>1, ReadKeepsCount
<1>3. SystemTicks \in TickCounts /\ TickCounts \subseteq Int
  BY <1>1, TimerInts
<1>4. 0 \in 0..ReadGap /\ 0 \in TickCounts
  BY TimerConfig, AdjustSeconds, TimerConstants DEF TickCounts
<1>5. 0 \in 0..(Range32 * CH_CFG_ST_FREQUENCY - 1)
  <2>1. Range32 * CH_CFG_ST_FREQUENCY \in Nat \ {0}
    BY TimerConstants
  <2> QED BY <2>1
<1>6. TimerTypes'
  BY <1>1, <1>2, <1>3, <1>4, <1>5 DEF TimerTypes
<1>7. NoRoundMissed'
  <2>1. 0 \in 0..armed'
    BY <1>1 DEF TimerTypes
  <2> QED BY <1>2, <2>1 DEF NoRoundMissed
<1>8. CountInv'
  <2>1. SystemTicks' = ticks_offset' + last_ticks' + gap' /\ SystemTicks' \in Int
    BY <1>1, <1>2, <1>3
  <2>2. Cong(SystemTicks', SystemTicks')
    BY <2>1, CongRules
  <2> QED BY <2>1, <2>2 DEF CountInv
<1>9. TimeInv'
  <2>1. /\ 0 = 0 + 0 + 0 * CH_CFG_ST_FREQUENCY
        /\ ms = ms + 0 * MsPerSecond /\ ms \in Int
    BY <1>3, TimerConstants
  <2>2. Cong(ms, ms + 0 * MsPerSecond)
    BY <2>1, CongRules
  <2> QED BY <1>1, <2>1, <2>2 DEF TimeInv
<1> QED BY <1>6, <1>7, <1>8, <1>9 DEF TimerInv

\* timer_init.
LEMMA TimerInit == Init => TimerInv /\ PreemptedReadExact
<1> SUFFICES ASSUME Init PROVE TimerInv /\ PreemptedReadExact
  OBVIOUS
<1>1. range \in TimerRanges /\ range \in Nat /\ systime \in 0..(range - 1)
  BY TimerConfig DEF Init
<1>2. range \in 1..Range32 /\ systime \in TickCounts
  BY <1>1, RangeFits, TimerConstants DEF TickCounts
<1>3. 0 \in 0..ReadGap /\ 0 \in TickCounts /\ 0 \in 0..(range - 1)
  BY <1>2, TimerConfig, AdjustSeconds, TimerConstants DEF TickCounts
<1>4. 0 \in 0..(Range32 * CH_CFG_ST_FREQUENCY - 1)
  <2>1. Range32 * CH_CFG_ST_FREQUENCY \in Nat \ {0}
    BY TimerConstants
  <2> QED BY <2>1
<1>5. TimerTypes
  BY <1>1, <1>2, <1>3, <1>4 DEF TimerTypes, Init
<1>6. NoRoundMissed
  BY <1>1 DEF NoRoundMissed, Behind, Init
<1>7. CountInv
  <2>1. NextOverflow = 0 /\ systime \in Int
    BY <1>1 DEF NextOverflow, Init
  <2>2. systime + NextOverflow = systime + 0 + 0 /\ ticks_offset = systime
        /\ last_ticks = 0 /\ gap = 0
    BY <2>1 DEF Init
  <2>3. Cong(SystemTicks, systime + NextOverflow)
    BY <1>5, TimerInts
  <2> QED BY <2>2, <2>3 DEF CountInv
<1>8. TimeInv
  <2>1. 0 = 0 + 0 + 0 * CH_CFG_ST_FREQUENCY /\ 0 = 0 + 0 * MsPerSecond
    BY TimerConstants
  <2>2. Cong(0, 0 + 0 * MsPerSecond)
    BY <2>1, CongRules
  <2> QED BY <2>1, <2>2 DEF TimeInv, Init
<1>9. PreemptedReadExact
  BY DEF PreemptedReadExact, Init, NoRead
<1> QED BY <1>5, <1>6, <1>7, <1>8, <1>9 DEF TimerInv

\* The value of a read is the time of the perfect clock.
LEMMA ReadIsIdeal ==
    ASSUME TimerInv
    PROVE  ReadNow = Ideal /\ ReadNow \in TickCounts
<1> DEFINE F == CH_CFG_ST_FREQUENCY
           M == MsPerSecond
<1>1. PICK k \in Int : elapsed = NextTicks + k * F /\ Cong(NextMsOffset, base + k * M)
  BY TimeRead
<1>2. /\ NextTicks \in Int /\ NextMsOffset \in Int /\ base \in Int
      /\ TickCounts \subseteq Int
  BY TicksRead, TimeRead, TimerInts DEF TimerInv
<1>3. k * M \in Int
  BY TimerConstants
<1> DEFINE n == TIME_I2MS(NextTicks)
           m == Ms(NextTicks)
           p == base + k * M
<1>4. n \in Int /\ m \in Int /\ Cong(n, m)
  BY <1>2, MsType
<1>5. p \in Int /\ Cong(NextMsOffset, p)
  BY <1>1, <1>2, <1>3
<1>6. Ms(elapsed) = m + k * M
  BY <1>1, <1>2, MsSeconds
<1>7. base + Ms(elapsed) = m + p
  <2> DEFINE q == k * M
  <2>1. q \in Int /\ p = base + q /\ Ms(elapsed) = m + q
    BY <1>3, <1>6
  <2> HIDE DEF m, p, q
  <2> QED BY <1>2, <1>4, <2>1
<1>8. Ideal = (m + p) % Range32
  BY <1>7 DEF Ideal, Ms
<1>9. ReadNow = (n + NextMsOffset) % Range32
  BY DEF ReadNow
<1> HIDE DEF n, m, p
<1>10. Cong(n + NextMsOffset, m + p) /\ n + NextMsOffset \in Int /\ m + p \in Int
  BY <1>2, <1>4, <1>5, CongRules
<1>11. (n + NextMsOffset) % Range32 = (m + p) % Range32
  BY <1>10, CongMod
<1> QED BY <1>8, <1>9, <1>10, <1>11, ModCong

\* Every step keeps the counters consistent.
LEMMA TimerStep ==
    ASSUME TimerInv, [Next]_vars
    PROVE  TimerInv'
<1>1. saved_ms \in TickCounts /\ 0 \in TickCounts
  BY TimerConstants DEF TimerInv, TimerTypes, TickCounts
<1>2. CASE Tick
  BY <1>2, TickKeeps
<1>3. CASE UpdateFn
  BY <1>3, UpdateFnKeeps
<1>4. CASE TimerClear \/ TimerRestore
  BY <1>1, <1>4, StartFromKeeps DEF TimerClear, TimerRestore
<1>5. CASE TimerSave
  <2>1. saved_ms' \in TickCounts
    BY <1>5, ReadIsIdeal DEF TimerSave
  <2> QED BY <1>5, <2>1, LockedReadKeeps DEF TimerSave
<1>6. CASE ReadBegin \/ InterruptRead
  BY <1>1, <1>6, LockedReadKeeps DEF ReadBegin, InterruptRead
<1>7. CASE ReadEnd \/ UNCHANGED vars
  <2>1. UNCHANGED <<range, systime, extension, armed, offsets, saved_ms, gap,
                    elapsed, base>>
    BY <1>7 DEF ReadEnd, vars
  <2>2. /\ TimerTypes' /\ NoRoundMissed' /\ TimeInv'
    BY <2>1 DEF TimerInv, TimerTypes, NoRoundMissed, TimeInv, Extended, Behind,
                extension, offsets
  <2>3. CountInv'
    BY <2>1 DEF TimerInv, CountInv, SystemTicks, NextOverflow, Extended,
                extension, offsets
  <2> QED BY <2>2, <2>3 DEF TimerInv
<1> QED BY <1>2, <1>3, <1>4, <1>5, <1>6, <1>7 DEF Next

-----------------------------------------------------------------------------
(* The theorems.                                                           *)

\* The inductive invariant of the clock.
THEOREM TimerInvariant == Spec => []TimerInv
<1>1. Init => TimerInv
  BY TimerInit
<1>2. TimerInv /\ [Next]_vars => TimerInv'
  BY TimerStep
<1> QED BY <1>1, <1>2, PTL DEF Spec

\* timer_read32 never drifts: at every moment it would return the milliseconds
\* of a perfect clock, through every wrap of either counter.
THEOREM ClockNeverDrifts == Spec => []ClockExact
<1>1. TimerInv => ClockExact
  BY ReadIsIdeal DEF ClockExact
<1> QED BY <1>1, TimerInvariant, PTL

\* A read overtaken by an interrupt's read after the unlock is exact too.
THEOREM OvertakenReadExact == Spec => []PreemptedReadExact
<1>1. Init => PreemptedReadExact
  BY TimerInit
<1>2. TimerInv /\ PreemptedReadExact /\ [Next]_vars => PreemptedReadExact'
  <2> SUFFICES ASSUME TimerInv, PreemptedReadExact, [Next]_vars
               PROVE  PreemptedReadExact'
    OBVIOUS
  <2>1. CASE ReadBegin
    <3>1. read' = [busy |-> TRUE, ticks |-> NextTicks,
                   ms_offset |-> NextMsOffset, exact |-> Ideal]
      BY <2>1 DEF ReadBegin
    <3>2. Reading' = ReadNow /\ read'.exact = Ideal
      BY <3>1 DEF Reading, ReadNow, TIME_I2MS
    <3> QED BY <3>2, ReadIsIdeal DEF PreemptedReadExact
  <2>2. CASE ReadEnd
    BY <2>2 DEF ReadEnd, PreemptedReadExact, NoRead
  <2>3. CASE read' = read
    BY <2>3 DEF PreemptedReadExact, Reading, TIME_I2MS
  <2>4. read' = read \/ ReadBegin \/ ReadEnd
    BY DEF Next, vars, Tick, UpdateFn, TimerClear, TimerRestore, StartFrom,
           TimerSave, InterruptRead
  <2> QED BY <2>1, <2>2, <2>3, <2>4
<1> QED BY <1>1, <1>2, TimerInvariant, PTL DEF Spec
=============================================================================
