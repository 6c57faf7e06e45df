-------------------------------- MODULE HEMux --------------------------------
(***************************************************************************)
(* How matrix_scan_custom() reaches the sensors: five 16:1 multiplexers    *)
(* wired-OR into one ADC input, selected by five active-low chip enables   *)
(* and four shared address lines.  Every GPIO write is a step, because     *)
(* what can go wrong here happens between two of them.  After the sampling *)
(* loop the scan commits the reported keys to the matrix, one sensor at a  *)
(* time.                                                                   *)
(***************************************************************************)
EXTENDS Integers, Sequences, FiniteSets

CONSTANTS
    HE_MUX_COUNT,               \* chip enables
    HE_ADDR_LINES,              \* S0..S3
    PressedSets                 \* sets of sensors a scan may end up reporting

\* he_sensors[]: the <<mux, addr>> of each sensor, by matrix row; columns and
\* sensor ids count up within the table.
MuxTable == <<
    << <<0,3>>, <<0,5>>, <<0,6>>, <<0,2>>, <<1,6>>, <<1,5>>, <<1,4>>,
       <<1,3>>, <<2,5>>, <<2,4>>, <<2,3>>, <<2,2>>, <<3,3>>, <<3,2>>,
       <<4,5>>, <<4,4>> >>,
    << <<0,4>>, <<0,7>>, <<0,0>>, <<0,1>>, <<1,7>>, <<1,0>>, <<1,1>>,
       <<1,2>>, <<2,6>>, <<2,0>>, <<2,1>>, <<3,5>>, <<3,0>>, <<3,1>>,
       <<4,2>> >>,
    << <<0,8>>, <<0,10>>, <<0,15>>, <<1,8>>, <<1,10>>, <<1,15>>, <<1,14>>,
       <<2,8>>, <<2,9>>, <<2,15>>, <<3,8>>, <<3,9>>, <<3,14>>, <<4,14>> >>,
    << <<0,9>>, <<0,13>>, <<0,14>>, <<1,11>>, <<1,12>>, <<2,10>>, <<2,11>>,
       <<2,12>>, <<2,13>>, <<2,14>>, <<3,10>>, <<3,13>>, <<4,10>>, <<4,13>> >>,
    << <<0,11>>, <<0,12>>, <<1,9>>, <<1,13>>, <<3,11>>, <<3,12>>, <<4,9>>,
       <<4,11>>, <<4,12>>, <<0,0>> >> >>

RowStart == <<0, 16, 31, 45, 59>>

Sensors == 0..68
HE_ENC_PUSH_INDEX == 68
AnalogKeys == Sensors \ {HE_ENC_PUSH_INDEX}

he_sensors ==
    [j \in Sensors |->
        LET r == CHOOSE r \in 1..5 : /\ RowStart[r] <= j
                                     /\ j < RowStart[r] + Len(MuxTable[r])
            c == j - RowStart[r]
        IN  [row |-> r - 1, col |-> c,
             mux |-> MuxTable[r][c + 1][1], addr |-> MuxTable[r][c + 1][2]]]

\* he_led_remap[]: rows 1 and 3 of the strip run right to left.
he_led_remap ==
    [j \in AnalogKeys |->
        LET r == he_sensors[j].row + 1
        IN  IF r \in {2, 4} THEN RowStart[r] + RowStart[r + 1] - 1 - j ELSE j]

\* socd_pairs[]: A and D, Z and X.
socd_pairs == {<<32, 34>>, <<46, 47>>}

Position(j) == <<he_sensors[j].row, he_sensors[j].col>>

\* What the other modules take for granted of the board's tables: each LED
\* belongs to one key, the key-cancel pairs are disjoint and sit on the keys
\* their comment names.
ASSUME BoardTables ==
    /\ \A i, j \in AnalogKeys : he_led_remap[i] = he_led_remap[j] => i = j
    /\ \A i \in AnalogKeys : he_led_remap[i] \in 0..67
    /\ {<<Position(p[1]), Position(p[2])>> : p \in socd_pairs}
          = {<< <<2, 1>>, <<2, 3>> >>, << <<3, 1>>, <<3, 2>> >>}
    /\ \A p, q \in socd_pairs : p # q => {p[1], p[2]} \cap {q[1], q[2]} = {}

\* No two sensors share a matrix position.
ASSUME PositionsDiffer ==
    \A j, k \in Sensors : Position(j) = Position(k) => j = k

ASSUME MuxInputs ==
    /\ HE_MUX_COUNT \in Nat \ {0} /\ HE_ADDR_LINES \in Nat \ {0}
    /\ PressedSets \subseteq SUBSET Sensors

Chips == 0..(HE_MUX_COUNT - 1)
Lines == 0..(HE_ADDR_LINES - 1)

Bit(addr, b) == (addr \div (2^b)) % 2

\* Each analog sensor sits on an existing multiplexer, on a channel of its own
\* that the address lines can tell from every other one.
ASSUME ChannelsDiffer ==
    /\ \A j \in AnalogKeys : he_sensors[j].mux \in Chips
    /\ \A j, k \in AnalogKeys :
          (/\ he_sensors[j].mux = he_sensors[k].mux
           /\ \A b \in Lines : Bit(he_sensors[j].addr, b)
                                 = Bit(he_sensors[k].addr, b)) => j = k

VARIABLES
    pc,                         \* what the scan does next
    i,                          \* sensor of the running loop
    n,                          \* chip or address line of the inner loop
    ce,                         \* chip enables, active low: 0 is live
    s,                          \* address lines
    bus,                        \* sensors whose voltage is on the ADC input
    reported,                   \* sensors this scan reports
    matrix                      \* <<row, col>> bits of current_matrix

vars == <<pc, i, n, ce, s, bus, reported, matrix>>

\* The sensors the live chips connect to the ADC input.
Connected == {j \in AnalogKeys :
                 /\ ce[he_sensors[j].mux] = 0
                 /\ \A b \in Lines : s[b] = Bit(he_sensors[j].addr, b)}

TypeOK ==
    /\ pc \in {"sensor", "disable", "address", "enable", "settle", "sample",
               "commit"}
    /\ i \in Sensors
    /\ n \in 0..15
    /\ (pc = "disable" => n \in Chips) /\ (pc = "address" => n \in Lines)
    /\ ce \in [Chips -> {0, 1}]
    /\ s \in [Lines -> {0, 1}]
    /\ bus \in SUBSET AnalogKeys
    /\ reported \in SUBSET Sensors
    /\ matrix \subseteq {Position(j) : j \in Sensors}

\* matrix_init_custom: all chips disabled, address 0.
Init ==
    /\ pc = "sensor" /\ i = 0 /\ n = 0
    /\ ce = [c \in Chips |-> 1]
    /\ s = [b \in Lines |-> 0]
    /\ bus = {}
    /\ reported = {} /\ matrix = {}

-----------------------------------------------------------------------------
SelectFromLive == "address"     \* mutant: he_mux_all_disabled() is not called

\* he_mux_select begins with he_mux_all_disabled.
SelectFrom == "disable"

\* The sampling loop: the encoder push is a GPIO read and leaves the mux alone.
NextSensor ==
    /\ pc = "sensor"
    /\ IF i = HE_ENC_PUSH_INDEX
       THEN /\ \E p \in PressedSets : reported' = p
            /\ pc' = "commit" /\ i' = 0
       ELSE pc' = SelectFrom /\ UNCHANGED <<i, reported>>
    /\ n' = 0
    /\ UNCHANGED <<ce, s, bus, matrix>>

LastChip == n = HE_MUX_COUNT - 1

DisableChip ==
    /\ pc = "disable"
    /\ ce' = [ce EXCEPT ![n] = 1]
    /\ IF LastChip THEN pc' = "address" /\ n' = 0
                   ELSE n' = n + 1 /\ UNCHANGED pc
    /\ UNCHANGED <<i, s, bus, reported, matrix>>

DriveAddress ==
    /\ pc = "address"
    /\ s' = [s EXCEPT ![n] = Bit(he_sensors[i].addr, n)]
    /\ IF n = HE_ADDR_LINES - 1 THEN pc' = "enable" /\ n' = 0
                                ELSE n' = n + 1 /\ UNCHANGED pc
    /\ UNCHANGED <<i, ce, bus, reported, matrix>>

EnableChip ==
    /\ pc = "enable"
    /\ ce' = IF he_sensors[i].mux < HE_MUX_COUNT
             THEN [ce EXCEPT ![he_sensors[i].mux] = 0] ELSE ce
    /\ pc' = "settle"
    /\ UNCHANGED <<i, n, s, bus, reported, matrix>>

SettledNoWait == bus            \* mutant: no wait before the conversion

\* wait_us(HE_MUX_SETTLE_US): the stray capacitance of the bus keeps the last
\* channel's voltage until the delay has passed.
Settled == Connected

Settle ==
    /\ pc = "settle"
    /\ bus' = Settled
    /\ pc' = "sample"
    /\ UNCHANGED <<i, n, ce, s, reported, matrix>>

\* analogReadPin, and the rest of the loop body, which touches no pin.
Sample ==
    /\ pc = "sample"
    /\ pc' = "sensor" /\ i' = i + 1
    /\ UNCHANGED <<n, ce, s, bus, reported, matrix>>

CommittedRow(j) == \* mutant: the row is assigned instead of or-ed
    IF j \in reported
    THEN {p \in matrix : p[1] # he_sensors[j].row} \cup {Position(j)}
    ELSE matrix \ {Position(j)}

\* The commit loop: set or clear the sensor's own bit.
Committed(j) == IF j \in reported THEN matrix \cup {Position(j)}
                                  ELSE matrix \ {Position(j)}

Commit ==
    /\ pc = "commit"
    /\ matrix' = Committed(i)
    /\ IF i = 68 THEN pc' = "sensor" /\ i' = 0
                 ELSE i' = i + 1 /\ UNCHANGED pc
    /\ UNCHANGED <<n, ce, s, bus, reported>>

Next == \/ NextSensor \/ DisableChip \/ DriveAddress \/ EnableChip
        \/ Settle \/ Sample \/ Commit

Spec == Init /\ [][Next]_vars

-----------------------------------------------------------------------------
Live == {c \in Chips : ce[c] = 0}

\* "avoids switching S0-S3 while a mux output is live": an address line only
\* moves with every chip disabled.
AddressStableWhileLive == [][s' # s => Live = {}]_vars

\* The conversion for sensor i sees sensor i and nothing else, whatever was
\* selected before: the table gives each analog sensor a channel of its own
\* and the bus has left the previous channel.
SampleReadsOwnSensor == pc = "sample" => bus = {i}

\* After the commit loop the matrix holds exactly the reported keys: no two
\* sensors share a position, and a key never clears another one's bit.
MatrixFaithful ==
    pc = "sensor" /\ i = 0 => matrix = {Position(j) : j \in reported}
=============================================================================
