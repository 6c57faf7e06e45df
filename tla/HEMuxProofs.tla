----------------------------- MODULE HEMuxProofs -----------------------------
(***************************************************************************)
(* Proofs about the multiplexer scan, for any number of chips and address  *)
(* lines that can carry the board's sensor table, and any keys reported.   *)
(* The table's own facts (ChannelsDiffer, PositionsDiffer) are evaluated   *)
(* by TLC over the whole table; the proofs are about the scan.             *)
(***************************************************************************)
EXTENDS HEMux, TLAPS

-----------------------------------------------------------------------------
(* The invariant.                                                          *)

AllDisabled   == \A c \in Chips : ce[c] = 1
AddressDriven == \A b \in Lines : s[b] = Bit(he_sensors[i].addr, b)

\* he_mux_select step by step: the chips below n are off, then the lines below
\* n carry the address, then one chip is live.
SelectInv ==
    /\ i \in Sensors /\ DOMAIN ce = Chips /\ DOMAIN s = Lines
    /\ pc \in {"sensor", "disable", "address", "enable", "settle", "sample",
               "commit"}
    /\ pc \notin {"sensor", "commit"} => i \in AnalogKeys
    /\ pc = "disable" => n \in Chips /\ \A c \in Chips : c < n => ce[c] = 1
    /\ pc = "address" => /\ n \in Lines /\ AllDisabled
                         /\ \A b \in Lines :
                               b < n => s[b] = Bit(he_sensors[i].addr, b)
    /\ pc = "enable" => AllDisabled /\ AddressDriven
    /\ pc = "settle" => Connected = {i}
    /\ SampleReadsOwnSensor

\* The commit loop: the sensors below i have their bits, and a bit that is set
\* is some sensor's.
CommitInv ==
    /\ reported \subseteq Sensors
    /\ \A p \in matrix : \E j \in Sensors : p = Position(j)
    /\ pc = "commit" =>
          \A j \in Sensors : j < i => (Position(j) \in matrix <=> j \in reported)
    /\ MatrixFaithful

\* Only the selected sensor is connected once its chip alone is live.
LEMMA OneConnected ==
    ASSUME SelectInv, pc = "enable", EnableChip
    PROVE  Connected' = {i}
<1>1. i \in AnalogKeys /\ he_sensors[i].mux \in Chips
  BY ChannelsDiffer DEF SelectInv
<1>2. he_sensors[i].mux < HE_MUX_COUNT
  BY <1>1, MuxInputs DEF Chips
<1>3. ce' = [ce EXCEPT ![he_sensors[i].mux] = 0] /\ s' = s
  BY <1>2 DEF EnableChip
<1>4. \A c \in Chips : ce'[c] = IF c = he_sensors[i].mux THEN 0 ELSE 1
  BY <1>1, <1>3 DEF SelectInv, AllDisabled
<1>5. ASSUME NEW j \in AnalogKeys
      PROVE  (/\ ce'[he_sensors[j].mux] = 0
              /\ \A b \in Lines : s'[b] = Bit(he_sensors[j].addr, b)) <=> j = i
  <2>1. he_sensors[j].mux \in Chips
    BY ChannelsDiffer
  <2>2. ce'[he_sensors[j].mux] = 0 <=> he_sensors[j].mux = he_sensors[i].mux
    BY <1>4, <2>1
  <2>3. \A b \in Lines : s'[b] = Bit(he_sensors[i].addr, b)
    BY <1>3 DEF SelectInv, AddressDriven
  <2> QED BY <1>1, <2>2, <2>3, ChannelsDiffer
<1> QED BY <1>1, <1>5 DEF Connected

\* Every step of the scan keeps the selection sequence.
LEMMA SelectStep ==
    ASSUME SelectInv, [Next]_vars
    PROVE  SelectInv'
<1>0. HE_MUX_COUNT \in Nat \ {0} /\ HE_ADDR_LINES \in Nat \ {0}
  BY MuxInputs
<1>1. CASE NextSensor
  <2>1. 0 \in Chips /\ \A c \in Chips : ~(c < 0)
    BY <1>0 DEF Chips
  <2> QED BY <1>1, <2>1 DEF NextSensor, SelectInv, SampleReadsOwnSensor,
              SelectFrom, AnalogKeys, HE_ENC_PUSH_INDEX, Sensors
<1>2. CASE DisableChip
  <2>1. /\ pc = "disable" /\ n \in Chips /\ DOMAIN ce' = Chips
        /\ \A c \in Chips : c < n \/ c = n => ce'[c] = 1
    BY <1>2 DEF DisableChip, SelectInv
  <2>2. CASE LastChip
    <3>1. \A c \in Chips : c < n \/ c = n
      BY <1>0, <2>2 DEF LastChip, Chips
    <3>2. 0 \in Lines /\ \A b \in Lines : ~(b < 0)
      BY <1>0 DEF Lines
    <3> QED BY <1>2, <2>1, <2>2, <3>1, <3>2
            DEF DisableChip, SelectInv, AllDisabled, SampleReadsOwnSensor
  <2>3. CASE ~LastChip
    <3>1. n + 1 \in Chips /\ \A c \in Chips : c < n + 1 => c < n \/ c = n
      BY <1>0, <2>1, <2>3 DEF LastChip, Chips
    <3> QED BY <1>2, <2>1, <2>3, <3>1
            DEF DisableChip, SelectInv, SampleReadsOwnSensor
  <2> QED BY <2>2, <2>3
<1>3. CASE DriveAddress
  <2>1. /\ pc = "address" /\ n \in Lines /\ DOMAIN s' = Lines /\ AllDisabled'
        /\ \A b \in Lines : b < n \/ b = n => s'[b] = Bit(he_sensors[i].addr, b)
    BY <1>3 DEF DriveAddress, SelectInv, AllDisabled
  <2>2. CASE n = HE_ADDR_LINES - 1
    <3>1. \A b \in Lines : b < n \/ b = n
      BY <1>0, <2>2 DEF Lines
    <3> QED BY <1>3, <2>1, <2>2, <3>1
            DEF DriveAddress, SelectInv, AddressDriven, SampleReadsOwnSensor
  <2>3. CASE n # HE_ADDR_LINES - 1
    <3>1. n + 1 \in Lines /\ \A b \in Lines : b < n + 1 => b < n \/ b = n
      BY <1>0, <2>1, <2>3 DEF Lines
    <3> QED BY <1>3, <2>1, <2>3, <3>1
            DEF DriveAddress, SelectInv, SampleReadsOwnSensor
  <2> QED BY <2>2, <2>3
<1>4. CASE EnableChip
  <2>1. pc = "enable" /\ pc' = "settle" /\ i' = i /\ i \in AnalogKeys
    BY <1>4 DEF EnableChip, SelectInv
  <2>2. Connected' = {i'}
    BY <1>4, <2>1, OneConnected
  <2>3. DOMAIN ce' = Chips /\ s' = s
    BY <1>4 DEF EnableChip, SelectInv
  <2> QED BY <2>1, <2>2, <2>3 DEF SelectInv, SampleReadsOwnSensor
<1>5. CASE Settle
  BY <1>5 DEF Settle, Settled, SelectInv, SampleReadsOwnSensor
<1>6. CASE Sample
  <2>1. i + 1 \in Sensors
    BY <1>6 DEF Sample, SelectInv, AnalogKeys, HE_ENC_PUSH_INDEX, Sensors
  <2> QED BY <1>6, <2>1 DEF Sample, SelectInv, SampleReadsOwnSensor
<1>7. CASE Commit
  BY <1>7 DEF Commit, SelectInv, SampleReadsOwnSensor, Sensors
<1>8. CASE UNCHANGED vars
  BY <1>8 DEF vars, SelectInv, AllDisabled, AddressDriven, Connected,
              SampleReadsOwnSensor
<1> QED BY <1>1, <1>2, <1>3, <1>4, <1>5, <1>6, <1>7, <1>8 DEF Next

\* One turn of the commit loop settles its sensor's bit and no other one's.
LEMMA OneCommitted ==
    ASSUME SelectInv, CommitInv, Commit
    PROVE  /\ \A p \in matrix' : \E j \in Sensors : p = Position(j)
           /\ \A j \in Sensors :
                 j < i \/ j = i => (Position(j) \in matrix' <=> j \in reported)
<1>1. i \in Sensors /\ pc = "commit" /\ matrix' = Committed(i)
  BY DEF SelectInv, Commit
<1>2. \A j \in Sensors : j # i => Position(j) # Position(i)
  BY <1>1, PositionsDiffer
<1>3. /\ Position(i) \in matrix' <=> i \in reported
      /\ \A p : p # Position(i) => (p \in matrix' <=> p \in matrix)
  BY <1>1 DEF Committed
<1>4. ASSUME NEW p \in matrix'
      PROVE  \E j \in Sensors : p = Position(j)
  <2>1. CASE p = Position(i)
    BY <1>1, <2>1
  <2>2. CASE p # Position(i)
    BY <1>3, <1>4, <2>2 DEF CommitInv
  <2> QED BY <2>1, <2>2
<1>5. ASSUME NEW j \in Sensors, j < i \/ j = i
      PROVE  Position(j) \in matrix' <=> j \in reported
  <2>1. CASE j = i
    BY <1>3, <2>1
  <2>2. CASE j # i
    <3>1. Position(j) \in matrix <=> j \in reported
      BY <1>1, <1>5, <2>2 DEF CommitInv
    <3> QED BY <1>2, <1>3, <2>2, <3>1
  <2> QED BY <2>1, <2>2
<1> QED BY <1>4, <1>5

\* Every step keeps the state of the commit loop.
LEMMA CommitStep ==
    ASSUME SelectInv, CommitInv, [Next]_vars
    PROVE  CommitInv'
<1>1. CASE NextSensor
  <2>1. CASE i = HE_ENC_PUSH_INDEX
    <3>1. reported' \subseteq Sensors
      BY <1>1, <2>1, MuxInputs DEF NextSensor
    <3>2. \A j \in Sensors : ~(j < 0)
      BY DEF Sensors
    <3> QED BY <1>1, <2>1, <3>1, <3>2 DEF NextSensor, CommitInv, MatrixFaithful
  <2>2. CASE i # HE_ENC_PUSH_INDEX
    BY <1>1, <2>2 DEF NextSensor, CommitInv, MatrixFaithful, SelectFrom
  <2> QED BY <2>1, <2>2
<1>2. CASE Commit
  <2>1. reported' = reported /\ pc = "commit" /\ i \in Sensors
    BY <1>2 DEF Commit, SelectInv
  <2>2. CASE i = 68
    <3>1. pc' = "sensor" /\ i' = 0
      BY <1>2, <2>2 DEF Commit
    <3>2. \A j \in Sensors : j < i \/ j = i
      BY <2>2 DEF Sensors
    <3>3. \A j \in Sensors : Position(j) \in matrix' <=> j \in reported
      BY <1>2, <3>2, OneCommitted
    <3>4. matrix' = {Position(j) : j \in reported}
      BY <1>2, <3>3, OneCommitted DEF CommitInv
    <3> QED BY <1>2, <2>1, <3>1, <3>4, OneCommitted DEF CommitInv, MatrixFaithful
  <2>3. CASE i # 68
    <3>1. pc' = "commit" /\ i' = i + 1
      BY <1>2, <2>1, <2>3 DEF Commit
    <3>2. \A j \in Sensors : j < i + 1 => j < i \/ j = i
      BY <2>1 DEF Sensors
    <3> QED BY <1>2, <2>1, <3>1, <3>2, OneCommitted DEF CommitInv, MatrixFaithful
  <2> QED BY <2>2, <2>3
<1>3. CASE Sample
  <2>1. i' # 0
    BY <1>3 DEF Sample, SelectInv, Sensors
  <2> QED BY <1>3, <2>1 DEF Sample, CommitInv, MatrixFaithful
<1>4. CASE DisableChip \/ DriveAddress \/ EnableChip \/ Settle
  BY <1>4 DEF DisableChip, DriveAddress, EnableChip, Settle, CommitInv,
              MatrixFaithful
<1>5. CASE UNCHANGED vars
  BY <1>5 DEF vars, CommitInv, MatrixFaithful
<1> QED BY <1>1, <1>2, <1>3, <1>4, <1>5 DEF Next

\* matrix_init_custom.
LEMMA MuxInit == Init => SelectInv /\ CommitInv
BY DEF Init, SelectInv, CommitInv, MatrixFaithful, SampleReadsOwnSensor, Sensors

-----------------------------------------------------------------------------
(* The theorems.                                                           *)

\* The inductive invariant of the scan.
THEOREM MuxInvariant == Spec => [](SelectInv /\ CommitInv)
<1>1. Init => SelectInv /\ CommitInv
  BY MuxInit
<1>2. SelectInv /\ CommitInv /\ [Next]_vars => (SelectInv /\ CommitInv)'
  BY SelectStep, CommitStep
<1> QED BY <1>1, <1>2, PTL DEF Spec

\* A conversion sees the voltage of the sensor it is for, and no other.
THEOREM OwnSensorSampled == Spec => []SampleReadsOwnSensor
<1>1. SelectInv /\ CommitInv => SampleReadsOwnSensor
  BY DEF SelectInv
<1> QED BY <1>1, MuxInvariant, PTL

\* The commit loop leaves exactly the reported keys in current_matrix.
THEOREM MatrixCommitted == Spec => []MatrixFaithful
<1>1. SelectInv /\ CommitInv => MatrixFaithful
  BY DEF CommitInv
<1> QED BY <1>1, MuxInvariant, PTL

\* he_mux_select moves an address line only while every chip is disabled.
THEOREM AddressMovesDisabled == Spec => AddressStableWhileLive
<1>1. SelectInv /\ CommitInv /\ [Next]_vars => [s' # s => Live = {}]_vars
  <2> SUFFICES ASSUME SelectInv, Next, s' # s
               PROVE  Live = {}
    OBVIOUS
  <2>1. DriveAddress
    BY DEF Next, NextSensor, DisableChip, EnableChip, Settle, Sample, Commit
  <2>2. AllDisabled
    BY <2>1 DEF DriveAddress, SelectInv
  <2> QED BY <2>2 DEF Live, AllDisabled
<1> QED BY <1>1, MuxInvariant, PTL DEF Spec, AddressStableWhileLive
=============================================================================
