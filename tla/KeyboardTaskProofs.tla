------------------------- MODULE KeyboardTaskProofs -------------------------
(***************************************************************************)
(* Proofs about the main loop, for every set of keys, every set of raw     *)
(* matrices, every encoder resolution and every size of the event queue.   *)
(***************************************************************************)
EXTENDS KeyboardTask, TLAPS

-----------------------------------------------------------------------------
(* matrix_task on its own.                                                 *)

\* Inside a pass the events not yet sent are exactly the difference between
\* the published and the previous matrix, and the host has the previous one.
PassInv ==
    /\ pending = SymmetricDifference(matrix, matrix_previous)
    /\ host = matrix_previous

\* sym_defer_g.c publishes a raw matrix as a whole.
PublishedWhole == matrix \in RawStates

TaskInv == TypeOK /\ PublishedWhole /\ PassInv

\* The debounced matrix changes to a whole raw matrix or not at all.
LEMMA DebounceStep ==
    ASSUME TaskInv, NEW raw \in RawStates, NEW t \in 0..(TimerMod - 1),
           Debounce(raw, t)
    PROVE  /\ matrix' \in RawStates
           /\ debouncing' \in BOOLEAN
           /\ debouncing_time' \in 0..(TimerMod - 1)
BY DEF TaskInv, TypeOK, PublishedWhole, Debounce, Cooked

\* timer_read_fast stays inside its width.
LEMMA ReadFastType ==
    ASSUME TypeOK, NEW d \in ScanTicks
    PROVE  ReadFast(d) \in 0..(TimerMod - 1)
<1>1. d \in Nat /\ TimerMod \in Nat \ {0} /\ now \in Nat
  BY TaskTimer DEF TypeOK
<1> QED BY <1>1 DEF ReadFast

\* matrix_init leaves everything empty.
LEMMA TaskInit == Init => TaskInv
<1> SUFFICES ASSUME Init PROVE TaskInv
  OBVIOUS
<1>1. 0 \in 0..(TimerMod - 1)
  BY TaskTimer DEF Init
<1>2. TypeOK /\ PublishedWhole
  BY <1>1, TaskInputs DEF Init, TypeOK, PublishedWhole
<1>3. PassInv
  BY DEF Init, PassInv, SymmetricDifference
<1> QED BY <1>2, <1>3 DEF TaskInv

\* A scan with its comparison starts a pass.
LEMMA TaskScan ==
    ASSUME TaskInv, NEW raw \in RawStates, NEW d \in ScanTicks, MatrixScan(raw, d)
    PROVE  TaskInv'
<1>1. now' \in 0..(TimerMod - 1)
  BY ReadFastType DEF MatrixScan, TaskInv
<1>2. /\ matrix' \in RawStates
      /\ debouncing' \in BOOLEAN
      /\ debouncing_time' \in 0..(TimerMod - 1)
  BY <1>1, DebounceStep DEF MatrixScan
<1>3. PassInv'
  <2>1. pending' = SymmetricDifference(matrix', matrix_previous')
    BY DEF MatrixScan
  <2>2. host' = matrix_previous'
    BY DEF MatrixScan, TaskInv, PassInv
  <2> QED BY <2>1, <2>2 DEF PassInv
<1>4. pending' \in SUBSET Keys
  BY <1>2, TaskInputs DEF MatrixScan, TaskInv, TypeOK, SymmetricDifference
<1>5. TypeOK'
  BY <1>1, <1>2, <1>4, TaskInputs DEF MatrixScan, TaskInv, TypeOK
<1> QED BY <1>2, <1>3, <1>5 DEF TaskInv, PublishedWhole

\* An event moves one key from the difference into the host and into the
\* previous matrix.
LEMMA TaskEvent ==
    ASSUME TaskInv, KeyEvent
    PROVE  TaskInv'
<1>1. PICK k \in pending :
          /\ host' = Exec(k)
          /\ pending' = pending \ {k}
          /\ matrix_previous' = SymmetricDifference(matrix_previous, {k})
          /\ UNCHANGED <<raw_matrix, matrix, debouncing, debouncing_time, now>>
  BY DEF KeyEvent
<1>2. PassInv'
  BY <1>1 DEF TaskInv, PassInv, Exec, SymmetricDifference
<1>3. TypeOK'
  BY <1>1 DEF TaskInv, TypeOK, Exec, SymmetricDifference
<1> QED BY <1>1, <1>2, <1>3 DEF TaskInv, PublishedWhole

\* TaskInv is an invariant of matrix_task under any sequence of raw matrices.
THEOREM TaskInvariant == Spec => []TaskInv
<1>1. TaskInv /\ [Next]_vars => TaskInv'
  <2> SUFFICES ASSUME TaskInv, [Next]_vars PROVE TaskInv'
    OBVIOUS
  <2>1. CASE \E raw \in RawStates, d \in ScanTicks : MatrixScan(raw, d)
    BY <2>1, TaskScan
  <2>2. CASE KeyEvent
    BY <2>2, TaskEvent
  <2>3. CASE UNCHANGED vars
    BY <2>3 DEF vars, TaskInv, TypeOK, PublishedWhole, PassInv
  <2> QED BY <2>1, <2>2, <2>3 DEF Next
<1> QED BY <1>1, TaskInit, PTL DEF Spec

\* Between two passes the host and the published matrix agree.
LEMMA PassDone == TaskInv => HostFollowsMatrix
BY DEF TaskInv, TypeOK, PassInv, HostFollowsMatrix, SymmetricDifference

-----------------------------------------------------------------------------
(* matrix_task inside keyboard_task.                                       *)

\* The main loop runs matrix_task unchanged: with the encoder hidden, every
\* behaviour of keyboard_task is one of matrix_task.
THEOREM LoopRunsMatrixTask == KSpec => Spec
<1>1. KInit => Init
  BY DEF KInit
<1>2. [KNext]_kvars => [Next]_vars
  BY DEF KNext, kvars, Next, RunScan, RunKeyEvent, RunDriver, RunEvent, EndTurn
<1> QED BY <1>1, <1>2, PTL DEF KSpec, Spec

\* Keys that exclude each other overlap at the host only inside a pass, while
\* the release of one of them is on its way.
THEOREM LoopHandsOver == KSpec => []OverlapIsHandOver
<1>1. TaskInv => OverlapIsHandOver
  <2> SUFFICES ASSUME TaskInv, NEW ks \in SUBSET Keys, Exclusive(ks),
                      ks \subseteq host
               PROVE  \E k \in ks \ matrix : k \in pending
    BY DEF OverlapIsHandOver
  <2>1. PICK k \in ks : k \notin matrix
    BY DEF TaskInv, PublishedWhole, Exclusive
  <2>2. k \in pending
    BY <2>1 DEF TaskInv, PassInv, SymmetricDifference
  <2> QED BY <2>1, <2>2
<1> QED BY <1>1, LoopRunsMatrixTask, TaskInvariant, PTL

\* Between passes of matrix_task the host has been told of every change.
THEOREM LoopHostFollows == KSpec => []HostFollowsMatrix
BY PassDone, LoopRunsMatrixTask, TaskInvariant, PTL

-----------------------------------------------------------------------------
(* The rotary encoder inside keyboard_task.                                *)

Loops == {"matrix", "driver", "queue"}

\* The stored reading is the one from before the knob moved.
PinsRemembered == encoder_state = Pins((knob - moved) % 4)

\* The pulses are the part of the observed rotation below one detent ...
Below == /\ encoder_pulses < ENCODER_RESOLUTION
         /\ encoder_pulses > -ENCODER_RESOLUTION

\* ... and what is above it waits as the single event of this turn.
Accounted ==
    \/ queue = <<>> /\ turned = encoder_pulses
    \/ /\ task = "queue"
       /\ \E e \in {CW, CCW} : queue = <<e>> /\ turned = encoder_pulses + Told(e)

KnobTypes ==
    /\ knob \in 0..3
    /\ moved \in -MaxMoved..MaxMoved
    /\ encoder_pulses \in Int
    /\ task \in Loops

RotationInv == KnobTypes /\ PinsRemembered /\ Below /\ Accounted

\* A quarter step and its reverse between two polls.
LEMMA KnobBack ==
    ASSUME NEW k \in 0..3, NEW m \in -2..2, NEW d \in {-1, 1}
    PROVE  /\ (k + d) % 4 \in 0..3
           /\ (((k + d) % 4) - (m + d)) % 4 = (k - m) % 4
OBVIOUS

\* encoder_LUT counts one quarter step in its direction; no step and two
\* steps, in either direction, count nothing.
LEMMA PulseCounts ==
    ASSUME NEW k \in 0..3, NEW m \in -2..2
    PROVE  /\ m = 0 => Pins((k - m) % 4) = Pins(k)
           /\ m \in {-2, 2} => /\ Pins((k - m) % 4) # Pins(k)
                               /\ Pulse(Pins((k - m) % 4), Pins(k)) = 0
           /\ m \in {-1, 1} => /\ Pins((k - m) % 4) # Pins(k)
                               /\ Pulse(Pins((k - m) % 4), Pins(k)) = m
<1>1. k = 0 \/ k = 1 \/ k = 2 \/ k = 3
  OBVIOUS
<1>2. m = -2 \/ m = -1 \/ m = 0 \/ m = 1 \/ m = 2
  OBVIOUS
<1> QED BY <1>1, <1>2 DEF Pins, Pulse

\* C's remainder leaves a count below a detent alone and takes away exactly
\* the detent that was just completed, in both directions.
LEMMA RemainderOnce ==
    ASSUME NEW p \in Int, p <= ENCODER_RESOLUTION, p >= -ENCODER_RESOLUTION
    PROVE  Remainder(p, ENCODER_RESOLUTION) =
               IF p = ENCODER_RESOLUTION \/ p = -ENCODER_RESOLUTION THEN 0 ELSE p
<1> DEFINE R == ENCODER_RESOLUTION
<1>1. R \in Nat \ {0}
  BY EncoderLimits
<1>2. \A x \in 0..(R - 1) : x % R = x
  <2> HIDE DEF R
  <2> QED BY <1>1
<1>3. R % R = 0
  <2> HIDE DEF R
  <2> QED BY <1>1
<1> HIDE DEF R
<1>4. CASE p >= 0
  <2>1. p = R \/ p \in 0..(R - 1)
    BY <1>1, <1>4 DEF R
  <2>2. Remainder(p, R) = p % R
    BY <1>4 DEF Remainder
  <2> QED BY <1>1, <1>2, <1>3, <2>1, <2>2 DEF R
<1>5. CASE p < 0
  <2>1. -p = R \/ -p \in 0..(R - 1)
    BY <1>1, <1>5 DEF R
  <2>2. Remainder(p, R) = -((-p) % R)
    BY <1>5 DEF Remainder
  <2> QED BY <1>1, <1>2, <1>3, <1>5, <2>1, <2>2 DEF R
<1> QED BY <1>4, <1>5

\* An empty queue has room: a completed detent becomes its only event.
LEMMA DetentQueued ==
    ASSUME NEW p \in Int
    PROVE  Detent(p, <<>>) = IF p >= ENCODER_RESOLUTION THEN <<CCW>>
                             ELSE IF p <= -ENCODER_RESOLUTION THEN <<CW>> ELSE <<>>
<1>1. Enqueue(<<>>, CCW) = <<CCW>> /\ Enqueue(<<>>, CW) = <<CW>>
  BY EncoderLimits DEF Enqueue
<1> QED BY <1>1 DEF Detent

\* The poll of encoder_driver_task.
LEMMA DriverAccounts ==
    ASSUME RotationInv, RunDriver
    PROVE  RotationInv'
<1> DEFINE old == encoder_pulses
<1> DEFINE p == old + Pulse(encoder_state, Pins(knob))
<1>1. /\ knob \in 0..3 /\ moved \in -2..2 /\ old \in Int
      /\ encoder_state = Pins((knob - moved) % 4)
      /\ old < ENCODER_RESOLUTION /\ old > -ENCODER_RESOLUTION
      /\ queue = <<>> /\ turned = old
      /\ ENCODER_RESOLUTION \in Nat \ {0}
  BY EncoderLimits DEF RotationInv, KnobTypes, PinsRemembered, Below, Accounted, RunDriver
<1>2. /\ knob' = knob /\ moved' = 0 /\ task' = "queue"
      /\ turned' = IF moved \in {-1, 1} THEN turned + moved ELSE turned
  BY DEF RunDriver, DriverTask
<1>3. PinsRemembered'
  <2>1. encoder_state' = Pins(knob)
    BY DEF RunDriver, DriverTask
  <2>2. (knob - 0) % 4 = knob
    BY <1>1
  <2> QED BY <1>2, <2>1, <2>2 DEF PinsRemembered, Pins
<1>4. Below' /\ Accounted' /\ encoder_pulses' \in Int
  <2>1. CASE moved = 0
    <3>1. Pins(knob) = encoder_state
      BY <1>1, <2>1, PulseCounts
    <3>2. UNCHANGED <<queue, encoder_pulses>>
      BY <3>1 DEF RunDriver, DriverTask
    <3> QED BY <1>1, <1>2, <2>1, <3>2 DEF Below, Accounted
  <2>2. CASE moved # 0
    <3> DEFINE m == IF moved \in {-1, 1} THEN moved ELSE 0
    <3>1. Pins(knob) # encoder_state /\ Pulse(encoder_state, Pins(knob)) = m
      <4>1. moved \in {-2, 2} \/ moved \in {-1, 1}
        BY <1>1, <2>2
      <4>2. CASE moved \in {-2, 2}
        BY <1>1, <4>2, PulseCounts
      <4>3. CASE moved \in {-1, 1}
        BY <1>1, <4>3, PulseCounts
      <4> QED BY <4>1, <4>2, <4>3
    <3>2. p = old + m /\ m \in -1..1
      BY <3>1
    <3>3. /\ queue' = Detent(p, <<>>)
          /\ encoder_pulses' = Remainder(p, ENCODER_RESOLUTION)
      BY <1>1, <3>1 DEF RunDriver, DriverTask
    <3>4. turned' = p
      BY <1>1, <1>2, <3>2
    <3> HIDE DEF p, m
    <3>5. p \in Int /\ p <= ENCODER_RESOLUTION /\ p >= -ENCODER_RESOLUTION
      BY <1>1, <3>2
    <3>6. CASE p = ENCODER_RESOLUTION
      <4>1. queue' = <<CCW>> /\ encoder_pulses' = 0
        BY <1>1, <3>3, <3>5, <3>6, DetentQueued, RemainderOnce
      <4> QED BY <1>1, <1>2, <3>4, <3>6, <4>1 DEF Below, Accounted, Told
    <3>7. CASE p = -ENCODER_RESOLUTION
      <4>1. queue' = <<CW>> /\ encoder_pulses' = 0
        BY <1>1, <3>3, <3>5, <3>7, DetentQueued, RemainderOnce
      <4>2. Told(CW) = -ENCODER_RESOLUTION
        BY DEF Told, CW, CCW
      <4> QED BY <1>1, <1>2, <3>4, <3>7, <4>1, <4>2 DEF Below, Accounted
    <3>8. CASE p < ENCODER_RESOLUTION /\ p > -ENCODER_RESOLUTION
      <4>1. queue' = <<>> /\ encoder_pulses' = p
        BY <1>1, <3>3, <3>5, <3>8, DetentQueued, RemainderOnce
      <4> QED BY <1>1, <1>2, <3>4, <3>5, <3>8, <4>1 DEF Below, Accounted
    <3> QED BY <1>1, <3>5, <3>6, <3>7, <3>8
  <2> QED BY <2>1, <2>2
<1>5. KnobTypes'
  BY <1>1, <1>2, <1>4, EncoderLimits DEF KnobTypes, Loops
<1> QED BY <1>3, <1>4, <1>5 DEF RotationInv

\* Every other step of the main loop.
LEMMA OthersAccount ==
    ASSUME RotationInv,
           \/ \E raw \in RawStates, d \in ScanTicks : RunScan(raw, d)
           \/ RunKeyEvent \/ RunEvent \/ EndTurn
           \/ \E d \in {-1, 1} : Turn(d) /\ UNCHANGED <<vars, task>>
           \/ UNCHANGED kvars
    PROVE  RotationInv'
<1> USE DEF RotationInv
<1>1. CASE \E raw \in RawStates, d \in ScanTicks : RunScan(raw, d)
  BY <1>1 DEF RunScan, encoderVars, KnobTypes, PinsRemembered, Below, Accounted, Loops
<1>2. CASE RunKeyEvent
  BY <1>2 DEF RunKeyEvent, encoderVars, KnobTypes, PinsRemembered, Below, Accounted
<1>3. CASE RunEvent
  <2>1. PICK e \in {CW, CCW} : queue = <<e>> /\ turned = encoder_pulses + Told(e)
    BY <1>3 DEF RunEvent, HandleEvent, Accounted
  <2>2. queue' = <<>> /\ turned' = turned - Told(e)
    BY <1>3, <2>1 DEF RunEvent, HandleEvent
  <2>3. UNCHANGED <<knob, moved, encoder_state, encoder_pulses, task>>
    BY <1>3 DEF RunEvent, HandleEvent
  <2>4. Told(e) \in Int /\ encoder_pulses \in Int
    BY EncoderLimits DEF Told, KnobTypes
  <2>5. turned' = encoder_pulses'
    BY <2>1, <2>2, <2>3, <2>4
  <2> QED BY <2>2, <2>3, <2>5 DEF KnobTypes, PinsRemembered, Below, Accounted
<1>4. CASE EndTurn
  BY <1>4 DEF EndTurn, encoderVars, KnobTypes, PinsRemembered, Below, Accounted, Loops
<1>5. CASE \E d \in {-1, 1} : Turn(d) /\ UNCHANGED <<vars, task>>
  <2>1. PICK d \in {-1, 1} : Turn(d) /\ UNCHANGED <<vars, task>>
    BY <1>5
  <2>2. /\ knob' = (knob + d) % 4 /\ moved' = moved + d
        /\ moved' \in -MaxMoved..MaxMoved
        /\ UNCHANGED <<encoder_state, encoder_pulses, queue, turned, task>>
    BY <2>1 DEF Turn
  <2>3. knob \in 0..3 /\ moved \in -2..2
    BY EncoderLimits DEF KnobTypes
  <2>4. knob' \in 0..3 /\ (knob' - moved') % 4 = (knob - moved) % 4
    BY <2>2, <2>3, KnobBack
  <2> QED BY <2>2, <2>4 DEF KnobTypes, PinsRemembered, Below, Accounted
<1>6. CASE UNCHANGED kvars
  BY <1>6 DEF kvars, encoderVars, KnobTypes, PinsRemembered, Below, Accounted
<1> QED BY <1>1, <1>2, <1>3, <1>4, <1>5, <1>6

\* At the end of each turn of the main loop the host knows every full detent
\* the polls saw and the driver keeps the remainder, for any resolution and
\* any queue of at least two slots.
THEOREM EveryDetentReported == KSpec => []RotationReported
<1>1. KInit => RotationInv
  <2> SUFFICES ASSUME KInit PROVE RotationInv
    OBVIOUS
  <2>1. (knob - 0) % 4 = knob /\ ENCODER_RESOLUTION > 0 /\ MaxMoved >= 0
    BY EncoderLimits DEF KInit, EncoderInit
  <2> QED BY <2>1, EncoderLimits DEF KInit, EncoderInit, RotationInv, KnobTypes, PinsRemembered,
              Below, Accounted, Loops, Pins
<1>2. RotationInv /\ [KNext]_kvars => RotationInv'
  BY DriverAccounts, OthersAccount DEF KNext
<1>3. RotationInv => RotationReported
  BY DEF RotationInv, KnobTypes, Below, Accounted, RotationReported
<1> QED BY <1>1, <1>2, <1>3, PTL DEF KSpec
=============================================================================
