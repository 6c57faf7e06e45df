------------------------------- MODULE Encoder -------------------------------
(***************************************************************************)
(* The rotary encoder: the quadrature driver (encoder_quadrature.c) and    *)
(* the event queue of quantum/encoder.c, for the board's one encoder.  The *)
(* driver polls the two pins once per turn of the main loop; KeyboardTask  *)
(* puts these steps into the loop.                                         *)
(*                                                                         *)
(* The knob is the environment.  It moves by quarter steps, in either      *)
(* direction (contact bounce is a step and back), at any moment.  `moved`  *)
(* is how far it went since the last poll and `turned` how far the polls   *)
(* could see it go beyond the detents the host was told of.                *)
(***************************************************************************)
EXTENDS Integers, Sequences

CONSTANTS
    ENCODER_RESOLUTION,         \* quarter steps per reported detent
    MAX_QUEUED_ENCODER_EVENTS,  \* slots of the ring; one always stays empty
    MaxMoved                    \* quarter steps the knob may make per poll

ASSUME EncoderLimits ==
    /\ ENCODER_RESOLUTION \in 1..127
    /\ MAX_QUEUED_ENCODER_EVENTS \in 2..255
    /\ MaxMoved \in 0..2        \* three look like one step backwards

VARIABLES
    knob,                       \* quarter of the mechanical period, 0..3
    moved,                      \* quarter steps since the last poll
    encoder_state,              \* low two bits: the last reading of the pins
    encoder_pulses,             \* int8_t accumulated quarter steps
    queue,                      \* encoder_events, oldest first
    turned                      \* observed quarter steps not yet reported

encoderVars == <<knob, moved, encoder_state, encoder_pulses, queue, turned>>

CW  == "cw"
CCW == "ccw"

\* Pin A in bit 0, pin B in bit 1, in each quarter of the period.
Pins(k) == <<0, 2, 3, 1>>[k + 1]

EncoderTypeOK ==
    /\ knob \in 0..3
    /\ moved \in -MaxMoved..MaxMoved
    /\ encoder_state \in 0..3
    /\ encoder_pulses \in (1 - ENCODER_RESOLUTION)..(ENCODER_RESOLUTION - 1)
    /\ queue \in Seq({CW, CCW}) /\ Len(queue) < MAX_QUEUED_ENCODER_EVENTS
    /\ turned \in Int

\* encoder_init and encoder_driver_init: the pins are read once.
EncoderInit ==
    /\ knob \in 0..3
    /\ moved = 0 /\ turned = 0
    /\ encoder_state = Pins(knob)
    /\ encoder_pulses = 0
    /\ queue = <<>>

\* The knob makes a quarter step.
Turn(d) ==
    /\ moved + d \in -MaxMoved..MaxMoved
    /\ moved' = moved + d
    /\ knob' = (knob + d) % 4
    /\ UNCHANGED <<encoder_state, encoder_pulses, queue, turned>>

PulseNoReturn(old, new) == \* mutant: a wrong entry, 10 -> 00 counts nothing
    <<0, -1, 1, 0,  1, 0, 0, -1,  0, 0, 0, 1,  0, 1, -1, 0>>[4 * old + new + 1]

\* encoder_LUT, indexed by the old and the new reading.
Pulse(old, new) ==
    <<0, -1, 1, 0,  1, 0, 0, -1,  -1, 0, 0, 1,  0, 1, -1, 0>>[4 * old + new + 1]

\* C's %, which truncates towards zero.
Remainder(p, r) == IF p >= 0 THEN p % r ELSE -((-p) % r)

\* encoder_queue_event: a full ring drops the event.
Enqueue(q, e) == IF Len(q) = MAX_QUEUED_ENCODER_EVENTS - 1 THEN q
                 ELSE Append(q, e)

\* encoder_handle_state_change: a full resolution in one direction is an event.
Detent(p, q) ==
    IF p >= ENCODER_RESOLUTION THEN Enqueue(q, CCW)
    ELSE IF p <= -ENCODER_RESOLUTION THEN Enqueue(q, CW) ELSE q

\* encoder_driver_task: encoder_quadrature_handle_read with the current pins.
DriverTask ==
    /\ LET p == encoder_pulses + Pulse(encoder_state, Pins(knob)) IN
       IF Pins(knob) # encoder_state
       THEN /\ encoder_state' = Pins(knob)
            /\ queue' = Detent(p, queue)
            /\ encoder_pulses' = Remainder(p, ENCODER_RESOLUTION)
       ELSE UNCHANGED <<encoder_state, queue, encoder_pulses>>
    /\ turned' = IF moved \in {-1, 1} THEN turned + moved ELSE turned
    /\ moved' = 0
    /\ UNCHANGED knob

\* What an event tells the host, in quarter steps.
Told(e) == IF e = CCW THEN ENCODER_RESOLUTION ELSE -ENCODER_RESOLUTION

\* encoder_handle_queue, one event: dequeued, then pressed and released with
\* no delay between (TAP_CODE_DELAY is 0).
HandleEvent ==
    /\ queue # <<>>
    /\ turned' = turned - Told(Head(queue))
    /\ queue' = Tail(queue)
    /\ UNCHANGED <<knob, moved, encoder_state, encoder_pulses>>
=============================================================================
