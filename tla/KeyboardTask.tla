---------------------------- MODULE KeyboardTask ----------------------------
(***************************************************************************)
(* keyboard_task(): each turn of the main loop runs matrix_task() to the   *)
(* end, all its key events included (MatrixTask), and then encoder_task()  *)
(* (Encoder).  The knob turns whenever it likes.                           *)
(***************************************************************************)
EXTENDS MatrixTask, Encoder

VARIABLE task                   \* the next call: "matrix", "driver", "queue"

kvars == <<vars, encoderVars, task>>

KInit == Init /\ EncoderInit /\ task = "matrix"

RunScan(raw, d) ==
    /\ task = "matrix" /\ task' = "driver"
    /\ MatrixScan(raw, d)
    /\ UNCHANGED encoderVars

RunKeyEvent == KeyEvent /\ UNCHANGED <<encoderVars, task>>

RunDriver ==
    /\ task = "driver" /\ pending = {} /\ task' = "queue"
    /\ DriverTask
    /\ UNCHANGED vars

RunEvent == task = "queue" /\ HandleEvent /\ UNCHANGED <<vars, task>>

EndTurn ==
    /\ task = "queue" /\ queue = <<>> /\ task' = "matrix"
    /\ UNCHANGED <<vars, encoderVars>>

KNext ==
    \/ \E raw \in RawStates, d \in ScanTicks : RunScan(raw, d)
    \/ RunKeyEvent \/ RunDriver \/ RunEvent \/ EndTurn
    \/ \E d \in {-1, 1} : Turn(d) /\ UNCHANGED <<vars, task>>

KSpec == KInit /\ [][KNext]_kvars

\* The main loop never stops, and it cannot spin for ever inside one
\* millisecond.  Nobody has to turn the knob.
KFairness ==
    /\ WF_kvars(RunKeyEvent \/ RunDriver \/ RunEvent \/ EndTurn)
    /\ SF_kvars(\E raw \in RawStates, d \in ScanTicks \ {0} : RunScan(raw, d))

KFairSpec == KSpec /\ KFairness

-----------------------------------------------------------------------------
KTypeOK == TypeOK /\ EncoderTypeOK /\ task \in {"matrix", "driver", "queue"}

\* No detent is lost, invented, reversed or kept waiting: at the end of a turn
\* of the loop the host has been told of every full detent the polls saw, in
\* either direction, through bounce and through steps too fast for the loop
\* (two quarter steps in one turn read as none), and what the driver keeps
\* for the next one is exactly the remainder.
RotationReported ==
    task = "matrix" => /\ turned = encoder_pulses
                       /\ turned < ENCODER_RESOLUTION
                       /\ turned > -ENCODER_RESOLUTION
=============================================================================
