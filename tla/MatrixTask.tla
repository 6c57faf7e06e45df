------------------------------ MODULE MatrixTask ------------------------------
(***************************************************************************)
(* From the raw matrix to the host: QMK's matrix_scan() with the global    *)
(* deferred debounce (sym_defer_g.c), and matrix_task(), which turns the   *)
(* difference to the previous matrix into key events, one by one in row    *)
(* and column order.  Keys are numbered in that order.                     *)
(*                                                                         *)
(* What matrix_scan_custom() puts into the raw matrix is an input here:    *)
(* any member of RawStates (HEMatrix says which states it can produce).    *)
(* KeyboardTask places these steps in the main loop.                       *)
(***************************************************************************)
EXTENDS Integers, FiniteSets

CONSTANTS
    Keys,                       \* numbered row by row, column by column
    RawStates,                  \* sets of keys a scan may report as pressed
    DEBOUNCE,                   \* ms without a raw change before the copy
    TimerMod,                   \* timer_read_fast() is a uint32_t
    ScanTicks                   \* ms a scan may take

ASSUME TaskInputs ==
    /\ Keys \subseteq Nat /\ IsFiniteSet(Keys)
    /\ {} \in RawStates /\ RawStates \subseteq SUBSET Keys

\* No scan is so long that the timer runs round within it.
ASSUME TaskTimer ==
    /\ DEBOUNCE \in 1..255
    /\ TimerMod \in Nat /\ ScanTicks \subseteq Nat
    /\ \A d \in ScanTicks : DEBOUNCE + d < TimerMod

VARIABLES
    raw_matrix, matrix,         \* sets of pressed keys: raw and debounced
    debouncing, debouncing_time,
    matrix_previous,            \* matrix of the last pass of matrix_task
    pending,                    \* changed keys the pass has not yet handled
    host,                       \* keys down in the last report sent
    now                         \* timer_read_fast()

vars == <<raw_matrix, matrix, debouncing, debouncing_time, matrix_previous,
          pending, host, now>>

TypeOK ==
    /\ raw_matrix \in RawStates
    /\ matrix \in SUBSET Keys
    /\ debouncing \in BOOLEAN
    /\ debouncing_time \in 0..(TimerMod - 1)
    /\ matrix_previous \in SUBSET Keys
    /\ pending \in SUBSET Keys
    /\ host \in SUBSET Keys
    /\ now \in 0..(TimerMod - 1)

\* matrix_init: all keys off.  The two scans of bootmagic_scan() that follow
\* leave it so: HE_DEBOUNCE is 5, so HEMatrix reports nothing that early.
Init ==
    /\ raw_matrix = {} /\ matrix = {} /\ matrix_previous = {}
    /\ debouncing = FALSE /\ debouncing_time = 0
    /\ pending = {} /\ host = {}
    /\ now \in 0..(TimerMod - 1)

SymmetricDifference(s, t) == (s \ t) \cup (t \ s)

\* timer_read_fast, d ms later
ReadFast(d) == (now + d) % TimerMod

\* timer_elapsed_fast
Elapsed(t) == (t - debouncing_time) % TimerMod

CookedMerge(raw, cooked) == cooked \cup raw \* mutant: bits are set, never cleared

\* memcpy(cooked, raw): the whole matrix at once.
Cooked(raw, cooked) == raw

ExpiredAbsolute(t) == t >= debouncing_time + DEBOUNCE \* mutant: no modular difference

Expired(t) == Elapsed(t) >= DEBOUNCE

\* debounce() of sym_defer_g.c: a change restarts the window, a quiet window
\* publishes the raw matrix.
Debounce(raw, t) ==
    \/ /\ raw # raw_matrix
       /\ debouncing' = TRUE /\ debouncing_time' = t
       /\ UNCHANGED matrix
    \/ /\ raw = raw_matrix /\ debouncing /\ Expired(t)
       /\ matrix' = Cooked(raw, matrix) /\ debouncing' = FALSE
       /\ UNCHANGED debouncing_time
    \/ /\ raw = raw_matrix /\ ~(debouncing /\ Expired(t))
       /\ UNCHANGED <<matrix, debouncing, debouncing_time>>

\* matrix_task: one scan that takes d ms and reads `raw`, then the comparison
\* with the previous matrix.
MatrixScan(raw, d) ==
    /\ pending = {}
    /\ now' = ReadFast(d)
    /\ raw_matrix' = raw
    /\ Debounce(raw, now')
    /\ pending' = SymmetricDifference(matrix', matrix_previous)
    /\ UNCHANGED <<matrix_previous, host>>

ExecSkipsLast(k) == \* mutant: the last changed key gets no event
    IF pending = {k} THEN host ELSE SymmetricDifference(host, {k})

\* action_exec: the event of key k reaches the report.
Exec(k) == SymmetricDifference(host, {k})

\* matrix_task: the next key event, in row and column order; the new state of
\* a row becomes the previous one once its events are out.
KeyEvent ==
    \E k \in pending :
        /\ \A j \in pending : k <= j
        /\ host' = Exec(k)
        /\ pending' = pending \ {k}
        /\ matrix_previous' = SymmetricDifference(matrix_previous, {k})
        /\ UNCHANGED <<raw_matrix, matrix, debouncing, debouncing_time, now>>

Next ==
    \/ \E raw \in RawStates, d \in ScanTicks : MatrixScan(raw, d)
    \/ KeyEvent

Spec == Init /\ [][Next]_vars

-----------------------------------------------------------------------------
\* The deferral loses nothing: once the raw matrix stops changing, the host's
\* report ends up equal to it, in spite of timer wrap, of changes that were
\* undone inside the window and of events still being sent.
HostCatchesUp ==
    \A s \in RawStates : <>[](raw_matrix = s) => <>[](host = s)

\* Keys that no scan ever reports together, such as a key-cancel pair.
Exclusive(ks) == \A s \in RawStates : ~(ks \subseteq s)

\* matrix_task sends presses and releases in row and column order, so the host
\* may see the new key of a key-cancel pair before the old one is released.
\* That overlap is a hand-over and nothing more: whenever all keys of an
\* exclusive set are down at the host, the published matrix has already
\* dropped one of them and its release is still to come in the same pass.
OverlapIsHandOver ==
    \A ks \in SUBSET Keys :
        Exclusive(ks) /\ ks \subseteq host => \E k \in ks \ matrix : k \in pending

\* Between passes the host knows the published matrix.
HostFollowsMatrix == pending = {} => host = matrix
=============================================================================
