------------------------------ MODULE PowerSave ------------------------------
(***************************************************************************)
(* component/powersave: the mode of the device and the broadcast that goes *)
(* with it.  Set swaps the mode and only then closes the channel Changed   *)
(* handed out, so a reader that takes the two in the wrong order can sleep *)
(* through a change.  A waiter is a goroutine that keeps one channel at a  *)
(* time; woken[w] says that the channel w took last has been closed.       *)
(***************************************************************************)
CONSTANT Waiters     \* the goroutines that call Changed

VARIABLES
    mode,        \* mode: atomic.Int32
    setting,     \* Set has swapped the mode and still holds mu
    woken        \* per waiter: the channel it holds is closed

psVars == <<mode, setting, woken>>

Active     == "active"
Background == "background"
Idle       == "idle"
Modes      == {Active, Background, Idle}

PsInit ==
    /\ mode = Active
    /\ setting = FALSE
    /\ woken = [w \in Waiters |-> FALSE]

(* Set, first half: mode.Swap under mu; the same mode again is a no-op. *)
SetSwap(m) ==
    /\ ~setting
    /\ m # mode
    /\ mode' = m
    /\ setting' = TRUE
    /\ UNCHANGED woken

(* Set, second half: close(changed), a fresh channel, and mu released. *)
SetClose ==
    /\ setting
    /\ woken' = [w \in Waiters |-> TRUE]
    /\ setting' = FALSE
    /\ UNCHANGED mode

PsNext == SetClose \/ \E m \in Modes : SetSwap(m)

(* Changed: the current channel, read under mu. *)
Changed(w) ==
    /\ ~setting
    /\ woken' = [woken EXCEPT ![w] = FALSE]
    /\ UNCHANGED <<mode, setting>>
=============================================================================
