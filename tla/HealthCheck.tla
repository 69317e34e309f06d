----------------------------- MODULE HealthCheck -----------------------------
(***************************************************************************)
(* The periodic health check of one proxy provider under power saving:     *)
(* HealthCheck.processPowerSave, its timer, and the checks other           *)
(* goroutines start through the same singledo.  Time advances by Tick, in  *)
(* units longer than the singledo's one second; every age saturates at the *)
(* background interval, beyond which nothing is told apart.  The timer is  *)
(* the pre-1.23 one of the module's go.mod: a tick that was sent stays in  *)
(* the channel until it is drained.                                        *)
(***************************************************************************)
EXTENDS PowerSave, Integers

CONSTANTS
    Interval,             \* hc.interval
    BackgroundInterval,   \* backgroundInterval, the longer one
    Lazy                  \* hc.lazy

\* With an hc.interval longer than the background one the mode makes no difference.
ASSUME HealthAssumption ==
    /\ Interval \in Nat \ {0}
    /\ BackgroundInterval \in Nat
    /\ Interval <= BackgroundInterval

VARIABLES
    loop,       \* processPowerSave: its step, the mode it read, and `first`
    timer,      \* time left, or Stopped
    fired,      \* a tick lies in timer.C
    sched,      \* age of `scheduled`
    checked,    \* age of lastCheck
    touched,    \* age of lastTouch
    call,       \* who runs the singledo's function
    recent      \* the singledo still holds a result

hcVars == <<loop, timer, fired, sched, checked, touched, call, recent>>
vars == <<psVars, hcVars>>

Stopped == BackgroundInterval + 1
Ages    == 0 .. BackgroundInterval
Me      == "health"
Nobody  == "nobody"
Other   == "other"        \* a group's or the API's check
Steps   == {"changed", "mode", "arm", "select", "tick", "check", "run", "join"}

TypeOK ==
    /\ mode \in Modes /\ setting \in BOOLEAN /\ woken \in [Waiters -> BOOLEAN]
    /\ loop \in [at : Steps, mode : Modes, first : BOOLEAN]
    /\ timer \in Ages \cup {Stopped} /\ fired \in BOOLEAN
    /\ sched \in Ages /\ checked \in Ages /\ touched \in Ages
    /\ call \in {Nobody, Other, Me} /\ recent \in BOOLEAN

(* A new timer of delay 0; the zero times `scheduled` and lastCheck are old. *)
Init ==
    /\ PsInit
    /\ loop = [at |-> "changed", mode |-> Active, first |-> TRUE]
    /\ timer = 0
    /\ fired = FALSE
    /\ sched = BackgroundInterval
    /\ checked = BackgroundInterval
    /\ touched = BackgroundInterval
    /\ call = Nobody
    /\ recent = FALSE

Goto(l) == loop' = [loop EXCEPT !.at = l]

(* Unless hc.interval is the longer of the two, Background waits longer. *)
IntervalIn(m) == IF m = Background THEN BackgroundInterval ELSE Interval

Older(a, b) == IF a < b THEN b ELSE a

TakeChanged ==
    /\ loop.at = "changed"
    /\ Changed(Me)
    /\ Goto("mode")
    /\ UNCHANGED <<timer, fired, sched, checked, touched, call, recent>>

ReadMode ==
    /\ loop.at = "mode"
    /\ loop' = [loop EXCEPT !.at = "arm", !.mode = mode]
    /\ UNCHANGED <<psVars, timer, fired, sched, checked, touched, call, recent>>

(* Mutant: a tick that already lies in the channel is not drained. *)
ArmUndrained ==
    /\ loop.at = "arm"
    /\ timer' = IF loop.mode = Idle THEN Stopped
                ELSE IF loop.first THEN 0
                ELSE LET last == IF checked < sched THEN checked ELSE sched
                     IN  Older(0, IntervalIn(loop.mode) - last)
    /\ Goto("select")
    /\ UNCHANGED <<psVars, fired, sched, checked, touched, call, recent>>

(* Mutant: the timer is armed in every mode. *)
ArmAlways ==
    /\ loop.at = "arm"
    /\ fired' = FALSE
    /\ timer' = IF loop.first THEN 0
                ELSE LET last == IF checked < sched THEN checked ELSE sched
                     IN  Older(0, IntervalIn(loop.mode) - last)
    /\ Goto("select")
    /\ UNCHANGED <<psVars, sched, checked, touched, call, recent>>

(* Stop and drain; unless Idle, wait for what is left of the interval since *)
(* the later of the last scheduled and the last finished check.             *)
Arm ==
    /\ loop.at = "arm"
    /\ fired' = FALSE
    /\ timer' = IF loop.mode = Idle THEN Stopped
                ELSE IF loop.first THEN 0
                ELSE LET last == IF checked < sched THEN checked ELSE sched
                     IN  Older(0, IntervalIn(loop.mode) - last)
    /\ Goto("select")
    /\ UNCHANGED <<psVars, sched, checked, touched, call, recent>>

SelectChanged ==
    /\ loop.at = "select"
    /\ woken[Me]
    /\ Goto("changed")
    /\ UNCHANGED <<psVars, timer, fired, sched, checked, touched, call, recent>>

SelectTick ==
    /\ loop.at = "select"
    /\ loop.mode # Idle
    /\ fired
    /\ fired' = FALSE
    /\ Goto("tick")
    /\ UNCHANGED <<psVars, timer, sched, checked, touched, call, recent>>

(* The tick: given up if the mode moved on, else a scheduled check, which a *)
(* lazy provider nothing touched within hc.interval leaves out.             *)
OnTick ==
    /\ loop.at = "tick"
    /\ IF mode # loop.mode
       THEN /\ Goto("changed")
            /\ UNCHANGED sched
       ELSE /\ sched' = 0
            /\ loop' = [loop EXCEPT
                          !.first = FALSE,
                          !.at = IF loop.first \/ ~Lazy \/ touched < Interval
                                 THEN "check" ELSE "changed"]
    /\ UNCHANGED <<psVars, timer, fired, checked, touched, call, recent>>

(* check, through singledo.Do: a result not yet a second old will do, a     *)
(* running call is joined, else this goroutine runs the probes.             *)
DoCheck ==
    /\ loop.at = "check"
    /\ \/ recent /\ Goto("changed") /\ UNCHANGED call
       \/ ~recent /\ call = Nobody /\ call' = Me /\ Goto("run")
       \/ ~recent /\ call # Nobody /\ Goto("join") /\ UNCHANGED call
    /\ UNCHANGED <<psVars, timer, fired, sched, checked, touched, recent>>

(* The same Do by another goroutine; only one that runs the probes matters. *)
OtherCheck ==
    /\ ~recent
    /\ call = Nobody
    /\ call' = Other
    /\ UNCHANGED <<psVars, loop, timer, fired, sched, checked, touched, recent>>

(* The probes have all answered or timed out: lastCheck is stored, the call *)
(* is over, its result kept, and those who joined go on.                    *)
FinishCheck ==
    /\ call # Nobody
    /\ checked' = 0
    /\ recent' = TRUE
    /\ call' = Nobody
    /\ IF loop.at \in {"run", "join"} THEN Goto("changed") ELSE UNCHANGED loop
    /\ UNCHANGED <<psVars, timer, fired, sched, touched>>

(* touch, by a group that was asked for its proxies. *)
Touch ==
    /\ touched' = 0
    /\ UNCHANGED <<psVars, loop, timer, fired, sched, checked, call, recent>>

TimerFires ==
    /\ timer = 0
    /\ timer' = Stopped
    /\ fired' = TRUE
    /\ UNCHANGED <<psVars, loop, sched, checked, touched, call, recent>>

Saturate(a) == IF a < BackgroundInterval THEN a + 1 ELSE a

Tick ==
    /\ timer # 0
    /\ timer' = IF timer = Stopped THEN Stopped ELSE timer - 1
    /\ sched' = Saturate(sched)
    /\ checked' = Saturate(checked)
    /\ touched' = Saturate(touched)
    /\ recent' = FALSE
    /\ UNCHANGED <<psVars, loop, fired, call>>

LoopStep ==
    \/ TakeChanged \/ ReadMode \/ Arm
    \/ SelectChanged \/ SelectTick \/ OnTick \/ DoCheck

Next ==
    \/ LoopStep
    \/ FinishCheck
    \/ OtherCheck
    \/ Touch
    \/ TimerFires
    \/ Tick
    \/ PsNext /\ UNCHANGED hcVars

(* Goroutines run, Set completes, timers expire and probes time out; nobody *)
(* promises another mode, another check or another touch.                   *)
Fairness ==
    /\ WF_vars(LoopStep)
    /\ WF_vars(FinishCheck)
    /\ WF_vars(TimerFires)
    /\ WF_vars(Tick)
    /\ WF_vars(SetClose /\ UNCHANGED hcVars)

Spec == Init /\ [][Next]_vars /\ Fairness

-----------------------------------------------------------------------------
(* No catch-up storm: after the first check, two scheduled checks are never *)
(* closer than the interval of the mode the loop is in, whatever the mode   *)
(* changes, the ticks left over in the channel and the checks of others in  *)
(* between (processPowerSave's "resume catches up once").                   *)
SpacedChecks ==
    [][ (OnTick /\ sched' = 0 /\ ~loop.first) => sched >= IntervalIn(mode) ]_vars

(* The loop follows the mode: left in Idle it comes to rest with no timer   *)
(* armed and no tick pending, left in another mode it keeps on ticking.      *)
PeriodicFollowsMode ==
    /\ <>[](mode = Idle) =>
           <>[](loop.at = "select" /\ loop.mode = Idle /\ timer = Stopped /\ ~fired)
    /\ \A m \in Modes \ {Idle} : <>[](mode = m) => []<>(loop.at = "tick")
=============================================================================
