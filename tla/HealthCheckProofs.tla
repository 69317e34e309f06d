-------------------------- MODULE HealthCheckProofs --------------------------
(***************************************************************************)
(* The spacing of the scheduled health checks, for every interval.         *)
(* SpacedChecks speaks of the step that runs a check, but what makes it    *)
(* true is decided when the timer is armed: from then on the time left and *)
(* the age of the last scheduled check add up to the interval of the mode  *)
(* the loop read, and a tick in the channel means that the interval is     *)
(* over.  That, and that Arm leaves no older tick behind, is Spaced.       *)
(***************************************************************************)
EXTENDS HealthCheck, TLAPS

\* A leaf that names no prover is for SMT. The limit is generous: most leaves
\* take well under a second of it.
USE SMTT(120)

Ready == sched >= IntervalIn(loop.mode)

(* After the first check: a tick that lies in the channel, or was taken     *)
(* from it, comes after the interval; the one to come will too.             *)
Spaced ==
    ~loop.first =>
        /\ loop.at = "select" /\ fired => Ready
        /\ loop.at = "select" /\ timer # Stopped =>
               timer + sched >= IntervalIn(loop.mode)
        /\ loop.at = "tick" => Ready

HealthInv == TypeOK /\ Spaced

-----------------------------------------------------------------------------
(* The interval of a mode is positive and no longer than the background one. *)
LEMMA IntervalBounds ==
    ASSUME NEW m \in Modes
    PROVE  IntervalIn(m) \in Nat /\ IntervalIn(m) > 0 /\ IntervalIn(m) <= BackgroundInterval
BY HealthAssumption DEF IntervalIn

(* An age that grows by a tick stays an age, and saturates at an interval    *)
(* no mode exceeds.                                                          *)
LEMMA SaturateIs ==
    ASSUME NEW a \in Ages
    PROVE  /\ Saturate(a) \in Ages
           /\ Saturate(a) >= a
           /\ Saturate(a) = a + 1 \/ Saturate(a) = BackgroundInterval
BY HealthAssumption DEF Saturate, Ages

(* The loop and the timer start in their types, before the first check. *)
LEMMA HealthInit == Init => HealthInv
<1> SUFFICES ASSUME Init PROVE HealthInv
    OBVIOUS
<1>1. mode \in Modes /\ setting \in BOOLEAN /\ woken \in [Waiters -> BOOLEAN]
  BY ZenonT(120) DEF Init, PsInit, Modes
<1>2. loop \in [at : Steps, mode : Modes, first : BOOLEAN]
  BY DEF Init, Steps, Modes
<1>3. timer \in Ages /\ sched \in Ages /\ checked \in Ages /\ touched \in Ages
  BY HealthAssumption DEF Init, Ages
<1>4. fired \in BOOLEAN /\ call \in {Nobody, Other, Me} /\ recent \in BOOLEAN
  BY ZenonT(120) DEF Init
<1>5. Spaced
  BY DEF Init, Spaced
<1> QED
  BY <1>1, <1>2, <1>3, <1>4, <1>5 DEF HealthInv, TypeOK

(* Every step of the loop, the timer, the other checks and Set keeps the    *)
(* types: a timer that Arm sets is at most the background interval.         *)
LEMMA TypeStep == TypeOK /\ [Next]_vars => TypeOK'
<1> SUFFICES ASSUME TypeOK, [Next]_vars PROVE TypeOK'
    OBVIOUS
<1> USE DEF TypeOK
<1>1. CASE UNCHANGED vars
  BY <1>1 DEF vars, psVars, hcVars
<1>2. CASE TakeChanged
  BY <1>2, ZenonT(120) DEF TakeChanged, Changed, Goto, Steps
<1>3. CASE ReadMode
  BY <1>3, ZenonT(120) DEF ReadMode, psVars, Steps
<1>4. CASE Arm
  <2>1. timer' \in Ages \cup {Stopped}
    <3> DEFINE last == IF checked < sched THEN checked ELSE sched
    <3>1. last \in Ages
      OBVIOUS
    <3>2. Older(0, IntervalIn(loop.mode) - last) \in Ages
      BY <3>1, IntervalBounds, HealthAssumption DEF Older, Ages
    <3>3. 0 \in Ages
      BY HealthAssumption DEF Ages
    <3> QED
      BY <1>4, <3>2, <3>3 DEF Arm
  <2> QED
    BY <1>4, <2>1, ZenonT(120) DEF Arm, Goto, Steps, psVars
<1>5. CASE SelectChanged
  BY <1>5 DEF SelectChanged, Goto, Steps, psVars
<1>6. CASE SelectTick
  BY <1>6, ZenonT(120) DEF SelectTick, Goto, Steps, psVars
<1>7. CASE OnTick
  <2>1. sched' \in Ages
    BY <1>7, HealthAssumption DEF OnTick, Ages
  <2>2. loop' \in [at : Steps, mode : Modes, first : BOOLEAN]
    BY <1>7, ZenonT(120) DEF OnTick, Goto, Steps
  <2> QED
    BY <1>7, <2>1, <2>2 DEF OnTick, psVars
<1>8. CASE DoCheck
  BY <1>8 DEF DoCheck, Goto, Steps, psVars
<1>9. CASE FinishCheck
  <2>1. checked' \in Ages
    BY <1>9, HealthAssumption DEF FinishCheck, Ages
  <2> QED
    BY <1>9, <2>1 DEF FinishCheck, Goto, Steps, psVars
<1>10. CASE OtherCheck
  BY <1>10 DEF OtherCheck, psVars
<1>11. CASE Touch
  <2>1. touched' \in Ages
    BY <1>11, HealthAssumption DEF Touch, Ages
  <2> QED
    BY <1>11, <2>1 DEF Touch, psVars
<1>12. CASE TimerFires
  BY <1>12 DEF TimerFires, psVars
<1>13. CASE Tick
  <2>1. timer' \in Ages \cup {Stopped}
    BY <1>13, HealthAssumption DEF Tick, Ages, Stopped
  <2>2. sched' \in Ages /\ checked' \in Ages /\ touched' \in Ages
    BY <1>13, SaturateIs DEF Tick
  <2> QED
    BY <1>13, <2>1, <2>2, ZenonT(120) DEF Tick, psVars
<1>14. CASE PsNext /\ UNCHANGED hcVars
  BY <1>14, ZenonT(120) DEF PsNext, SetSwap, SetClose, hcVars
<1> QED
  BY <1>1, <1>2, <1>3, <1>4, <1>5, <1>6, <1>7, <1>8, <1>9, <1>10, <1>11,
     <1>12, <1>13, <1>14 DEF Next, LoopStep

(* Every step keeps the spacing: Arm establishes it, time moves what is     *)
(* left on the timer to the age of the last check, and nothing else lets a  *)
(* tick into the channel or makes the last check younger.                   *)
LEMMA SpacedStep == HealthInv /\ [Next]_vars => Spaced'
<1> SUFFICES ASSUME TypeOK, Spaced, [Next]_vars PROVE Spaced'
    BY DEF HealthInv
<1> USE DEF TypeOK
<1>1. CASE UNCHANGED vars
  BY <1>1 DEF vars, hcVars, Spaced, Ready, IntervalIn
<1>2. CASE TakeChanged
  BY <1>2 DEF TakeChanged, Goto, Spaced
<1>3. CASE ReadMode
  BY <1>3 DEF ReadMode, Spaced
<1>4. CASE Arm
  <2> DEFINE last == IF checked < sched THEN checked ELSE sched
             i    == IntervalIn(loop.mode)
  <2>1. /\ loop'.at = "select" /\ loop'.mode = loop.mode /\ loop'.first = loop.first
        /\ ~fired' /\ sched' = sched
    BY <1>4 DEF Arm, Goto
  <2>2. ASSUME ~loop.first, timer' # Stopped PROVE timer' + sched >= i
    <3>1. timer' = Older(0, i - last)
      BY <1>4, <2>2 DEF Arm
    <3>2. last \in Int /\ last <= sched /\ sched \in Int /\ i \in Int
      BY IntervalBounds, HealthAssumption DEF Ages
    <3>3. Older(0, i - last) >= i - last /\ Older(0, i - last) \in Int
      BY <3>2 DEF Older
    <3> QED
      BY <3>1, <3>2, <3>3
  <2>3. IntervalIn(loop.mode)' = i
    BY <2>1 DEF IntervalIn
  <2> QED
    BY <2>1, <2>2, <2>3 DEF Spaced, Stopped
<1>5. CASE SelectChanged
  BY <1>5 DEF SelectChanged, Goto, Spaced
<1>6. CASE SelectTick
  BY <1>6 DEF SelectTick, Goto, Spaced, Ready, IntervalIn
<1>7. CASE OnTick
  BY <1>7, ZenonT(120) DEF OnTick, Goto, Spaced
<1>8. CASE DoCheck
  BY <1>8 DEF DoCheck, Goto, Spaced
<1>9. CASE FinishCheck
  BY <1>9 DEF FinishCheck, Goto, Spaced, Ready, IntervalIn, Stopped
<1>10. CASE OtherCheck \/ Touch
  BY <1>10 DEF OtherCheck, Touch, Spaced, Ready, IntervalIn, Stopped
<1>11. CASE TimerFires
  <2>1. 0 # Stopped
    BY HealthAssumption DEF Stopped
  <2> QED
    BY <1>11, <2>1, IntervalBounds, HealthAssumption
       DEF TimerFires, Spaced, Ready, IntervalIn, Stopped, Ages
<1>12. CASE Tick
  <2> DEFINE i == IntervalIn(loop.mode)
  <2>1. /\ loop' = loop /\ fired' = fired /\ sched' = Saturate(sched)
        /\ IntervalIn(loop.mode)' = i
    BY <1>12 DEF Tick, IntervalIn
  <2>2. sched \in Int /\ i \in Int /\ i <= BackgroundInterval
    BY IntervalBounds, HealthAssumption DEF Ages
  <2>3. Saturate(sched) \in Int /\ Saturate(sched) >= sched
    BY SaturateIs, HealthAssumption DEF Ages
  <2>4. ASSUME timer' # Stopped
        PROVE  timer # Stopped /\ timer' = timer - 1 /\ timer \in Int /\ timer' >= 0
    BY <1>12, <2>4, HealthAssumption DEF Tick, Ages, Stopped
  <2>5. ASSUME timer' # Stopped, timer + sched >= i PROVE timer' + sched' >= i
    <3>1. CASE Saturate(sched) = sched + 1
      BY <2>1, <2>2, <2>4, <2>5, <3>1
    <3>2. CASE Saturate(sched) = BackgroundInterval
      BY <2>1, <2>2, <2>4, <2>5, <3>2, HealthAssumption
    <3> QED
      BY <3>1, <3>2, SaturateIs
  <2>6. Ready => Ready'
    BY <2>1, <2>2, <2>3 DEF Ready
  <2> HIDE DEF i
  <2> QED
    BY <2>1, <2>4, <2>5, <2>6 DEF Spaced, Stopped, i
<1>13. CASE PsNext /\ UNCHANGED hcVars
  BY <1>13 DEF hcVars, Spaced, Ready, IntervalIn, Stopped
<1> QED
  BY <1>1, <1>2, <1>3, <1>4, <1>5, <1>6, <1>7, <1>8, <1>9, <1>10, <1>11,
     <1>12, <1>13 DEF Next, LoopStep

(* The invariant holds in every state, whatever the mode does: types, and   *)
(* a timer that keeps the interval of the mode the loop read.               *)
THEOREM HealthInvHolds == Spec => []HealthInv
<1>1. HealthInv /\ [Next]_vars => HealthInv'
  BY TypeStep, SpacedStep DEF HealthInv
<1> QED
  BY HealthInit, <1>1, PTL DEF Spec

(* No catch-up storm, for every interval: after the first check,            *)
(* processPowerSave never runs a scheduled check sooner after the previous  *)
(* one than the interval of the current mode, whatever Set, the other       *)
(* goroutines' checks and a tick left in the channel do in between.         *)
THEOREM SpacedChecksHolds == Spec => SpacedChecks
<1> DEFINE Step == (OnTick /\ sched' = 0 /\ ~loop.first) => sched >= IntervalIn(mode)
<1>1. HealthInv => [Step]_vars
  <2> SUFFICES ASSUME HealthInv, OnTick, sched' = 0, ~loop.first
               PROVE  sched >= IntervalIn(mode)
      OBVIOUS
  <2>1. sched >= IntervalIn(loop.mode) /\ loop.mode \in Modes
    BY DEF HealthInv, TypeOK, Spaced, Ready, OnTick
  <2>2. sched # 0
    BY <2>1, IntervalBounds
  <2>3. mode = loop.mode
    BY <2>2 DEF OnTick
  <2> QED
    BY <2>1, <2>3
<1> QED
  BY HealthInvHolds, <1>1, PTL DEF SpacedChecks
=============================================================================
