------------------------------ MODULE IdleSweep ------------------------------
(***************************************************************************)
(* tunnel/powersave.go, sweepIdleSessions, over one Hysteria2 outbound     *)
(* whose sessionActivity counts the dials and streams on its QUIC session. *)
(* The sweep timer and idleSessionAge may elapse at any moment.            *)
(***************************************************************************)
EXTENDS PowerSave

CONSTANT Dials      \* dials through the session

VARIABLES
    sweeper,      \* where sweepIdleSessions is
    dial,         \* per dial: idle, dialing, open
    session       \* sessionActivity, and whether the QUIC session is up

vars == <<psVars, sweeper, dial, session>>

TypeOK ==
    /\ mode \in Modes /\ setting \in BOOLEAN /\ woken \in [Waiters -> BOOLEAN]
    /\ sweeper \in {"changed", "mode", "parked", "sweep", "timer"}
    /\ dial \in [Dials -> {"idle", "dialing", "open"}]
    /\ session \in [up : BOOLEAN, old : BOOLEAN, idleClosed : BOOLEAN]

Init ==
    /\ PsInit
    /\ sweeper = "changed"
    /\ dial = [d \in Dials |-> "idle"]
    /\ session = [up |-> FALSE, old |-> TRUE, idleClosed |-> FALSE]

InUse == {d \in Dials : dial[d] # "idle"}     \* sessionActivity.open counts these

(* Mutant: a session that was closed as idle is not looked at again. *)
AcquireKeeps(d) ==
    /\ dial[d] = "idle"
    /\ dial' = [dial EXCEPT ![d] = "dialing"]
    /\ session' = [session EXCEPT !.old = FALSE]
    /\ UNCHANGED <<psVars, sweeper>>

(* acquire: before the dial, so that a dial in progress counts as use. *)
Acquire(d) ==
    /\ dial[d] = "idle"
    /\ dial' = [dial EXCEPT ![d] = "dialing"]
    /\ session' = [session EXCEPT !.old = FALSE, !.idleClosed = FALSE]
    /\ UNCHANGED <<psVars, sweeper>>

(* client.DialConn brings the session up when it is not. *)
DialDone(d) ==
    /\ dial[d] = "dialing"
    /\ dial' = [dial EXCEPT ![d] = "open"]
    /\ session' = [session EXCEPT !.up = TRUE]
    /\ UNCHANGED <<psVars, sweeper>>

(* release: a failed dial, with or without a session, or a closed stream. *)
Release(d) ==
    /\ dial[d] # "idle"
    /\ dial' = [dial EXCEPT ![d] = "idle"]
    /\ \E up \in (IF dial[d] = "dialing" THEN {session.up, TRUE} ELSE {session.up}) :
         session' = [session EXCEPT !.old = FALSE, !.up = up]
    /\ UNCHANGED <<psVars, sweeper>>

(* idleSessionAge passes since the last use. *)
Grow ==
    /\ ~session.old
    /\ session' = [session EXCEPT !.old = TRUE]
    /\ UNCHANGED <<psVars, sweeper, dial>>

(* The server or the network drops the session. *)
Lose ==
    /\ session.up
    /\ session' = [session EXCEPT !.up = FALSE]
    /\ UNCHANGED <<psVars, sweeper, dial>>

ArmSweep ==
    /\ sweeper = "changed"
    /\ Changed("sweeper")
    /\ sweeper' = "mode"
    /\ UNCHANGED <<dial, session>>

ReadSweepMode ==
    /\ sweeper = "mode"
    /\ sweeper' = IF mode = Active THEN "parked" ELSE "sweep"
    /\ UNCHANGED <<psVars, dial, session>>

(* closeIdleSessions: closeIdle under the lock acquire and release take. *)
CloseIdle ==
    /\ sweeper = "sweep"
    /\ sweeper' = "timer"
    /\ session' = IF InUse # {} \/ session.idleClosed \/ ~session.old THEN session
                  ELSE [session EXCEPT !.idleClosed = TRUE, !.up = FALSE]
    /\ UNCHANGED <<psVars, dial>>

SweepAgain ==
    /\ \/ sweeper = "parked" /\ woken["sweeper"]
       \/ sweeper = "timer"
    /\ sweeper' = "changed"
    /\ UNCHANGED <<psVars, dial, session>>

SweepStep == ArmSweep \/ ReadSweepMode \/ CloseIdle \/ SweepAgain

Next ==
    \/ PsNext /\ UNCHANGED <<sweeper, dial, session>>
    \/ \E d \in Dials : Acquire(d) \/ DialDone(d) \/ Release(d)
    \/ Grow \/ Lose
    \/ SweepStep

(* The sweeper runs, Set completes and time passes; nobody promises that a  *)
(* dial is made, succeeds, or that an open stream is ever closed.           *)
Fairness ==
    /\ WF_vars(SetClose /\ UNCHANGED <<sweeper, dial, session>>)
    /\ WF_vars(SweepStep)
    /\ SF_vars(ArmSweep)
    /\ WF_vars(Grow)

Spec == Init /\ [][Next]_vars /\ Fairness

-----------------------------------------------------------------------------
(* Once the device stays out of use, a session that no dial or stream uses  *)
(* any more is closed and stays closed, whatever was acquired, released or  *)
(* failed to dial while the sweeps went by.                                 *)
UnusedSessionClosed ==
    <>[](mode # Active /\ InUse = {}) => <>[]~session.up
=============================================================================
