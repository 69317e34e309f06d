------------------------------- MODULE Sampler -------------------------------
(***************************************************************************)
(* tunnel/statistic, Manager.handle under power saving: once a tick it     *)
(* moves the bytes counted since the last one to the published rate; with  *)
(* nothing counted and the device not in use it stops its ticker and       *)
(* sleeps until the mode changes or a connection that counts bytes wakes   *)
(* it.  A byte counter is abstracted to "non-zero", and a tick may come at *)
(* any moment while the ticker runs.                                       *)
(***************************************************************************)
EXTENDS PowerSave

CONSTANTS
    Pushers,      \* connections that count bytes
    Dirs          \* upload and download

VARIABLES
    temp, blip,   \* uploadTemp/downloadTemp, uploadBlip/downloadBlip: non-zero
    sampler,      \* where handle is
    paused,       \* m.paused
    wake,         \* a token lies in trafficWake (capacity 1)
    pusher        \* per pusher: where PushUploaded/PushDownloaded is

samplerVars == <<temp, blip, sampler, paused, wake, pusher>>
vars == <<psVars, samplerVars>>

TypeOK ==
    /\ mode \in Modes /\ setting \in BOOLEAN /\ woken \in [Waiters -> BOOLEAN]
    /\ temp \in [Dirs -> BOOLEAN] /\ blip \in [Dirs -> BOOLEAN]
    /\ sampler \in {"ticking", "quiet", "pause", "changed", "check", "asleep", "resume"}
    /\ paused \in BOOLEAN /\ wake \in BOOLEAN
    /\ pusher \in [Pushers -> {"ready", "counted", "waking"}]

Init ==
    /\ PsInit
    /\ temp = [d \in Dirs |-> FALSE] /\ blip = temp
    /\ sampler = "ticking" /\ paused = FALSE /\ wake = FALSE
    /\ pusher = [p \in Pushers |-> "ready"]

-----------------------------------------------------------------------------
(* PushUploaded or PushDownloaded of some bytes, then wakeOnTraffic. *)
Count(p) ==
    /\ pusher[p] = "ready"
    /\ \E d \in Dirs : temp' = [temp EXCEPT ![d] = TRUE]
    /\ pusher' = [pusher EXCEPT ![p] = "counted"]
    /\ UNCHANGED <<psVars, blip, sampler, paused, wake>>

SeePaused(p) ==
    /\ pusher[p] = "counted"
    /\ pusher' = [pusher EXCEPT ![p] = IF paused THEN "waking" ELSE "ready"]
    /\ UNCHANGED <<psVars, temp, blip, sampler, paused, wake>>

WakeSampler(p) ==
    /\ pusher[p] = "waking"
    /\ wake' = TRUE
    /\ pusher' = [pusher EXCEPT ![p] = "ready"]
    /\ UNCHANGED <<psVars, temp, blip, sampler, paused>>

(* handle, on a tick: the counters are swapped out and published (only a    *)
(* reset could come between the two); with both zero it may go to sleep.    *)
SampleTick ==
    /\ sampler = "ticking"
    /\ blip' = temp
    /\ temp' = [d \in Dirs |-> FALSE]
    /\ sampler' = IF \E d \in Dirs : temp[d] THEN "ticking" ELSE "quiet"
    /\ UNCHANGED <<psVars, paused, wake, pusher>>

DecidePause ==
    /\ sampler = "quiet"
    /\ sampler' = IF mode = Active THEN "ticking" ELSE "pause"
    /\ UNCHANGED <<psVars, temp, blip, paused, wake, pusher>>

(* ticker.Stop and paused.Store(true). *)
Pause ==
    /\ sampler = "pause"
    /\ paused' = TRUE
    /\ sampler' = "changed"
    /\ UNCHANGED <<psVars, temp, blip, wake, pusher>>

ArmSampler ==
    /\ sampler = "changed"
    /\ Changed("sampler")
    /\ sampler' = "check"
    /\ UNCHANGED <<temp, blip, paused, wake, pusher>>

(* Mutant: only the mode is looked at again before falling asleep. *)
CheckModeOnly ==
    /\ sampler = "check"
    /\ sampler' = IF mode = Active THEN "resume" ELSE "asleep"
    /\ UNCHANGED <<psVars, temp, blip, paused, wake, pusher>>

CheckCounters ==
    /\ sampler = "check"
    /\ sampler' = IF mode = Active \/ \E d \in Dirs : temp[d] THEN "resume" ELSE "asleep"
    /\ UNCHANGED <<psVars, temp, blip, paused, wake, pusher>>

WakeOnChange ==
    /\ sampler = "asleep"
    /\ woken["sampler"]
    /\ sampler' = "changed"
    /\ UNCHANGED <<psVars, temp, blip, paused, wake, pusher>>

WakeOnTraffic ==
    /\ sampler = "asleep"
    /\ wake
    /\ wake' = FALSE
    /\ sampler' = "changed"
    /\ UNCHANGED <<psVars, temp, blip, paused, pusher>>

Resume ==
    /\ sampler = "resume"
    /\ paused' = FALSE
    /\ sampler' = "ticking"
    /\ UNCHANGED <<psVars, temp, blip, wake, pusher>>

(* ResetStatistic, from the API. *)
ResetStatistic ==
    /\ temp' = [d \in Dirs |-> FALSE]
    /\ blip' = temp'
    /\ UNCHANGED <<psVars, sampler, paused, wake, pusher>>

SamplerStep ==
    \/ SampleTick \/ DecidePause \/ Pause \/ ArmSampler \/ CheckCounters
    \/ WakeOnChange \/ WakeOnTraffic \/ Resume

Next ==
    \/ PsNext /\ UNCHANGED samplerVars
    \/ \E p \in Pushers : Count(p) \/ SeePaused(p) \/ WakeSampler(p)
    \/ SamplerStep
    \/ ResetStatistic

(* Goroutines run and tickers tick; a mutex starves nobody, so Changed is   *)
(* served however often the mode is set.  No one promises traffic.          *)
Fairness ==
    /\ WF_vars(SetClose /\ UNCHANGED samplerVars)
    /\ WF_vars(SamplerStep)
    /\ SF_vars(ArmSampler)
    /\ \A p \in Pushers : WF_vars(SeePaused(p) \/ WakeSampler(p))

Spec == Init /\ [][Next]_vars /\ Fairness

-----------------------------------------------------------------------------
(* No lost wake-up of the sampler: bytes that were counted reach the        *)
(* published rate (or a reset) although handle was falling asleep while     *)
(* they were counted; a rate with no bytes behind it goes back to zero; and *)
(* with the mode settled, not Active, and no traffic the sampler sleeps.    *)
SamplerPublishes ==
    /\ \A d \in Dirs : []<>~temp[d]
    /\ \A d \in Dirs : <>[]~temp[d] => <>[]~blip[d]
    /\ \A m \in Modes \ {Active} :
           <>[](mode = m /\ \A p \in Pushers : pusher[p] = "ready")
               => <>[](sampler = "asleep")
=============================================================================
