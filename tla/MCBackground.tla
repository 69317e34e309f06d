--------------------------- MODULE MCBackground ---------------------------
(* Small instances of what runs under every connection: the concurrent map, *)
(* the three goroutines that wait for the power save mode, of which the     *)
(* health check is this module's own, and the fetcher of a provider.  A     *)
(* behaviour runs one of them, `which`, and the others keep still.  A       *)
(* liveness property takes the fairness of its own component as its premise. *)
EXTENDS HealthCheck, TLC

CONSTANT None

VARIABLES which,
    tab, table, nextTable, ctl, idx, proc, todo, seen,          \* XsyncMap
    temp, blip, sampler, paused, wake, pusher,                  \* Sampler
    sweeper, dial, session,                                     \* IdleSweep
    remote, file, etag, hash, served, mux, update, crashes      \* Fetcher

mapVars    == <<tab, table, nextTable, ctl, idx, proc, todo, seen>>
sampleVars == <<temp, blip, sampler, paused, wake, pusher>>
sweepVars  == <<sweeper, dial, session>>
fetchVars  == <<remote, file, etag, hash, served, mux, update, crashes>>
allVars    == <<which, mapVars, vars, sampleVars, sweepVars, fetchVars>>

\* The calls of the map's goroutines: one script for each.
Call(op, key, val) == [op |-> op, key |-> key, val |-> val]
Scripts == {
    << <<Call("store", 0, 1), Call("store", 1, 1)>>,
       <<Call("loadOrStore", 0, 2), Call("delete", 1, 0)>>,
       <<Call("load", 0, 0), Call("delete", 1, 0)>> >>,
    << <<Call("store", 0, 1)>>,
       <<Call("store", 1, 1)>>,
       <<Call("clear", None, 0), Call("delete", 0, 0)>> >>,
    << <<Call("store", 0, 1), Call("store", 1, 1)>>,
       <<Call("store", 0, 2)>>,
       <<Call("delete", 0, 0)>> >> }

\* A new content, one that does not parse, another one, and a roll-back.
Contents == <<"v1", "bad", "v2", "v1">>
Bad      == {"bad"}
Updaters == {"pull", "api"}

Map == INSTANCE XsyncMap WITH
    next <- nextTable,
    Procs <- 1..3, Keys <- 0..2, Vals <- 1..2, Hash <- [k \in 0..2 |-> k],
    EntriesPerBucket <- 1, ShrinkFraction <- 2, MinLen <- 1, MaxHelpers <- 2

Smp == INSTANCE Sampler WITH Pushers <- 1..2, Dirs <- {"up", "down"}
Swp == INSTANCE IdleSweep WITH Dials <- 1..2

Fetch == INSTANCE Fetcher WITH
    call <- update, Published <- Contents, Rejected <- Bad, Bundle <- "v0",
    Callers <- Updaters, MaxCrash <- 2, Cut <- "cut", Broken <- "broken"

MCInit ==
    /\ which \in {"map", "health", "sampler", "sweep", "fetch"}
    /\ Map!Init /\ Init /\ Smp!Init /\ Swp!Init /\ Fetch!Init
    /\ which # "map" => todo = CHOOSE s \in Scripts : TRUE

MCNext ==
    /\ UNCHANGED which
    /\ IF which = "map" THEN Map!Next /\ UNCHANGED psVars ELSE UNCHANGED mapVars
    /\ IF which = "health" THEN Next ELSE UNCHANGED hcVars
    /\ IF which = "sampler" THEN Smp!Next ELSE UNCHANGED sampleVars
    /\ IF which = "sweep" THEN Swp!Next ELSE UNCHANGED sweepVars
    /\ IF which = "fetch" THEN Fetch!Next /\ UNCHANGED psVars ELSE UNCHANGED fetchVars

MCSpec == MCInit /\ [][MCNext]_allVars

(* The map: a resize loses no write that races it. *)
ResizeKeepsAll == Map!ResizeKeepsAll

(* The map: a lookup returns what its key meant at some moment of the call. *)
LookupLegal == Map!LookupLegal

(* The map: when every call has returned, Size is exact and nothing is held. *)
SizeExact == Map!SizeExact

(* The map: every call returns. *)
CallsReturn == which = "map" => (Map!Fairness => Map!CallsReturn)

(* The health check: the loop rests in Idle and goes on in other modes. *)
LoopFollowsMode == which = "health" => (Fairness => PeriodicFollowsMode)

(* The sampler: counted bytes reach the published rate, however handle was  *)
(* falling asleep, and without traffic it sleeps.                           *)
SamplerPublishes == which = "sampler" => (Smp!Fairness => Smp!SamplerPublishes)

(* The sweep: a session nobody uses is closed once the device is not in use. *)
UnusedSessionClosed == which = "sweep" => (Swp!Fairness => Swp!UnusedSessionClosed)

(* The fetcher: once the server publishes nothing new, what is served       *)
(* becomes what is published, through crashes and failed writes.            *)
Converges == which = "fetch" => (Fetch!Fairness => Fetch!Converges)
=============================================================================
