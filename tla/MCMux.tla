------------------------------- MODULE MCMux -------------------------------
(* Small instances of the Xray Mux client for TLC.  A behaviour runs one of *)
(* them, `which`, and the others keep still:                                *)
(*   "shared"  two pools, one caller each, that compete for the permits of  *)
(*             one endpoint (the module's own constants and variables);     *)
(*   "local"   one pool with two callers, two permits and a dial budget;    *)
(*   "reused"  one pool with two callers and one carrier that serves two    *)
(*             sessions, idles between them and announces them at once;     *)
(*   "worker"  one carrier with a stream session and a packet session, and  *)
(*             either a frame of the peer or a write and first-payload      *)
(*             timers.                                                      *)
EXTENDS XrayPool, TLC

CONSTANTS c1, c2, p1, p2, d1, d2, v1, s1, s2

VARIABLES which,
    localPool, localWorker, localCaller, localPermits,   \* "local", "reused"
    budget, carrier, session, reader                     \* XrayWorker

localVars  == <<localPool, localWorker, localCaller, localPermits>>
workerVars == <<budget, carrier, session, reader>>

Apart     == c1 :> p1 @@ c2 :> p2
NoPackets == [c \in Callers |-> FALSE]
OneEach   == [q \in Pools |-> 1]
Together  == {d1, d2}
OnePool   == {p1}
OfOne     == [d \in Together |-> p1]
Streams   == [d \in Together |-> FALSE]
OneCarrier == {v1}
Symmetry  == Permutations(Workers) \cup Permutations(Together)
Sessions  == {s1, s2}
Packets   == {s2}

Local == INSTANCE XrayPool WITH
    pool <- localPool, worker <- localWorker, caller <- localCaller,
    permits <- localPermits,
    Callers <- Together, Pools <- OnePool, PoolOf <- OfOne, Packet <- Streams,
    MaxConnections <- p1 :> 2,
    MaxUses <- 1, MaxDials <- 1, Window <- 2
Reused == INSTANCE XrayPool WITH
    pool <- localPool, worker <- localWorker, caller <- localCaller,
    permits <- localPermits,
    Callers <- Together, Pools <- OnePool, PoolOf <- OfOne, Packet <- Streams,
    Workers <- OneCarrier, MaxConnections <- p1 :> 1,
    MaxUses <- 2, EagerNew <- TRUE

Worker(eager, writes, frames) == INSTANCE XrayWorker WITH
    Sessions <- Sessions, Packets <- Packets, MaxUses <- 2, EagerModes <- {eager},
    Reliable <- FALSE, PipeLimit <- 1, MaxWrites <- writes, MaxFrames <- frames
Carrier == INSTANCE XrayWorker WITH
    Sessions <- Sessions, Packets <- Packets, MaxUses <- 2, EagerModes <- BOOLEAN,
    Reliable <- FALSE, PipeLimit <- 1, MaxWrites <- 1, MaxFrames <- 1

MuxInit ==
    /\ which \in {"shared", "local", "reused", "worker"}
    /\ Init
    /\ IF which = "reused" THEN Reused!Init ELSE Local!Init
    /\ \/ Worker(TRUE, 0, 1)!Init
       \/ Worker(FALSE, 1, 0)!Init /\ which = "worker"

MuxNext ==
    /\ UNCHANGED which
    /\ IF which = "shared" THEN Next ELSE UNCHANGED vars
    /\ IF which = "local" THEN Local!Next
       ELSE IF which = "reused" THEN Reused!Next ELSE UNCHANGED localVars
    /\ IF which = "worker" THEN Carrier!Next ELSE UNCHANGED workerVars

MuxSpec == MuxInit /\ [][MuxNext]_<<which, vars, localVars, workerVars>>

(* tryReserve, reserve, dialAllowed and their ways back: in every instance  *)
(* a carrier keeps its limits of sessions and uses, a pool its dials per    *)
(* minute, and no slot stays taken by a caller that is gone.                *)
PoolLimits ==
    /\ LimitsKept
    /\ IF which = "reused" THEN Reused!LimitsKept ELSE Local!LimitsKept

(* worker.close and session.finishWithCause: a closed carrier has ended all *)
(* its sessions, and one without sessions is closed or going to be.         *)
CarrierAccounted == Carrier!CarrierAccounted
=============================================================================
