------------------------------ MODULE XrayPool ------------------------------
(***************************************************************************)
(* The Mux.Cool client pool of adapter/outbound/xraymux/client.go: callers *)
(* of dialSession reserve session slots on shared physical carriers        *)
(* ("workers"), dial new carriers under max-connections permits shared by  *)
(* every pool of the process and under a per-pool dial budget, or wait for *)
(* a slot; carriers fail, idle out, retire after MaxUses sessions, and     *)
(* pools are closed.  What happens inside one carrier is XrayWorker.       *)
(*                                                                         *)
(* One step is one critical section: a p.mu section, a w.mu section, or    *)
(* the completion of a physical dial.  p.mu is a field only because        *)
(* tryReserve keeps it across two w.mu sections; everywhere else a section *)
(* is atomic and needs it free.                                            *)
(***************************************************************************)
EXTENDS Integers, FiniteSets, FiniteSetsExt

CONSTANTS
    Callers,          \* goroutines inside DialContext / ListenPacketContext
    Pools,            \* Pool objects (one per VLESS outbound)
    Workers,          \* slots for carrier objects; a slot is reused once garbage
    Keys,             \* physical endpoints, what endpointKey may return
    None,             \* no caller, no worker, no key
    PoolOf,           \* the pool a caller dials through
    Packet,           \* whether a caller opens an XUDP packet session
    Concurrency,      \* soft TCP sessions per carrier
    XUDPConcurrency,  \* soft packet sessions per carrier
    HardMult,         \* hardConcurrencyMult (4 in the code)
    MaxConnections,   \* per pool; 0 means unlimited (pack-first)
    MaxUses,          \* sessions a carrier serves before it retires
    MaxDials,         \* MaxDialsPerMinute; 0 means unlimited
    Window,           \* the 60 s window, in ticks
    EagerNew          \* FirstPayloadTimeout < 0: openSession writes New at once

ASSUME PoolAssumption ==
    /\ PoolOf \in [Callers -> Pools]
    /\ Packet \in [Callers -> BOOLEAN]
    /\ MaxConnections \in [Pools -> Nat]
    /\ Concurrency \in Nat \ {0} /\ XUDPConcurrency \in Nat \ {0}
    /\ HardMult \in Nat \ {0} /\ MaxUses \in Nat \ {0} /\ Window \in Nat \ {0}
    /\ MaxDials \in Nat
    /\ EagerNew \in BOOLEAN
    /\ None \notin Callers \cup Pools \cup Workers \cup Keys
ASSUME WorkersFinite == IsFiniteSet(Workers)

VARIABLES
    pool,     \* the Pool structs
    worker,   \* the worker structs
    caller,   \* the state of each dialSession call
    permits   \* globalPermits.counts
vars == <<pool, worker, caller, permits>>

Ages == 0..(Window - 1)

PoolState == [
    closed : BOOLEAN,
    workers : SUBSET Workers,             \* the order of the slice is abstracted away
    mu : Callers \cup {None},             \* who keeps p.mu inside tryReserve
    dialMu : Callers \cup {None},
    flight : [Keys -> Callers \cup {None}],  \* dialGroup: the leader for a key
    dialTimes : [Ages -> Nat],            \* how many recorded dials have each age
    closing : SUBSET Workers,             \* what Pool.Close has still to close
    current : Workers \cup {None}]        \* the w.close Pool.Close waits for

\* A worker: unused slot; dialing (permit taken); live; closing (closeOnce body
\* running); freed (permit returned); released (close returned).
WorkerState == [
    st : {"unused", "dialing", "live", "closing", "freed", "released"},
    pool : Pools \cup {None},
    key : Keys \cup {None},               \* permitKey, None when no permit was taken
    total : Nat,
    sess : SUBSET Callers,                \* the callers whose session is in w.sessions
    snap : SUBSET Callers,                \* sessions w.close copied and must finish
    jam : Callers \cup {None},            \* the session whose once w.close never leaves
    doomed : BOOLEAN,                     \* a goroutine is about to call w.close
    idle : BOOLEAN,                       \* idleTimer is armed
    born : 0..Window]                     \* ticks since its dial was recorded

\* A caller.  resGrow/resFlight: about to reserve on the worker a dial
\* returned; softPick/hardPick: inside tryReserve with a chosen worker;
\* abandon, signal, signalRetire: a session left the map and onFree is due.
\* From "open" on it stands for the session rather than the goroutine.
Places == {"idle", "loop", "grow", "dial", "failed", "abort", "resGrow", "soft", "softPick",
           "flight", "lead", "follow", "resFlight", "hard", "hardPick", "wait", "asleep",
           "open", "use", "abandon", "signal", "signalRetire", "closeWait"}
CallerState == [
    pc : Places,
    got : Workers \cup {None},            \* the worker it dials, reserves or uses
    key : Keys \cup {None},               \* the key of its singleflight call
    done : BOOLEAN]                       \* ctx.Err() # nil

TypeOK ==
    /\ pool \in [Pools -> PoolState]
    /\ worker \in [Workers -> WorkerState]
    /\ caller \in [Callers -> CallerState]
    /\ permits \in [Keys -> Nat]

AtRest == [pc |-> "idle", got |-> None, key |-> None, done |-> FALSE]
NewPool == [closed |-> FALSE, workers |-> {}, mu |-> None, dialMu |-> None,
            flight |-> [k \in Keys |-> None], dialTimes |-> [a \in Ages |-> 0],
            closing |-> {}, current |-> None]
NoWorker == [st |-> "unused", pool |-> None, key |-> None, total |-> 0, sess |-> {},
             snap |-> {}, jam |-> None, doomed |-> FALSE, idle |-> FALSE, born |-> Window]

Init ==
    /\ pool = [p \in Pools |-> NewPool]
    /\ worker = [w \in Workers |-> NoWorker]
    /\ caller = [c \in Callers |-> AtRest]
    /\ permits = [k \in Keys |-> 0]

-----------------------------------------------------------------------------
(* Helpers *)

Soft(c) == IF Packet[c] THEN XUDPConcurrency ELSE Concurrency
Hard(c) == Soft(c) * HardMult

\* activeSessionsLocked: sessions of the caller's kind.
Active(w, c) == Cardinality({d \in worker[w].sess : Packet[d] = Packet[c]})

\* hasCapacity, and the same test inside tryReserve.
HasCapacity(w, c, limit) ==
    worker[w].st = "live" /\ Active(w, c) < limit /\ worker[w].total < MaxUses

\* pruneLocked
Pruned(p) == {w \in pool[p].workers : worker[w].st = "live"}

\* The workers tryReserve may pick: the least loaded with capacity.
LeastLoaded(p, c, limit) ==
    LET able == {w \in Pruned(p) : HasCapacity(w, c, limit)}
    IN  {w \in able : \A v \in able : Active(w, c) <= Active(v, c)}

\* dialAllowedLocked; entries older than the window have already dropped out.
DialAllowed(p) ==
    MaxDials = 0 \/ MapThenSumSet(LAMBDA a : pool[p].dialTimes[a], Ages) < MaxDials

\* recordDialLocked
RecordDial(times) == IF MaxDials = 0 THEN times ELSE [times EXCEPT ![0] = @ + 1]

\* dialTimes[:n-1]: the last entry is the youngest one.
DropLastDial(times) ==
    LET ages == {a \in Ages : times[a] > 0}
    IN  IF ages = {} THEN times ELSE [times EXCEPT ![Min(ages)] = @ - 1]

\* Mutant: acquire admits one more than the limit.
AvailableOneMore(p, k) == MaxConnections[p] = 0 \/ permits[k] <= MaxConnections[p]

\* permitRegistry.acquire with the pool's own limit, and release.
Available(p, k) == MaxConnections[p] = 0 \/ permits[k] < MaxConnections[p]

Acquire(p, k) ==
    permits' = IF MaxConnections[p] = 0 THEN permits ELSE [permits EXCEPT ![k] = @ + 1]
Release(w) ==
    LET k == worker[w].key
    IN  permits' = IF k = None THEN permits
                   ELSE [permits EXCEPT ![k] = IF @ <= 1 THEN 0 ELSE @ - 1]

\* free.Broadcast: every caller that sleeps in waitForSlot gets to run again.
Woken(p) ==
    [c \in Callers |-> IF caller[c].pc = "asleep" /\ PoolOf[c] = p
                       THEN [caller[c] EXCEPT !.pc = "wait"] ELSE caller[c]]

\* A slot for a new worker of p: once p is pruned nothing refers to the former
\* worker, and the dial budget no longer counts it.
Fresh(w, p) ==
    /\ worker[w].st \in {"unused", "released"} /\ worker[w].born = Window
    /\ \A c \in Callers : caller[c].got # w
    /\ \A q \in Pools : w \notin pool[q].closing /\ (q # p => w \notin pool[q].workers)

\* The callers that get the result of a dial: c, and when c leads a
\* singleflight call those that joined it.
Flown(c) ==
    {c} \cup {d \in Callers : /\ caller[c].key # None
                              /\ caller[d].pc = "follow" /\ PoolOf[d] = PoolOf[c]
                              /\ caller[d].key = caller[c].key}
Return(c, next, w) ==
    caller' = [d \in Callers |->
        IF d \in Flown(c)
        THEN [pc |-> next, got |-> w, key |-> None, done |-> caller[d].done /\ next # "idle"]
        ELSE caller[d]]
Landed(c) ==
    LET k == caller[c].key IN
    [j \in Keys |-> IF j = k THEN None ELSE pool[PoolOf[c]].flight[j]]

At(c, where) == caller[c].pc = where
Goto(c, next) == caller' = [caller EXCEPT ![c].pc = next]
Leave(c) == caller' = [caller EXCEPT ![c] = AtRest]
Unlocked(c) == pool[PoolOf[c]].mu = None
\* Mutant: an idle worker is left to its timer.
DoomBusy(w) == worker[w].doomed \/ (worker[w].st = "live" /\ worker[w].sess # {})

\* A goroutine is on its way to w.close; after the first call it is void.
Doom(w) == worker[w].doomed \/ worker[w].st = "live"

-----------------------------------------------------------------------------
(* dialSession *)

\* DialContext or ListenPacketContext is called.
Start(c) == At(c, "idle") /\ Goto(c, "loop") /\ UNCHANGED <<pool, worker, permits>>

\* The caller's context is cancelled or its deadline passes.
Cancel(c) ==
    /\ caller[c].pc \notin {"idle", "open", "use", "signal", "signalRetire", "closeWait", "abandon"}
    /\ ~caller[c].done
    /\ caller' = [caller EXCEPT ![c].done = TRUE]
    /\ UNCHANGED <<pool, worker, permits>>

LoopCancelled(c) ==
    At(c, "loop") /\ caller[c].done /\ Leave(c) /\ UNCHANGED <<pool, worker, permits>>

WantGrow(c) ==
    LET p == PoolOf[c]
        grow == MaxConnections[p] > 0 /\ ~pool[p].closed
    IN  /\ At(c, "loop") /\ ~caller[c].done /\ Unlocked(c)
        /\ pool' = IF grow THEN [pool EXCEPT ![p].workers = Pruned(p)] ELSE pool
        /\ Goto(c, IF grow /\ Cardinality(Pruned(p)) < MaxConnections[p] THEN "grow" ELSE "soft")
        /\ UNCHANGED <<worker, permits>>

\* tryReserve: pick the least loaded worker under p.mu ...
Pick(c, at, limit, picked, none) ==
    LET p == PoolOf[c]
    IN  /\ At(c, at) /\ Unlocked(c)
        /\ \/ /\ pool[p].closed
              /\ Goto(c, none) /\ UNCHANGED pool
           \/ /\ ~pool[p].closed /\ LeastLoaded(p, c, limit) = {}
              /\ Goto(c, none)
              /\ pool' = [pool EXCEPT ![p].workers = Pruned(p)]
           \/ /\ ~pool[p].closed
              /\ \E w \in LeastLoaded(p, c, limit) :
                    caller' = [caller EXCEPT ![c].pc = picked, ![c].got = w]
              /\ pool' = [pool EXCEPT ![p].workers = Pruned(p), ![p].mu = c]
        /\ UNCHANGED <<worker, permits>>

\* Mutant: reserve trusts the checks made before.
ReserveUnchecked(c, limit, none) ==
    /\ worker' = [worker EXCEPT ![caller[c].got].total = @ + 1,
                                ![caller[c].got].sess = @ \cup {c}]
    /\ caller' = [caller EXCEPT ![c].pc = "open", ![c].done = FALSE]

\* worker.reserve: the checks again under w.mu; then the session enters the
\* map, the idle timer is stopped, and the dial's context has no more effect.
Reserve(c, limit, none) ==
    LET w == caller[c].got
    IN  \/ /\ HasCapacity(w, c, limit)
           /\ worker' = [worker EXCEPT ![w].total = @ + 1, ![w].sess = @ \cup {c},
                                       ![w].idle = FALSE]
           /\ caller' = [caller EXCEPT ![c].pc = "open", ![c].done = FALSE]
        \/ /\ ~HasCapacity(w, c, limit)
           /\ caller' = [caller EXCEPT ![c].pc = none, ![c].got = None]
           /\ UNCHANGED worker

\* ... and reserve on it, still under p.mu; w may have changed in between.
ReservePicked(c, at, limit, none) ==
    /\ At(c, at)
    /\ Reserve(c, limit, none)
    /\ pool' = [pool EXCEPT ![PoolOf[c]].mu = None]
    /\ UNCHANGED permits

TrySoft(c) == Pick(c, "soft", Soft(c), "softPick", "flight")
ReserveSoft(c) == ReservePicked(c, "softPick", Soft(c), "flight")
TryHard(c) == Pick(c, "hard", Hard(c), "hardPick", "wait")
ReserveHard(c) == ReservePicked(c, "hardPick", Hard(c), "wait")

\* reserve on the worker a dial returned, with no pool lock held.
ReserveDialed(c) ==
    /\ \/ At(c, "resGrow") /\ Reserve(c, Soft(c), "soft")
       \/ At(c, "resFlight") /\ Reserve(c, Soft(c), "loop")
    /\ UNCHANGED <<pool, permits>>

\* dialWorker: lead the singleflight call for the key or join the one in flight.
JoinFlight(c) ==
    LET p == PoolOf[c]
    IN  /\ At(c, "flight")
        /\ \E k \in Keys :
              \/ /\ pool[p].flight[k] = None
                 /\ pool' = [pool EXCEPT ![p].flight[k] = c]
                 /\ caller' = [caller EXCEPT ![c].pc = "lead", ![c].key = k]
              \/ /\ pool[p].flight[k] # None
                 /\ caller' = [caller EXCEPT ![c].pc = "follow", ![c].key = k]
                 /\ UNCHANGED pool
        /\ UNCHANGED <<worker, permits>>

-----------------------------------------------------------------------------
(* Physical dials: dialWorkerNew ("grow") and the body of dialWorker ("lead") *)

\* dialMu and then p.mu are free to take.
MayAttempt(c) == caller[c].pc \in {"grow", "lead"} /\ pool[PoolOf[c]].dialMu = None /\ Unlocked(c)

AttemptClosed(c) ==
    LET p == PoolOf[c]
    IN  /\ MayAttempt(c)
        /\ pool[p].closed
        /\ Return(c, "idle", None)
        /\ pool' = [pool EXCEPT ![p].flight = Landed(c)]
        /\ UNCHANGED <<worker, permits>>

\* dialWorker: a worker got room meanwhile, and is the result of the call.
AttemptReuse(c) ==
    LET p == PoolOf[c]
    IN  /\ MayAttempt(c) /\ At(c, "lead")
        /\ ~pool[p].closed
        /\ \E w \in Pruned(p) : HasCapacity(w, c, Soft(c)) /\ Return(c, "resFlight", w)
        /\ pool' = [pool EXCEPT ![p].workers = Pruned(p), ![p].flight = Landed(c)]
        /\ UNCHANGED <<worker, permits>>

\* The check before the budget: dialWorkerNew counts the pool's workers,
\* dialWorker looks for one with room.
NeedsCarrier(p, c) ==
    IF At(c, "grow") THEN MaxConnections[p] = 0 \/ Cardinality(Pruned(p)) < MaxConnections[p]
    ELSE \A w \in Pruned(p) : ~HasCapacity(w, c, Soft(c))

\* The endpoints the dial may be charged to.
DialKeys(c) == IF At(c, "grow") THEN Keys ELSE {caller[c].key}

\* errMaxConnections or errDialRateLimit.
AttemptRefused(c) ==
    LET p == PoolOf[c]
    IN  /\ MayAttempt(c)
        /\ ~pool[p].closed
        /\ \/ At(c, "grow") /\ ~NeedsCarrier(p, c)
           \/ NeedsCarrier(p, c) /\ ~DialAllowed(p)
           \/ NeedsCarrier(p, c) /\ \E k \in DialKeys(c) : ~Available(p, k)
        /\ Return(c, IF At(c, "grow") THEN "soft" ELSE "hard", None)
        /\ pool' = [pool EXCEPT ![p].workers = Pruned(p), ![p].flight = Landed(c)]
        /\ UNCHANGED <<worker, permits>>

\* A permit is taken, the dial is recorded, and p.dial starts under dialMu.
AttemptDial(c, w) ==
    LET p == PoolOf[c]
    IN  /\ MayAttempt(c)
        /\ ~pool[p].closed
        /\ NeedsCarrier(p, c) /\ DialAllowed(p)
        /\ Fresh(w, p)
        /\ \E k \in DialKeys(c) :
              /\ Available(p, k) /\ Acquire(p, k)
              /\ worker' = [worker EXCEPT ![w] =
                    [NoWorker EXCEPT !.st = "dialing", !.pool = p,
                                     !.key = IF MaxConnections[p] = 0 THEN None ELSE k,
                                     !.born = IF MaxDials = 0 THEN Window ELSE 0]]
        /\ pool' = [pool EXCEPT ![p].workers = Pruned(p), ![p].dialMu = c,
                                ![p].dialTimes = RecordDial(@)]
        /\ caller' = [caller EXCEPT ![c].pc = "dial", ![c].got = w]

\* Mutant: the worker is published without looking at closed again.
DialOkUnchecked(c) ==
    LET p == PoolOf[c]
        w == caller[c].got
    IN  /\ At(c, "dial") /\ Unlocked(c)
        /\ worker' = [worker EXCEPT ![w].st = "live"]
        /\ pool' = [pool EXCEPT ![p].workers = @ \cup {w}, ![p].dialMu = None,
                                ![p].flight = Landed(c)]
        /\ Return(c, IF caller[c].key = None THEN "resGrow" ELSE "resFlight", w)
        /\ UNCHANGED permits

\* p.dial succeeded and the pool is open: the worker is published.
DialOk(c) ==
    LET p == PoolOf[c]
        w == caller[c].got
    IN  /\ At(c, "dial") /\ Unlocked(c)
        /\ ~pool[p].closed
        /\ worker' = [worker EXCEPT ![w].st = "live"]
        /\ pool' = [pool EXCEPT ![p].workers = @ \cup {w}, ![p].dialMu = None,
                                ![p].flight = Landed(c)]
        /\ Return(c, IF caller[c].key = None THEN "resGrow" ELSE "resFlight", w)
        /\ UNCHANGED permits

\* p.dial succeeded but the pool was closed meanwhile: w.close(net.ErrClosed).
DialLate(c) ==
    /\ At(c, "dial") /\ Unlocked(c)
    /\ pool[PoolOf[c]].closed
    /\ worker' = [worker EXCEPT ![caller[c].got].st = "closing"]
    /\ Goto(c, "abort")
    /\ UNCHANGED <<pool, permits>>

AbortReturn(c) ==
    /\ At(c, "abort")
    /\ worker[caller[c].got].st = "released"
    /\ pool' = [pool EXCEPT ![PoolOf[c]].dialMu = None, ![PoolOf[c]].flight = Landed(c)]
    /\ Return(c, "idle", None)
    /\ UNCHANGED <<worker, permits>>

\* Mutant: a failed dial keeps its permit.
DialFailLeaks(c) ==
    /\ At(c, "dial")
    /\ worker' = [worker EXCEPT ![caller[c].got] = NoWorker]
    /\ caller' = [caller EXCEPT ![c].pc = "failed", ![c].got = None]
    /\ UNCHANGED <<pool, permits>>

\* p.dial failed: the permit goes back, nobody is signalled ...
DialFail(c) ==
    LET w == caller[c].got
    IN  /\ At(c, "dial")
        /\ Release(w)
        /\ worker' = [worker EXCEPT ![w] = NoWorker]
        /\ caller' = [caller EXCEPT ![c].pc = "failed", ![c].got = None]
        /\ UNCHANGED pool

\* ... and the last entry leaves the budget.
FailReturn(c) ==
    LET p == PoolOf[c]
    IN  /\ At(c, "failed") /\ Unlocked(c)
        /\ pool' = [pool EXCEPT ![p].dialTimes = DropLastDial(@), ![p].dialMu = None,
                                ![p].flight = Landed(c)]
        /\ Return(c, "idle", None)
        /\ UNCHANGED <<worker, permits>>

-----------------------------------------------------------------------------
(* waitForSlot *)

\* Mutant: the wait loop does not look at the context.
WaitForSlotDeaf(c) ==
    LET p == PoolOf[c]
        room == \E w \in Pruned(p) : HasCapacity(w, c, Hard(c))
    IN  /\ At(c, "wait") /\ Unlocked(c)
        /\ \/ pool[p].closed /\ Leave(c)
           \/ ~pool[p].closed /\ room /\ Goto(c, "loop")
           \/ ~pool[p].closed /\ ~room /\ Goto(c, "asleep")
        /\ UNCHANGED <<pool, worker, permits>>

WaitForSlot(c) ==
    LET p == PoolOf[c]
        room == \E w \in Pruned(p) : HasCapacity(w, c, Hard(c))
    IN  /\ At(c, "wait") /\ Unlocked(c)
        /\ pool' = IF pool[p].closed THEN pool ELSE [pool EXCEPT ![p].workers = Pruned(p)]
        /\ \/ pool[p].closed /\ Leave(c)
           \/ ~pool[p].closed /\ room /\ Goto(c, "loop")
           \/ ~pool[p].closed /\ ~room /\ caller[c].done /\ Leave(c)
           \/ ~pool[p].closed /\ ~room /\ ~caller[c].done /\ Goto(c, "asleep")
        /\ UNCHANGED <<worker, permits>>

\* The AfterFunc waitForSlot registered on the context.
CancelWakes(c) ==
    /\ At(c, "asleep") /\ caller[c].done /\ Unlocked(c)
    /\ caller' = Woken(PoolOf[c])
    /\ UNCHANGED <<pool, worker, permits>>

-----------------------------------------------------------------------------
(* A session: openSession, and its end (session.Close, a remote End) *)

OpenSession(c) == At(c, "open") /\ Goto(c, "use") /\ UNCHANGED <<pool, worker, permits>>

\* writeNew failed: abandonSession takes the session out of the map ...
OpenFails(c) ==
    /\ At(c, "open") /\ EagerNew
    /\ worker' = [worker EXCEPT ![caller[c].got].sess = @ \ {c}]
    /\ Goto(c, "abandon")
    /\ UNCHANGED <<pool, permits>>

\* ... runs the session's once (unless w.close has it), signals, and a
\* goroutine is started to close w.
AbandonSession(c) ==
    LET w == caller[c].got
    IN  /\ At(c, "abandon") /\ worker[w].jam # c /\ Unlocked(c)
        /\ worker' = [worker EXCEPT ![w].snap = @ \ {c}, ![w].doomed = Doom(w)]
        /\ caller' = [Woken(PoolOf[c]) EXCEPT ![c] = AtRest]
        /\ UNCHANGED <<pool, permits>>

\* finishWithCause up to the end of the w.mu section of removeSession.
RemoveSession(c) ==
    LET w == caller[c].got
        left == worker[w].sess \ {c}
        shouldClose == worker[w].total >= MaxUses /\ left = {}
    IN  /\ At(c, "use")
        /\ c \in worker[w].sess \cup worker[w].snap
        /\ worker' = [worker EXCEPT ![w].sess = left,
                 ![w].idle = @ \/ (~shouldClose /\ left = {} /\ worker[w].st = "live")]
        /\ Goto(c, IF shouldClose THEN "signalRetire" ELSE "signal")
        /\ UNCHANGED <<pool, permits>>

\* The session was finished by worker.close: session.Close has nothing to do.
AlreadyFinished(c) ==
    LET w == caller[c].got
    IN  /\ At(c, "use")
        /\ c \notin worker[w].sess \cup worker[w].snap /\ worker[w].jam # c
        /\ Leave(c)
        /\ UNCHANGED <<pool, worker, permits>>

\* onFree after the session left the map, and the return unless w retires.
SignalFree(c) ==
    LET w == caller[c].got
    IN  /\ At(c, "signal") /\ Unlocked(c)
        /\ caller' = [Woken(PoolOf[c]) EXCEPT ![c] = AtRest]
        /\ worker' = [worker EXCEPT ![w].snap = @ \ {c}]
        /\ UNCHANGED <<pool, permits>>

\* onFree, then removeSession calls w.close from inside the session's once.
SignalRetire(c) ==
    LET w == caller[c].got
    IN  /\ At(c, "signalRetire") /\ Unlocked(c)
        /\ caller' = [Woken(PoolOf[c]) EXCEPT ![c].pc = "closeWait"]
        /\ worker' = [worker EXCEPT ![w].doomed = Doom(w)]
        /\ UNCHANGED <<pool, permits>>

CloseReturns(c) ==
    /\ At(c, "closeWait")
    /\ worker[caller[c].got].st = "released"
    /\ Leave(c)
    /\ UNCHANGED <<pool, worker, permits>>

-----------------------------------------------------------------------------
(* worker.close *)

\* The closeOnce body up to the end of its w.mu section.
BeginClose(w) ==
    /\ worker[w].st = "live"
    /\ worker' = [worker EXCEPT ![w].st = "closing", ![w].snap = worker[w].sess,
                                ![w].sess = {}, ![w].idle = FALSE, ![w].doomed = FALSE]
    /\ UNCHANGED <<pool, caller, permits>>

\* readLoop, or a failed frame write, closes the worker.
CarrierFails(w) == BeginClose(w)

\* The goroutine that was about to call w.close does.
CloseDoomed(w) == worker[w].doomed /\ BeginClose(w)

\* The idle timer starts its goroutine; a later reserve cannot stop it.
IdleFires(w) ==
    /\ worker[w].st = "live" /\ worker[w].idle
    /\ worker' = [worker EXCEPT ![w].idle = FALSE, ![w].doomed = TRUE]
    /\ UNCHANGED <<pool, caller, permits>>

\* The close body finishes a session of its snapshot: removeSession finds an
\* empty map, signals, and - once w has served MaxUses sessions - calls
\* w.close, whose closeOnce is the one already running: the goroutine waits
\* for itself.
FinishSnapped(w, c) ==
    LET p == worker[w].pool
    IN  /\ worker[w].st = "closing" /\ worker[w].jam = None /\ c \in worker[w].snap
        /\ caller[c].pc \notin {"signal", "signalRetire", "closeWait"}
        /\ pool[p].mu = None
        /\ caller' = Woken(p)
        /\ worker' = [worker EXCEPT ![w].snap = @ \ {c},
                ![w].jam = IF worker[w].total >= MaxUses THEN c ELSE None]
        /\ UNCHANGED <<pool, permits>>

\* release(): the permit goes back ...
ReleasePermit(w) ==
    /\ worker[w].st = "closing" /\ worker[w].jam = None /\ worker[w].snap = {}
    /\ Release(w)
    /\ worker' = [worker EXCEPT ![w].st = "freed"]
    /\ UNCHANGED <<pool, caller>>

\* ... and the waiters are signalled.  Nothing reads the fields of a closed
\* worker any more: the slot forgets all but its dial.
SignalReleased(w) ==
    LET p == worker[w].pool
    IN  /\ worker[w].st = "freed" /\ pool[p].mu = None
        /\ caller' = Woken(p)
        /\ worker' = [worker EXCEPT ![w] =
              [NoWorker EXCEPT !.st = "released", !.born = worker[w].born,
                               !.pool = IF worker[w].born < Window THEN p ELSE None]]
        /\ UNCHANGED <<pool, permits>>

-----------------------------------------------------------------------------
(* Pool.Close, and the clock of the dial budget *)

ClosePool(p) ==
    /\ ~pool[p].closed /\ pool[p].mu = None
    /\ pool' = [pool EXCEPT ![p].closed = TRUE, ![p].closing = pool[p].workers,
                            ![p].workers = {}]
    /\ caller' = Woken(p)
    /\ UNCHANGED <<worker, permits>>

\* w.close of the next worker of the copy, and its return.
CloseNext(p) ==
    /\ pool[p].current = None
    /\ \E w \in pool[p].closing :
          /\ pool' = [pool EXCEPT ![p].current = w]
          /\ worker' = [worker EXCEPT ![w].doomed = Doom(w)]
    /\ UNCHANGED <<caller, permits>>

CloseStep(p) ==
    LET w == pool[p].current
    IN  /\ w # None /\ worker[w].st = "released"
        /\ pool' = [pool EXCEPT ![p].closing = @ \ {w}, ![p].current = None]
        /\ UNCHANGED <<worker, caller, permits>>

\* One tick: every recorded dial ages, and those of age Window drop out.
Tick ==
    /\ MaxDials > 0
    /\ pool' = [p \in Pools |-> [pool[p] EXCEPT !.dialTimes =
                    [a \in Ages |-> IF a = 0 THEN 0 ELSE pool[p].dialTimes[a - 1]]]]
    /\ worker' = [w \in Workers |-> [worker[w] EXCEPT !.born = IF @ < Window THEN @ + 1 ELSE @]]
    /\ UNCHANGED <<caller, permits>>

-----------------------------------------------------------------------------

DialStep(c) ==
    \/ LoopCancelled(c) \/ WantGrow(c)
    \/ TrySoft(c) \/ ReserveSoft(c) \/ TryHard(c) \/ ReserveHard(c) \/ ReserveDialed(c)
    \/ JoinFlight(c) \/ AttemptClosed(c) \/ AttemptReuse(c) \/ AttemptRefused(c)
    \/ \E w \in Workers : AttemptDial(c, w)
    \/ FailReturn(c) \/ AbortReturn(c) \/ WaitForSlot(c) \/ CancelWakes(c)

DialEnds(c) == DialOk(c) \/ DialLate(c) \/ DialFail(c)

SessionStep(c) ==
    \/ OpenSession(c) \/ AbandonSession(c) \/ RemoveSession(c) \/ AlreadyFinished(c)
    \/ SignalFree(c) \/ SignalRetire(c) \/ CloseReturns(c)

CloseWorkerStep(w) ==
    \/ CloseDoomed(w) \/ ReleasePermit(w) \/ SignalReleased(w)
    \/ \E c \in Callers : FinishSnapped(w, c)

Next ==
    \/ \E c \in Callers : \/ Start(c) \/ Cancel(c) \/ DialStep(c) \/ DialEnds(c)
                          \/ SessionStep(c) \/ OpenFails(c)
    \/ \E w \in Workers : CarrierFails(w) \/ IdleFires(w) \/ CloseWorkerStep(w)
    \/ \E p \in Pools : ClosePool(p) \/ CloseNext(p) \/ CloseStep(p)
    \/ Tick

Spec == Init /\ [][Next]_vars

\* The scheduling the code relies on: a mutex is not starved (Go's sync.Mutex
\* hands itself over to a waiter that has waited long enough), p.dial returns
\* because it runs under a context, a started goroutine runs, and an
\* application closes the connections it opened.
Fairness ==
    /\ \A c \in Callers :
          SF_vars(DialStep(c)) /\ SF_vars(DialEnds(c)) /\ SF_vars(SessionStep(c))
    /\ \A w \in Workers : SF_vars(CloseWorkerStep(w))
    /\ \A p \in Pools : WF_vars(CloseNext(p)) /\ WF_vars(CloseStep(p))

\* Callers with context.Background(): nothing need ever cancel them.
PatientSpec == Spec /\ Fairness
\* Callers of the tunnel: C.DefaultTCPTimeout bounds every dial.
Deadlines == \A c \in Callers : WF_vars(Cancel(c))
TimedSpec == PatientSpec /\ Deadlines

-----------------------------------------------------------------------------
(* Properties *)

\* A worker that counts against its endpoint: from the acquire in
\* dialWorkerNew/dialWorker to the release in worker.close or in a failed dial.
Charged == {"dialing", "live", "closing"}
Held(k) == {w \in Workers : worker[w].key = k /\ worker[w].st \in Charged}

\* globalPermits counts exactly the carriers and dials in flight of an
\* endpoint, over all pools: no permit is lost on a failed dial, a dial that
\* finishes after Close, or a worker closed by several goroutines, and none
\* is returned twice.
PermitsExact == \A k \in Keys : permits[k] = Cardinality(Held(k))

\* max-connections is a hard cap on the carriers of an endpoint, dials in
\* flight included, even when several pools dial it at once.
CarrierLimit ==
    \A k \in Keys : Held(k) # {} =>
        \E p \in Pools : Cardinality(Held(k)) <= MaxConnections[p]

\* However callers race between the choice of a worker and reserve, a worker
\* carries at most the hard number of sessions of each kind, serves at most
\* MaxUses, and every slot belongs to a caller that still has the session:
\* failed opens, closes and carrier failures leave none occupied for ever.
SessionLimits ==
    \A w \in Workers :
        /\ worker[w].total <= MaxUses
        /\ \A c \in worker[w].sess :
             /\ Active(w, c) <= Hard(c)
             /\ caller[c].got = w /\ caller[c].pc \in {"open", "use"}

\* The dials of a window that did not fail stay within max-dials-per-minute,
\* although a failed dial removes "the last" entry.
DialBudget ==
    MaxDials > 0 => \A p \in Pools :
        Cardinality({w \in Workers : worker[w].pool = p /\ worker[w].born < Window}) <= MaxDials

\* The limits of Options hold, on the sessions of a carrier and on the dials
\* of a pool.
LimitsKept == SessionLimits /\ DialBudget

\* After Pool.Close took its copy no carrier of the pool stays open unless
\* Close is still going to close it, even if its dial ended after Close.
NoCarrierAfterClose ==
    \A w \in Workers :
        LET p == worker[w].pool
        IN  worker[w].st = "live" /\ pool[p].closed => w \in pool[p].closing

\* Every dialSession call returns, with a session or an error, once its
\* context is bounded: no caller is left behind on dialMu, in a singleflight
\* call, or asleep in waitForSlot.
DialReturns == \A c \in Callers : []<>(caller[c].pc \in {"idle", "use", "closeWait"})

\* Pool.Close returns unless one of its workers waits for its own closeOnce:
\* finishing a session of the snapshot, or behind a session's once whose
\* holder waits for the same closeOnce.
Stuck(w) ==
    \/ worker[w].jam # None
    \/ worker[w].st = "closing" /\ \E c \in worker[w].snap : At(c, "closeWait")
CloseReturnsOrStuck ==
    \A p \in Pools :
        []<>(pool[p].closed => pool[p].closing = {} \/ \E w \in pool[p].closing : Stuck(w))

\* Pool.Close returns.
PoolCloseReturns == \A p \in Pools : pool[p].closed ~> pool[p].closing = {}

\* A caller that sleeps in waitForSlot is unblocked by the slots that other
\* callers free.
WaiterUnblocked == \A c \in Callers : At(c, "asleep") ~> ~At(c, "asleep")
=============================================================================
