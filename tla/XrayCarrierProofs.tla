-------------------------- MODULE XrayCarrierProofs --------------------------
(***************************************************************************)
(* Further proofs about XrayPool, on top of the invariant of               *)
(* XrayPoolProofs: Pool.Close misses no carrier, and a carrier keeps the   *)
(* limits of its sessions.                                                 *)
(***************************************************************************)
EXTENDS XrayPoolProofs

\* A leaf that names no prover is for SMT. The limit is generous: most leaves
\* take well under a second of it.
USE SMTT(120)

\* A live worker is on the list of its pool, or on the copy that Pool.Close
\* took of that list; a worker that is being dialled belongs to its dialler.
Published ==
    /\ \A w \in Workers : worker[w].st = "live" =>
          /\ worker[w].pool \in Pools
          /\ ~pool[worker[w].pool].closed => w \in pool[worker[w].pool].workers
          /\ pool[worker[w].pool].closed => w \in pool[worker[w].pool].closing
    /\ \A c \in Callers : At(c, "dial") => worker[caller[c].got].pool = PoolOf[c]

\* The session map of a worker is finite: Cardinality counts it.
SessionsFinite == \A w \in Workers : IsFiniteSet(worker[w].sess)

\* The inductive invariant.
CarrierInv == PoolInv /\ Published /\ SessionsFinite /\ SessionLimits

-----------------------------------------------------------------------------
(* Pool.Close.  Only DialOk makes a worker live, and only ClosePool moves a  *)
(* pool's list; every other step keeps the owners and the lists.             *)

\* No worker begins to dial or to live, and none changes its pool.
OwnersKept ==
    \A w \in Workers : worker'[w].st \in {"live", "dialing"} =>
        worker'[w].st = worker[w].st /\ worker'[w].pool = worker[w].pool

\* No pool is closed, and no live worker leaves a list.
ListsKept ==
    \A p \in Pools :
        /\ pool'[p].closed = pool[p].closed
        /\ Pruned(p) \subseteq pool'[p].workers
        /\ \A w \in pool[p].closing : worker[w].st = "live" => w \in pool'[p].closing

\* Such a step keeps every live worker on a list.
LEMMA PublishedKept ==
  ASSUME TypeOK, DialsOwned', Published, QuietCallers, OwnersKept, ListsKept
  PROVE  Published'
<1>1. ASSUME NEW w \in Workers, worker'[w].st = "live"
      PROVE  /\ worker'[w].pool \in Pools
             /\ ~pool'[worker'[w].pool].closed => w \in pool'[worker'[w].pool].workers
             /\ pool'[worker'[w].pool].closed => w \in pool'[worker'[w].pool].closing
  <2> DEFINE p == worker[w].pool
  <2>1. worker[w].st = "live" /\ worker'[w].pool = p  BY <1>1, ZenonT(120) DEF OwnersKept
  <2>2. /\ p \in Pools
        /\ ~pool[p].closed => w \in pool[p].workers
        /\ pool[p].closed => w \in pool[p].closing
    BY <2>1, ZenonT(120) DEF Published
  <2> HIDE DEF p
  <2>3. /\ pool'[p].closed = pool[p].closed
        /\ Pruned(p) \subseteq pool'[p].workers
        /\ w \in pool[p].closing => w \in pool'[p].closing
    BY <2>1, <2>2, ZenonT(120) DEF ListsKept
  <2>4. w \in pool[p].workers => w \in Pruned(p)  BY <2>1, ZenonT(120) DEF Pruned
  <2> QED  BY <2>1, <2>2, <2>3, <2>4, ZenonT(120)
<1>2. ASSUME NEW c \in Callers, caller'[c].pc = "dial"
      PROVE  worker'[caller'[c].got].pool = PoolOf[c]
  <2> DEFINE w == caller[c].got
  <2>1. At(c, "dial") /\ caller'[c].got = w  BY <1>2, ZenonT(120) DEF QuietCallers, At
  <2>2. w \in Workers /\ worker'[w].st = "dialing"  BY <1>2, <2>1 DEF DialsOwned, At
  <2>3. worker[w].pool = PoolOf[c]  BY <2>1, ZenonT(120) DEF Published
  <2> QED  BY <2>1, <2>2, <2>3, ZenonT(120) DEF OwnersKept
<1> QED  BY <1>1, <1>2, ZenonT(120) DEF Published, At

\* A step that leaves the pools alone keeps the lists.
LEMMA SamePools ==
  ASSUME pool' = pool PROVE ListsKept
BY DEF ListsKept, Pruned

\* A write to one pool that does not close it and drops no live worker.
LEMMA PoolWrite ==
  ASSUME TypeOK, NEW p \in Pools, NEW r, pool' = [pool EXCEPT ![p] = r],
         r.closed = pool[p].closed, r.closing = pool[p].closing,
         Pruned(p) \subseteq r.workers
  PROVE  ListsKept
<1>1. pool'[p] = r  BY DEF TypeOK
<1>2. ASSUME NEW q \in Pools, q # p PROVE pool'[q] = pool[q]  BY <1>2 DEF TypeOK
<1>3. \A q \in Pools : Pruned(q) \subseteq pool[q].workers  BY ZenonT(120) DEF Pruned
<1> QED  BY <1>1, <1>2, <1>3, ZenonT(120) DEF ListsKept

\* Every step but ClosePool keeps the lists: dialSession.
LEMMA ListsInDialSession ==
  ASSUME TypeOK, NEW c \in Callers,
         \/ WantGrow(c) \/ WaitForSlot(c)
         \/ TrySoft(c) \/ ReserveSoft(c) \/ TryHard(c) \/ ReserveHard(c) \/ JoinFlight(c)
  PROVE  ListsKept
<1> DEFINE p == PoolOf[c]
           Prune == [pool EXCEPT ![p] = [pool[p] EXCEPT !.workers = Pruned(p)]]
<1>0. p \in Pools /\ pool[p] \in PoolState /\ Pruned(p) \subseteq pool[p].workers
  BY Fields DEF Pruned
<1>1. ASSUME pool' = Prune PROVE ListsKept
  <2> DEFINE r == [pool[p] EXCEPT !.workers = Pruned(p)]
  <2>1. pool' = [pool EXCEPT ![p] = r]  BY <1>1
  <2>2. r.closed = pool[p].closed /\ r.closing = pool[p].closing /\ r.workers = Pruned(p)
    BY <1>0 DEF PoolState
  <2> HIDE DEF r
  <2> QED  BY <1>0, <2>1, <2>2, PoolWrite, ZenonT(120)
<1>2. CASE WantGrow(c) \/ WaitForSlot(c)
  <2>1. pool' = Prune \/ pool' = pool  BY <1>2 DEF WantGrow, WaitForSlot
  <2> QED  BY <1>1, <2>1, SamePools, ZenonT(120)
<1>3. ASSUME NEW at, NEW limit, NEW picked, NEW none, Pick(c, at, limit, picked, none)
      PROVE  ListsKept
  <2>1. \/ pool' = pool \/ pool' = Prune
        \/ pool' = [pool EXCEPT ![p] = [pool[p] EXCEPT !.workers = Pruned(p), !.mu = c]]
    BY <1>3, ZenonT(120) DEF Pick
  <2>2. CASE pool' = [pool EXCEPT ![p] = [pool[p] EXCEPT !.workers = Pruned(p), !.mu = c]]
    <3> DEFINE r == [pool[p] EXCEPT !.workers = Pruned(p), !.mu = c]
    <3>1. pool' = [pool EXCEPT ![p] = r]  BY <2>2
    <3>2. r.closed = pool[p].closed /\ r.closing = pool[p].closing /\ r.workers = Pruned(p)
      BY <1>0 DEF PoolState
    <3> HIDE DEF r
    <3> QED  BY <1>0, <3>1, <3>2, PoolWrite, ZenonT(120)
  <2> QED  BY <1>1, <2>1, <2>2, SamePools, ZenonT(120)
<1>4. ASSUME NEW at, NEW limit, NEW none, ReservePicked(c, at, limit, none)
      PROVE  ListsKept
  <2> DEFINE r == [pool[p] EXCEPT !.mu = None]
  <2>1. pool' = [pool EXCEPT ![p] = r]  BY <1>4 DEF ReservePicked
  <2>4. /\ r.closed = pool[p].closed /\ r.closing = pool[p].closing
        /\ r.workers = pool[p].workers
    BY <1>0 DEF PoolState
  <2> HIDE DEF r
  <2> QED  BY <1>0, <2>1, <2>4, PoolWrite, ZenonT(120)
<1>5. CASE JoinFlight(c)
  <2>1. ASSUME NEW k \in Keys, pool' = [pool EXCEPT ![p].flight[k] = c]
        PROVE  ListsKept
    <3> DEFINE r == [pool[p] EXCEPT !.flight = [pool[p].flight EXCEPT ![k] = c]]
    <3>1. pool' = [pool EXCEPT ![p] = r]
      BY <2>1, ZenonT(120)
    <3>4. /\ r.closed = pool[p].closed /\ r.closing = pool[p].closing
          /\ r.workers = pool[p].workers
      BY <1>0 DEF PoolState
    <3> HIDE DEF r
    <3> QED  BY <1>0, <3>1, <3>4, PoolWrite, ZenonT(120)
  <2> QED  BY <1>5, <2>1, SamePools, ZenonT(120) DEF JoinFlight
<1> QED  BY <1>2, <1>3, <1>4, <1>5, ZenonT(120) DEF TrySoft, TryHard, ReserveSoft, ReserveHard

\* The physical dials.
LEMMA ListsInDials ==
  ASSUME TypeOK, NEW c \in Callers,
         \/ AttemptClosed(c) \/ AttemptReuse(c) \/ AttemptRefused(c)
         \/ \E w \in Workers : AttemptDial(c, w)
         \/ DialOk(c) \/ AbortReturn(c) \/ FailReturn(c)
  PROVE  ListsKept
<1> DEFINE p == PoolOf[c]
           ws == pool[p].workers \cup {caller[c].got}
           t == RecordDial(pool[p].dialTimes)
           u == DropLastDial(pool[p].dialTimes)
<1>0. /\ p \in Pools /\ pool[p] \in PoolState
      /\ Pruned(p) \subseteq pool[p].workers /\ Pruned(p) \subseteq ws
  BY Fields DEF Pruned
<1>1. CASE AttemptClosed(c)
  <2> DEFINE r == [pool[p] EXCEPT !.flight = Landed(c)]
  <2>1. pool' = [pool EXCEPT ![p] = r]
    BY <1>1 DEF AttemptClosed
  <2>4. /\ r.closed = pool[p].closed /\ r.closing = pool[p].closing
        /\ r.workers = pool[p].workers
    BY <1>0 DEF PoolState
  <2> HIDE DEF r
  <2> QED  BY <1>0, <2>1, <2>4, PoolWrite, ZenonT(120)
<1>2. CASE AttemptReuse(c) \/ AttemptRefused(c)
  <2> DEFINE r == [pool[p] EXCEPT !.workers = Pruned(p), !.flight = Landed(c)]
  <2>1. pool' = [pool EXCEPT ![p] = r]
    BY <1>2, ZenonT(120) DEF AttemptReuse, AttemptRefused
  <2>4. /\ r.closed = pool[p].closed /\ r.closing = pool[p].closing
        /\ r.workers = Pruned(p)
    BY <1>0 DEF PoolState
  <2> HIDE DEF r
  <2> QED  BY <1>0, <2>1, <2>4, PoolWrite, ZenonT(120)
<1>3. CASE \E w \in Workers : AttemptDial(c, w)
  <2> DEFINE r == [pool[p] EXCEPT !.workers = Pruned(p), !.dialMu = c, !.dialTimes = t]
  <2>1. pool' = [pool EXCEPT ![p] = r]
    BY <1>3, ZenonT(120) DEF AttemptDial
  <2> HIDE DEF t
  <2>4. /\ r.closed = pool[p].closed /\ r.closing = pool[p].closing
        /\ r.workers = Pruned(p)
    BY <1>0 DEF PoolState
  <2> HIDE DEF r
  <2> QED  BY <1>0, <2>1, <2>4, PoolWrite, ZenonT(120)
<1>4. CASE DialOk(c)
  <2> DEFINE r == [pool[p] EXCEPT !.workers = ws, !.dialMu = None, !.flight = Landed(c)]
  <2>1. pool' = [pool EXCEPT ![p] = r]
    BY <1>4, ZenonT(120) DEF DialOk
  <2> HIDE DEF ws
  <2>4. r.closed = pool[p].closed /\ r.closing = pool[p].closing /\ r.workers = ws
    BY <1>0 DEF PoolState
  <2> HIDE DEF r
  <2> QED  BY <1>0, <2>1, <2>4, PoolWrite, ZenonT(120)
<1>5. CASE AbortReturn(c)
  <2> DEFINE r == [pool[p] EXCEPT !.dialMu = None, !.flight = Landed(c)]
  <2>1. pool' = [pool EXCEPT ![p] = r]
    BY <1>5, ZenonT(120) DEF AbortReturn
  <2>4. /\ r.closed = pool[p].closed /\ r.closing = pool[p].closing
        /\ r.workers = pool[p].workers
    BY <1>0 DEF PoolState
  <2> HIDE DEF r
  <2> QED  BY <1>0, <2>1, <2>4, PoolWrite, ZenonT(120)
<1>6. CASE FailReturn(c)
  <2> DEFINE r == [pool[p] EXCEPT !.dialTimes = u, !.dialMu = None, !.flight = Landed(c)]
  <2>1. pool' = [pool EXCEPT ![p] = r]
    BY <1>6, ZenonT(120) DEF FailReturn
  <2> HIDE DEF u
  <2>4. /\ r.closed = pool[p].closed /\ r.closing = pool[p].closing
        /\ r.workers = pool[p].workers
    BY <1>0 DEF PoolState
  <2> HIDE DEF r
  <2> QED  BY <1>0, <2>1, <2>4, PoolWrite, ZenonT(120)
<1> QED  BY <1>1, <1>2, <1>3, <1>4, <1>5, <1>6, ZenonT(120)

\* Pool.Close after its first step, and the clock.
LEMMA ListsInClose ==
  ASSUME TypeOK, (\E p \in Pools : CloseNext(p) \/ CloseStep(p)) \/ Tick
  PROVE  ListsKept
<1>1. ASSUME NEW p \in Pools, CloseNext(p) PROVE ListsKept
  <2>1. PICK w : pool' = [pool EXCEPT ![p] = [pool[p] EXCEPT !.current = w]]
    BY <1>1, ZenonT(120) DEF CloseNext
  <2> DEFINE r == [pool[p] EXCEPT !.current = w]
  <2>2. r.closed = pool[p].closed /\ r.closing = pool[p].closing /\ r.workers = pool[p].workers
    BY Fields DEF PoolState
  <2>3. pool' = [pool EXCEPT ![p] = r]  BY <2>1
  <2> HIDE DEF r
  <2>4. Pruned(p) \subseteq r.workers  BY <2>2, ZenonT(120) DEF Pruned
  <2> QED  BY <2>2, <2>3, <2>4, PoolWrite, ZenonT(120)
<1>2. ASSUME NEW p \in Pools, CloseStep(p) PROVE ListsKept
  <2> DEFINE w == pool[p].current
             r == [pool[p] EXCEPT !.closing = pool[p].closing \ {w}, !.current = None]
  <2>1. worker[w].st = "released" /\ pool' = [pool EXCEPT ![p] = r]
    BY <1>2, ZenonT(120) DEF CloseStep
  <2>2. /\ r.closed = pool[p].closed /\ r.closing = pool[p].closing \ {w}
        /\ r.workers = pool[p].workers
    BY Fields DEF PoolState
  <2> HIDE DEF r
  <2>3. pool'[p] = r /\ \A q \in Pools : q # p => pool'[q] = pool[q]  BY <2>1 DEF TypeOK
  <2>4. \A v \in pool[p].closing : worker[v].st = "live" => v \in r.closing
    BY <2>1, <2>2
  <2>5. \A q \in Pools : Pruned(q) \subseteq pool[q].workers  BY ZenonT(120) DEF Pruned
  <2> QED  BY <2>2, <2>3, <2>4, <2>5, ZenonT(120) DEF ListsKept
<1>3. CASE Tick
  <2>1. ASSUME NEW p \in Pools
        PROVE  /\ pool'[p].closed = pool[p].closed /\ pool'[p].closing = pool[p].closing
               /\ pool'[p].workers = pool[p].workers
    <3>1. PICK t : pool'[p] = [pool[p] EXCEPT !.dialTimes = t]  BY <1>3, ZenonT(120) DEF Tick
    <3> QED  BY <3>1, Fields DEF PoolState
  <2>2. \A p \in Pools : Pruned(p) \subseteq pool[p].workers  BY ZenonT(120) DEF Pruned
  <2> QED  BY <2>1, <2>2, ZenonT(120) DEF ListsKept
<1> QED  BY <1>1, <1>2, <1>3, ZenonT(120)

\* No session is added to a worker, and none is counted.
SessionsShrink ==
    \A w \in Workers : /\ worker'[w].sess \subseteq worker[w].sess
                       /\ worker'[w].total \in {worker[w].total, 0}

\* A step that leaves the workers alone keeps their owners and their sessions.
LEMMA SameCarriers ==
  ASSUME worker' = worker PROVE OwnersKept /\ SessionsShrink
BY DEF OwnersKept, SessionsShrink

\* A write to one worker that keeps its pool, starts nothing and adds no session.
LEMMA CarrierWrite ==
  ASSUME TypeOK, NEW w, NEW r, worker' = [worker EXCEPT ![w] = r],
         w \in Workers =>
            /\ r.st \in {"live", "dialing"} => r.st = worker[w].st /\ r.pool = worker[w].pool
            /\ r.sess \subseteq worker[w].sess
            /\ r.total \in {worker[w].total, 0}
  PROVE  OwnersKept /\ SessionsShrink
<1>1. w \in Workers => worker'[w] = r  BY DEF TypeOK
<1>2. \A v \in Workers : v # w => worker'[v] = worker[v]  BY DEF TypeOK
<1>3. OwnersKept  BY <1>1, <1>2, ZenonT(120) DEF OwnersKept
<1>4. SessionsShrink
  <2>1. \A v \in Workers : v # w =>
           worker'[v].sess \subseteq worker[v].sess /\ worker'[v].total = worker[v].total
    BY <1>2, ZenonT(120)
  <2> QED  BY <1>1, <2>1, ZenonT(120) DEF SessionsShrink
<1> QED  BY <1>3, <1>4

\* The open and the end of a session add no session.
LEMMA CarriersInSessions ==
  ASSUME TypeOK, NEW c \in Callers,
         OpenFails(c) \/ AbandonSession(c) \/ RemoveSession(c) \/ SignalFree(c) \/ SignalRetire(c)
  PROVE  OwnersKept /\ SessionsShrink
<1> DEFINE w == caller[c].got
           left == worker[w].sess \ {c}
<1>0. /\ w \in Workers => worker[w] \in WorkerState
      /\ left \subseteq worker[w].sess
  BY DEF TypeOK
<1>1. CASE OpenFails(c)
  <2> DEFINE r == [worker[w] EXCEPT !.sess = left]
  <2>1. worker' = [worker EXCEPT ![w] = r]
    BY <1>1 DEF OpenFails
  <2> HIDE DEF left
  <2>4. w \in Workers =>
        /\ r.st = worker[w].st /\ r.pool = worker[w].pool
        /\ r.sess = left /\ r.total = worker[w].total
    BY <1>0 DEF WorkerState
  <2> HIDE DEF r
  <2> QED  BY <1>0, <2>1, <2>4, CarrierWrite, ZenonT(120)
<1>2. CASE AbandonSession(c)
  <2> DEFINE T == worker[w].snap \ {c}
             d == Doom(w)
  <2> DEFINE r == [worker[w] EXCEPT !.snap = T, !.doomed = d]
  <2>1. worker' = [worker EXCEPT ![w] = r]
    BY <1>2, ZenonT(120) DEF AbandonSession
  <2> HIDE DEF T, d
  <2>4. w \in Workers =>
        /\ r.st = worker[w].st /\ r.pool = worker[w].pool
        /\ r.sess = worker[w].sess /\ r.total = worker[w].total
    BY <1>0 DEF WorkerState
  <2> HIDE DEF r
  <2> QED  BY <1>0, <2>1, <2>4, CarrierWrite, ZenonT(120)
<1>3. CASE RemoveSession(c)
  <2>1. PICK i : worker' = [worker EXCEPT ![w] = [worker[w] EXCEPT !.sess = left, !.idle = i]]
    BY <1>3, ZenonT(120) DEF RemoveSession
  <2> HIDE DEF left
  <2> DEFINE r == [worker[w] EXCEPT !.sess = left, !.idle = i]
  <2>3. worker' = [worker EXCEPT ![w] = r]  BY <2>1
  <2>4. w \in Workers =>
        /\ r.st = worker[w].st /\ r.pool = worker[w].pool
        /\ r.sess = left /\ r.total = worker[w].total
    BY <1>0 DEF WorkerState
  <2> HIDE DEF r
  <2> QED  BY <1>0, <2>3, <2>4, CarrierWrite, ZenonT(120)
<1>4. CASE SignalFree(c)
  <2> DEFINE T == worker[w].snap \ {c}
  <2> DEFINE r == [worker[w] EXCEPT !.snap = T]
  <2>1. worker' = [worker EXCEPT ![w] = r]
    BY <1>4 DEF SignalFree
  <2> HIDE DEF T
  <2>4. w \in Workers =>
        /\ r.st = worker[w].st /\ r.pool = worker[w].pool
        /\ r.sess = worker[w].sess /\ r.total = worker[w].total
    BY <1>0, ZenonT(120) DEF WorkerState
  <2> HIDE DEF r
  <2> QED  BY <1>0, <2>1, <2>4, CarrierWrite, ZenonT(120)
<1>5. CASE SignalRetire(c)
  <2> DEFINE d == Doom(w)
  <2> DEFINE r == [worker[w] EXCEPT !.doomed = d]
  <2>1. worker' = [worker EXCEPT ![w] = r]
    BY <1>5 DEF SignalRetire
  <2> HIDE DEF d
  <2>4. w \in Workers =>
        /\ r.st = worker[w].st /\ r.pool = worker[w].pool
        /\ r.sess = worker[w].sess /\ r.total = worker[w].total
    BY <1>0 DEF WorkerState
  <2> HIDE DEF r
  <2> QED  BY <1>0, <2>1, <2>4, CarrierWrite, ZenonT(120)
<1> QED  BY <1>1, <1>2, <1>3, <1>4, <1>5, ZenonT(120)

\* Neither does a dial that fails or comes too late, or any step of worker.close.
LEMMA CarriersInCloses ==
  ASSUME TypeOK, NEW w \in Workers,
         \/ CarrierFails(w) \/ CloseDoomed(w) \/ IdleFires(w) \/ ReleasePermit(w)
         \/ SignalReleased(w) \/ \E c \in Callers : FinishSnapped(w, c)
  PROVE  OwnersKept /\ SessionsShrink
<1>0. worker[w] \in WorkerState  BY DEF TypeOK
<1>1. CASE BeginClose(w)
  <2> DEFINE r == [worker[w] EXCEPT !.st = "closing", !.snap = worker[w].sess, !.sess = {},
                                    !.idle = FALSE, !.doomed = FALSE]
  <2>1. worker' = [worker EXCEPT ![w] = r]  BY <1>1, ZenonT(120) DEF BeginClose
  <2>2. r.st = "closing" /\ r.sess = {} /\ r.total = worker[w].total  BY <1>0 DEF WorkerState
  <2> HIDE DEF r
  <2>3. r.st \notin {"live", "dialing"} /\ r.sess \subseteq worker[w].sess  BY <2>2
  <2> QED  BY <2>1, <2>2, <2>3, CarrierWrite, ZenonT(120)
<1>2. CASE IdleFires(w)
  <2> DEFINE r == [worker[w] EXCEPT !.idle = FALSE, !.doomed = TRUE]
  <2>1. worker' = [worker EXCEPT ![w] = r]
    BY <1>2, ZenonT(120) DEF IdleFires
  <2>4. w \in Workers =>
        /\ r.st = worker[w].st /\ r.pool = worker[w].pool
        /\ r.sess = worker[w].sess /\ r.total = worker[w].total
    BY <1>0 DEF WorkerState
  <2> HIDE DEF r
  <2> QED  BY <1>0, <2>1, <2>4, CarrierWrite, ZenonT(120)
<1>3. CASE \E c \in Callers : FinishSnapped(w, c)
  <2>2. PICK c \in Callers : FinishSnapped(w, c)  BY <1>3
  <2> DEFINE T == worker[w].snap \ {c}
             j == IF worker[w].total >= MaxUses THEN c ELSE None
  <2>1. worker' = [worker EXCEPT ![w] = [worker[w] EXCEPT !.snap = T, !.jam = j]]
    BY <2>2, ZenonT(120) DEF FinishSnapped
  <2> DEFINE r == [worker[w] EXCEPT !.snap = T, !.jam = j]
  <2>3. worker' = [worker EXCEPT ![w] = r]  BY <2>1
  <2>4. w \in Workers =>
        /\ r.st = worker[w].st /\ r.pool = worker[w].pool
        /\ r.sess = worker[w].sess /\ r.total = worker[w].total
    BY <1>0 DEF WorkerState
  <2> HIDE DEF r
  <2> QED  BY <1>0, <2>3, <2>4, CarrierWrite, ZenonT(120)
<1>4. CASE ReleasePermit(w)
  <2> DEFINE r == [worker[w] EXCEPT !.st = "freed"]
  <2>1. worker' = [worker EXCEPT ![w] = r]  BY <1>4 DEF ReleasePermit
  <2>2. r.st = "freed" /\ r.sess = worker[w].sess /\ r.total = worker[w].total
    BY <1>0 DEF WorkerState
  <2> HIDE DEF r
  <2>3. r.st \notin {"live", "dialing"} /\ r.sess \subseteq worker[w].sess  BY <2>2
  <2> QED  BY <2>1, <2>2, <2>3, CarrierWrite, ZenonT(120)
<1>5. CASE SignalReleased(w)
  <2> DEFINE r == [NoWorker EXCEPT !.st = "released", !.born = worker[w].born,
                       !.pool = IF worker[w].born < Window THEN worker[w].pool ELSE None]
  <2>1. worker' = [worker EXCEPT ![w] = r]  BY <1>5 DEF SignalReleased
  <2>2. r.st = "released" /\ r.sess = {} /\ r.total = 0  BY DEF NoWorker
  <2> HIDE DEF r
  <2>3. r.st \notin {"live", "dialing"} /\ r.sess \subseteq worker[w].sess  BY <2>2
  <2> QED  BY <2>1, <2>2, <2>3, CarrierWrite, ZenonT(120)
<1> QED  BY <1>1, <1>2, <1>3, <1>4, <1>5, ZenonT(120) DEF CarrierFails, CloseDoomed

\* Nor do a dial that fails or ends after Close, Pool.Close and the clock.
LEMMA CarriersElsewhere ==
  ASSUME TypeOK,
         \/ \E c \in Callers : DialLate(c) \/ DialFail(c)
         \/ \E p \in Pools : CloseNext(p)
         \/ Tick
  PROVE  OwnersKept /\ SessionsShrink
<1>1. ASSUME NEW c \in Callers, DialLate(c) PROVE OwnersKept /\ SessionsShrink
  <2> DEFINE w == caller[c].got
             r == [worker[w] EXCEPT !.st = "closing"]
  <2>1. worker' = [worker EXCEPT ![w] = r]  BY <1>1 DEF DialLate
  <2>2. w \in Workers => r.st = "closing" /\ r.sess = worker[w].sess /\ r.total = worker[w].total
    BY Fields DEF WorkerState
  <2> HIDE DEF r
  <2>3. w \in Workers => r.st \notin {"live", "dialing"} /\ r.sess \subseteq worker[w].sess  BY <2>2
  <2> QED  BY <2>1, <2>2, <2>3, CarrierWrite, ZenonT(120)
<1>2. ASSUME NEW c \in Callers, DialFail(c) PROVE OwnersKept /\ SessionsShrink
  <2> DEFINE w == caller[c].got
  <2>1. worker' = [worker EXCEPT ![w] = NoWorker]  BY <1>2 DEF DialFail
  <2>2. /\ NoWorker.st \notin {"live", "dialing"}
        /\ NoWorker.sess \subseteq worker[w].sess /\ NoWorker.total = 0
    BY DEF NoWorker
  <2> QED  BY <2>1, <2>2, CarrierWrite, ZenonT(120)
<1>3. ASSUME NEW p \in Pools, CloseNext(p) PROVE OwnersKept /\ SessionsShrink
  <2>1. PICK w \in pool[p].closing :
          worker' = [worker EXCEPT ![w] = [worker[w] EXCEPT !.doomed = Doom(w)]]
    BY <1>3, ZenonT(120) DEF CloseNext
  <2>2. w \in Workers /\ worker[w] \in WorkerState  BY Fields
  <2> DEFINE r == [worker[w] EXCEPT !.doomed = Doom(w)]
  <2>3. worker' = [worker EXCEPT ![w] = r]  BY <2>1
  <2>4. w \in Workers =>
        /\ r.st = worker[w].st /\ r.pool = worker[w].pool
        /\ r.sess = worker[w].sess /\ r.total = worker[w].total
    BY <2>2 DEF WorkerState
  <2> HIDE DEF r
  <2> QED  BY <2>2, <2>3, <2>4, CarrierWrite, ZenonT(120)
<1>4. CASE Tick
  <2>1. ASSUME NEW w \in Workers
        PROVE  /\ worker'[w].st = worker[w].st /\ worker'[w].pool = worker[w].pool
               /\ worker'[w].sess = worker[w].sess /\ worker'[w].total = worker[w].total
    <3>1. PICK b : worker'[w] = [worker[w] EXCEPT !.born = b]  BY <1>4, ZenonT(120) DEF Tick
    <3> QED  BY <3>1, Fields DEF WorkerState
  <2> QED  BY <2>1, ZenonT(120) DEF OwnersKept, SessionsShrink
<1> QED  BY <1>1, <1>2, <1>3, <1>4, ZenonT(120)

-----------------------------------------------------------------------------
(* Sessions.  Only Reserve adds one; every other step keeps the sessions or  *)
(* drops some, and the callers that keep one stay with it.                   *)

\* A caller that has a session keeps it.
UsersStay ==
    \A c \in Callers : caller[c].pc \in {"open", "use"} =>
        caller'[c].pc \in {"open", "use"} /\ caller'[c].got = caller[c].got

\* After the step every session belongs to a caller that uses it.
HoldersKnown ==
    \A w \in Workers : \A c \in worker'[w].sess :
        caller'[c].got = w /\ caller'[c].pc \in {"open", "use"}

\* The hard limit is a number.
LEMMA HardType ==
  ASSUME NEW c \in Callers PROVE Hard(c) \in Nat
BY PoolAssumption DEF Hard, Soft

\* The sessions of one kind on a worker are a finite set.
LEMMA ActiveType ==
  ASSUME SessionsFinite, NEW w \in Workers, NEW c
  PROVE  IsFiniteSet({d \in worker[w].sess : Packet[d] = Packet[c]}) /\ Active(w, c) \in Nat
<1>1. IsFiniteSet({d \in worker[w].sess : Packet[d] = Packet[c]})
  <2>1. IsFiniteSet(worker[w].sess)  BY DEF SessionsFinite
  <2>2. {d \in worker[w].sess : Packet[d] = Packet[c]} \subseteq worker[w].sess  BY ZenonT(120)
  <2> QED  BY <2>1, <2>2, FS_Subset, ZenonT(120)
<1> QED  BY <1>1, FS_CardinalityType, ZenonT(120) DEF Active

\* A step that adds no session keeps the limits.
LEMMA ShrinkKeeps ==
  ASSUME TypeOK, SessionsFinite, SessionLimits, SessionsShrink, HoldersKnown
  PROVE  SessionsFinite' /\ SessionLimits'
<1>1. ASSUME NEW w \in Workers PROVE IsFiniteSet(worker'[w].sess) /\ worker'[w].total <= MaxUses
  <2>1. worker'[w].sess \subseteq worker[w].sess /\ worker'[w].total \in {worker[w].total, 0}
    BY ZenonT(120) DEF SessionsShrink
  <2>2. IsFiniteSet(worker[w].sess)  BY ZenonT(120) DEF SessionsFinite
  <2>3. IsFiniteSet(worker'[w].sess)  BY <2>1, <2>2, FS_Subset, ZenonT(120)
  <2>4. worker[w].total <= MaxUses /\ 0 <= MaxUses  BY PoolAssumption DEF SessionLimits
  <2> QED  BY <2>1, <2>3, <2>4, ZenonT(120)
<1>2. ASSUME NEW w \in Workers, NEW c \in worker'[w].sess PROVE Active(w, c)' <= Hard(c)
  <2> DEFINE old == {d \in worker[w].sess : Packet[d] = Packet[c]}
             new == {d \in worker'[w].sess : Packet[d] = Packet[c]}
  <2>1. worker'[w].sess \subseteq worker[w].sess  BY ZenonT(120) DEF SessionsShrink
  <2>2. c \in worker[w].sess /\ c \in Callers  BY <1>2, <2>1, Fields
  <2>3. new \subseteq old  BY <2>1
  <2>4. IsFiniteSet(old) /\ Cardinality(old) \in Nat /\ Cardinality(old) <= Hard(c)
    <3>1. Active(w, c) = Cardinality(old)  BY DEF Active
    <3>2. Active(w, c) <= Hard(c)  BY <2>2, ZenonT(120) DEF SessionLimits
    <3>3. IsFiniteSet(old) /\ Active(w, c) \in Nat  BY ActiveType, ZenonT(120)
    <3> QED  BY <3>1, <3>2, <3>3, ZenonT(120)
  <2>5. Active(w, c)' = Cardinality(new)  BY DEF Active
  <2> HIDE DEF old, new
  <2>6. Cardinality(new) \in Nat /\ Cardinality(new) <= Cardinality(old)
    BY <2>3, <2>4, FS_Subset, FS_CardinalityType, ZenonT(120)
  <2> QED  BY <2>2, <2>4, <2>5, <2>6, HardType
<1>3. SessionsFinite'  BY <1>1 DEF SessionsFinite
<1>4. \A c : Hard(c)' = Hard(c)  BY DEF Hard, Soft
<1> QED  BY <1>1, <1>2, <1>3, <1>4, ZenonT(120) DEF SessionLimits, HoldersKnown

\* Callers that keep their sessions are known.
LEMMA StayersKnown ==
  ASSUME TypeOK, SessionLimits, SessionsShrink, UsersStay
  PROVE  HoldersKnown
<1> SUFFICES ASSUME NEW w \in Workers, NEW c \in worker'[w].sess
             PROVE  caller'[c].got = w /\ caller'[c].pc \in {"open", "use"}
  BY ZenonT(120) DEF HoldersKnown
<1>1. c \in worker[w].sess  BY ZenonT(120) DEF SessionsShrink
<1>2. c \in Callers  BY <1>1, Fields
<1>3. caller[c].got = w /\ caller[c].pc \in {"open", "use"}  BY <1>1, ZenonT(120) DEF SessionLimits
<1> QED  BY <1>2, <1>3, ZenonT(120) DEF UsersStay

\* So are they when one caller gives its session up.
LEMMA LeaverKnown ==
  ASSUME TypeOK, SessionLimits, SessionsShrink, NEW c \in Callers,
         caller[c].got \in Workers => c \notin worker'[caller[c].got].sess,
         \A d \in Callers : d # c => caller'[d] = caller[d]
  PROVE  HoldersKnown
<1> SUFFICES ASSUME NEW w \in Workers, NEW d \in worker'[w].sess
             PROVE  caller'[d].got = w /\ caller'[d].pc \in {"open", "use"}
  BY ZenonT(120) DEF HoldersKnown
<1>1. d \in worker[w].sess  BY ZenonT(120) DEF SessionsShrink
<1>2. d \in Callers  BY <1>1, Fields
<1>3. caller[d].got = w /\ caller[d].pc \in {"open", "use"}  BY <1>1, ZenonT(120) DEF SessionLimits
<1>4. d # c  BY <1>3, ZenonT(120)
<1> QED  BY <1>2, <1>3, <1>4, ZenonT(120)

\* A caller that goes on in dialSession, leaves it or gets the result of a dial
\* had no session; signalFree touches only sleepers.
LEMMA StayGoto ==
  ASSUME TypeOK, NEW c \in Callers, NEW next, caller[c].pc \notin {"open", "use"}, Goto(c, next)
  PROVE  UsersStay
<1>1. \A d \in Callers : d # c => caller'[d] = caller[d]  BY DEF Goto, TypeOK
<1> QED  BY <1>1, ZenonT(120) DEF UsersStay

LEMMA StayLeave ==
  ASSUME TypeOK, NEW c \in Callers, caller[c].pc \notin {"open", "use"}, Leave(c)
  PROVE  UsersStay
<1>1. \A d \in Callers : d # c => caller'[d] = caller[d]  BY DEF Leave, TypeOK
<1> QED  BY <1>1, ZenonT(120) DEF UsersStay

LEMMA StayReturn ==
  ASSUME NEW c \in Callers, NEW next, NEW w, caller[c].pc \notin {"open", "use"},
         Return(c, next, w)
  PROVE  UsersStay
<1>1. ASSUME NEW d \in Callers, caller[d].pc \in {"open", "use"} PROVE caller'[d] = caller[d]
  <2>1. d \notin Flown(c)  BY <1>1 DEF Flown
  <2> QED  BY <2>1, ZenonT(120) DEF Return
<1> QED  BY <1>1, ZenonT(120) DEF UsersStay

LEMMA StayWoken ==
  ASSUME NEW p, NEW c \in Callers, caller[c].pc \in {"open", "use"}
  PROVE  Woken(p)[c] = caller[c]
BY DEF Woken

\* The steps of dialSession, except reserve.
LEMMA UsersInDialSession ==
  ASSUME TypeOK, NEW c \in Callers,
         \/ Start(c) \/ Cancel(c) \/ LoopCancelled(c) \/ WantGrow(c) \/ TrySoft(c) \/ TryHard(c)
         \/ JoinFlight(c) \/ WaitForSlot(c) \/ CancelWakes(c)
  PROVE  UsersStay
<1>0. caller \in [Callers -> CallerState]  BY DEF TypeOK
<1>1. CASE Start(c) \/ LoopCancelled(c) \/ WantGrow(c) \/ WaitForSlot(c)
  <2>1. caller[c].pc \notin {"open", "use"}
    BY <1>1 DEF Start, LoopCancelled, WantGrow, WaitForSlot, At
  <2>2. Leave(c) \/ \E next : Goto(c, next)
    BY <1>1, ZenonT(120) DEF Start, LoopCancelled, WantGrow, WaitForSlot
  <2> QED  BY <2>1, <2>2, StayGoto, StayLeave, ZenonT(120)
<1>2. CASE Cancel(c)
  <2>1. caller[c].pc \notin {"open", "use"}  BY <1>2 DEF Cancel
  <2>2. \A d \in Callers : d # c => caller'[d] = caller[d]  BY <1>0, <1>2 DEF Cancel
  <2> QED  BY <2>1, <2>2, ZenonT(120) DEF UsersStay
<1>3. ASSUME NEW at, NEW limit, NEW picked, NEW none, at \notin {"open", "use"},
             Pick(c, at, limit, picked, none)
      PROVE  UsersStay
  <2>1. caller[c].pc \notin {"open", "use"}  BY <1>3, ZenonT(120) DEF Pick, At
  <2>2. \A d \in Callers : d # c => caller'[d] = caller[d]  BY <1>0, <1>3 DEF Pick, Goto
  <2> QED  BY <2>1, <2>2, ZenonT(120) DEF UsersStay
<1>4. CASE JoinFlight(c)
  <2>1. caller[c].pc \notin {"open", "use"}  BY <1>4, ZenonT(120) DEF JoinFlight, At
  <2>2. \A d \in Callers : d # c => caller'[d] = caller[d]  BY <1>0, <1>4 DEF JoinFlight
  <2> QED  BY <2>1, <2>2, ZenonT(120) DEF UsersStay
<1>5. CASE CancelWakes(c)  BY <1>5, StayWoken, ZenonT(120) DEF CancelWakes, UsersStay
<1>6. CASE TrySoft(c) \/ TryHard(c)
  <2>1. "soft" \notin {"open", "use"} /\ "hard" \notin {"open", "use"}  OBVIOUS
  <2> QED  BY <1>3, <1>6, <2>1, ZenonT(120) DEF TrySoft, TryHard
<1> QED  BY <1>1, <1>2, <1>4, <1>5, <1>6, ZenonT(120)

\* The physical dials.
LEMMA UsersInDials ==
  ASSUME TypeOK, NEW c \in Callers,
         \/ AttemptClosed(c) \/ AttemptReuse(c) \/ AttemptRefused(c)
         \/ \E w \in Workers : AttemptDial(c, w)
         \/ DialOk(c) \/ DialLate(c) \/ DialFail(c) \/ AbortReturn(c) \/ FailReturn(c)
  PROVE  UsersStay
<1>0. caller \in [Callers -> CallerState]  BY DEF TypeOK
<1>1. caller[c].pc \notin {"open", "use"}
  <2>1. caller[c].pc \in {"grow", "lead", "dial", "abort", "failed"}
    BY ZenonT(120) DEF AttemptClosed, AttemptReuse, AttemptRefused, AttemptDial, MayAttempt,
                 DialOk, DialLate, DialFail, AbortReturn, FailReturn, At
  <2> QED  BY <2>1
<1>2. CASE \/ AttemptClosed(c) \/ AttemptReuse(c) \/ AttemptRefused(c)
           \/ DialOk(c) \/ AbortReturn(c) \/ FailReturn(c)
  <2>1. \E next, w : Return(c, next, w)
    BY <1>2, ZenonT(120) DEF AttemptClosed, AttemptReuse, AttemptRefused, DialOk, AbortReturn, FailReturn
  <2> QED  BY <1>1, <2>1, StayReturn, ZenonT(120)
<1>3. CASE (\E w \in Workers : AttemptDial(c, w)) \/ DialFail(c) \/ DialLate(c)
  <2>1. \A d \in Callers : d # c => caller'[d] = caller[d]
    BY <1>0, <1>3, ZenonT(120) DEF AttemptDial, DialFail, DialLate, Goto
  <2> QED  BY <1>1, <2>1, ZenonT(120) DEF UsersStay
<1> QED  BY <1>2, <1>3, ZenonT(120)

\* The sessions: a caller leaves its session only together with the map.
LEMMA HoldersInSessions ==
  ASSUME TypeOK, SessionLimits, SessionsShrink, NEW c \in Callers,
         \/ OpenSession(c) \/ OpenFails(c) \/ AbandonSession(c) \/ RemoveSession(c)
         \/ AlreadyFinished(c) \/ SignalFree(c) \/ SignalRetire(c) \/ CloseReturns(c)
  PROVE  HoldersKnown
<1> DEFINE w == caller[c].got
<1>0. /\ caller \in [Callers -> CallerState] /\ caller[c] \in CallerState
      /\ worker \in [Workers -> WorkerState]
      /\ w \in Workers => worker[w] \in WorkerState
  BY DEF TypeOK
<1>1. CASE OpenSession(c)
  <2>1. caller' = [caller EXCEPT ![c] = [caller[c] EXCEPT !.pc = "use"]]
    BY <1>1 DEF OpenSession, Goto
  <2>2. [caller[c] EXCEPT !.pc = "use"].pc = "use" /\ [caller[c] EXCEPT !.pc = "use"].got = w
    BY <1>0 DEF CallerState
  <2>3. caller'[c].pc = "use" /\ caller'[c].got = w  BY <1>0, <2>1, <2>2, ZenonT(120)
  <2>4. \A d \in Callers : d # c => caller'[d] = caller[d]  BY <1>0, <2>1
  <2>5. UsersStay  BY <2>3, <2>4 DEF UsersStay
  <2> QED  BY <2>5, StayersKnown
<1>2. CASE OpenFails(c) \/ RemoveSession(c)
  <2>1. PICK r : /\ worker' = [worker EXCEPT ![w] = r]
                 /\ w \in Workers => r.sess = worker[w].sess \ {c}
    <3>1. CASE OpenFails(c)
      <4> DEFINE s == [worker[w] EXCEPT !.sess = worker[w].sess \ {c}]
      <4>1. worker' = [worker EXCEPT ![w] = s]  BY <3>1 DEF OpenFails
      <4>2. w \in Workers => s.sess = worker[w].sess \ {c}  BY <1>0 DEF WorkerState
      <4> HIDE DEF s
      <4> QED  BY <4>1, <4>2, ZenonT(120)
    <3>2. CASE RemoveSession(c)
      <4>1. PICK i : worker' = [worker EXCEPT ![w] = [worker[w] EXCEPT
                                    !.sess = worker[w].sess \ {c}, !.idle = i]]
        BY <3>2, ZenonT(120) DEF RemoveSession
      <4> DEFINE s == [worker[w] EXCEPT !.sess = worker[w].sess \ {c}, !.idle = i]
      <4>2. worker' = [worker EXCEPT ![w] = s]  BY <4>1
      <4>3. w \in Workers => s.sess = worker[w].sess \ {c}  BY <1>0 DEF WorkerState
      <4> HIDE DEF s
      <4> QED  BY <4>2, <4>3, ZenonT(120)
    <3> QED  BY <1>2, <3>1, <3>2, ZenonT(120)
  <2>2. w \in Workers => c \notin worker'[w].sess  BY <1>0, <2>1
  <2>3. \A d \in Callers : d # c => caller'[d] = caller[d]
    BY <1>0, <1>2, ZenonT(120) DEF OpenFails, RemoveSession, Goto
  <2> QED  BY <2>2, <2>3, LeaverKnown, ZenonT(120)
<1>3. CASE AlreadyFinished(c)
  <2>1. w \in Workers => c \notin worker'[w].sess  BY <1>3 DEF AlreadyFinished
  <2>2. \A d \in Callers : d # c => caller'[d] = caller[d]  BY <1>0, <1>3 DEF AlreadyFinished, Leave
  <2> QED  BY <2>1, <2>2, LeaverKnown, ZenonT(120)
<1>4. CASE AbandonSession(c) \/ SignalFree(c) \/ SignalRetire(c)
  <2>1. caller[c].pc \notin {"open", "use"}
    BY <1>4, ZenonT(120) DEF AbandonSession, SignalFree, SignalRetire, At
  <2>2. \A d \in Callers : d # c => caller'[d] = Woken(PoolOf[c])[d]
    <3>1. Woken(PoolOf[c]) \in [Callers -> CallerState]  BY WokenType
    <3> QED  BY <1>4, <3>1 DEF AbandonSession, SignalFree, SignalRetire
  <2>3. UsersStay  BY <2>1, <2>2, StayWoken, ZenonT(120) DEF UsersStay
  <2> QED  BY <2>3, StayersKnown
<1>5. CASE CloseReturns(c)
  <2>1. caller[c].pc \notin {"open", "use"}  BY <1>5 DEF CloseReturns, At
  <2> QED  BY <1>5, <2>1, StayLeave, StayersKnown, ZenonT(120) DEF CloseReturns
<1> QED  BY <1>1, <1>2, <1>3, <1>4, <1>5, ZenonT(120)

\* The soft limit is within the hard one.
LEMMA SoftInHard ==
  ASSUME NEW c \in Callers PROVE Soft(c) \in Nat /\ Soft(c) <= Hard(c)
<1>1. Soft(c) \in Nat /\ HardMult \in Nat /\ HardMult >= 1  BY PoolAssumption DEF Soft
<1>2. \A a, b \in Nat : b >= 1 => a <= a * b  OBVIOUS
<1> QED  BY <1>1, <1>2 DEF Hard

\* worker.reserve with room: the checks under w.mu are what the limits need.
LEMMA ReserveTakes ==
  ASSUME TypeOK, SessionsFinite, SessionLimits, NEW c \in Callers, NEW limit \in Nat, NEW none,
         limit <= Hard(c), caller[c].pc \notin {"open", "use"}, Reserve(c, limit, none),
         caller[c].got \in Workers, HasCapacity(caller[c].got, c, limit)
  PROVE  OwnersKept /\ SessionsFinite' /\ SessionLimits'
<1> DEFINE w == caller[c].got
           r == [worker[w] EXCEPT !.total = worker[w].total + 1,
                                  !.sess = worker[w].sess \cup {c}, !.idle = FALSE]
           room == {d \in worker[w].sess : Packet[d] = Packet[c]}
<1>0. /\ caller \in [Callers -> CallerState] /\ caller[c] \in CallerState
      /\ worker \in [Workers -> WorkerState] /\ worker[w] \in WorkerState
      /\ worker[w].total \in Nat
      /\ \A v \in Workers : worker[v].sess \subseteq Callers
  BY Fields DEF TypeOK
<1>1. worker' = [worker EXCEPT ![w] = r]  BY ReserveWrites, ZenonT(120)
<1>2. /\ r.st = worker[w].st /\ r.pool = worker[w].pool
      /\ r.sess = worker[w].sess \cup {c} /\ r.total = worker[w].total + 1
  BY <1>0 DEF WorkerState
<1> HIDE DEF r
<1>3. worker'[w] = r /\ \A v \in Workers : v # w => worker'[v] = worker[v]  BY <1>0, <1>1
<1>4. OwnersKept  BY <1>2, <1>3, ZenonT(120) DEF OwnersKept
<1>5. \A v \in Workers : c \notin worker[v].sess  BY ZenonT(120) DEF SessionLimits
<1>6. SessionsFinite'
  <2>1. IsFiniteSet(worker[w].sess)  BY ZenonT(120) DEF SessionsFinite
  <2>2. IsFiniteSet(worker[w].sess \cup {c})  BY <2>1, FS_AddElement, ZenonT(120)
  <2>3. IsFiniteSet(r.sess)  BY <1>2, <2>2, ZenonT(120)
  <2> QED  BY <1>3, <2>1, <2>3, ZenonT(120) DEF SessionsFinite
<1>7. /\ caller'[c].got = w /\ caller'[c].pc = "open"
      /\ \A d \in Callers : d # c => caller'[d] = caller[d]
  <2>1. caller' = [caller EXCEPT ![c] = [caller[c] EXCEPT !.pc = "open", !.done = FALSE]]
    BY ZenonT(120) DEF Reserve
  <2>2. /\ [caller[c] EXCEPT !.pc = "open", !.done = FALSE].got = w
        /\ [caller[c] EXCEPT !.pc = "open", !.done = FALSE].pc = "open"
    BY <1>0 DEF CallerState
  <2> QED  BY <1>0, <2>1, <2>2, ZenonT(120)
<1>8. \A v \in Workers : worker'[v].total <= MaxUses
  <2>1. worker[w].total < MaxUses  BY ZenonT(120) DEF HasCapacity
  <2>2. worker'[w].total <= MaxUses  BY <1>0, <1>2, <1>3, <2>1, PoolAssumption
  <2> QED  BY <1>3, <2>2, ZenonT(120) DEF SessionLimits
<1>9. ASSUME NEW v \in Workers, NEW d \in worker'[v].sess
      PROVE  caller'[d].got = v /\ caller'[d].pc \in {"open", "use"}
  <2>1. CASE v = w /\ d = c  BY <1>7, <2>1, ZenonT(120)
  <2>2. CASE ~(v = w /\ d = c)
    <3>1. d \in worker[v].sess  BY <1>2, <1>3, <1>9, <2>2, ZenonT(120)
    <3>2. d \in Callers /\ d # c  BY <1>0, <1>5, <3>1
    <3>3. caller[d].got = v /\ caller[d].pc \in {"open", "use"}  BY <3>1, ZenonT(120) DEF SessionLimits
    <3> QED  BY <1>7, <3>2, <3>3, ZenonT(120)
  <2> QED  BY <2>1, <2>2, ZenonT(120)
<1>10. ASSUME NEW v \in Workers, NEW d \in worker'[v].sess PROVE Active(v, d)' <= Hard(d)
  <2> DEFINE new == {e \in worker'[v].sess : Packet[e] = Packet[d]}
             old == {e \in worker[v].sess : Packet[e] = Packet[d]}
  <2>0. Active(v, d)' = Cardinality(new) /\ Active(v, d) = Cardinality(old)  BY DEF Active
  <2>1. ASSUME d \in worker[v].sess, new = old PROVE Active(v, d)' <= Hard(d)
    <3>1. Active(v, d) <= Hard(d)  BY <2>1, ZenonT(120) DEF SessionLimits
    <3> QED  BY <2>0, <2>1, <3>1, ZenonT(120)
  <2>2. CASE v # w
    <3>1. worker'[v] = worker[v]  BY <1>3, <2>2, ZenonT(120)
    <3> QED  BY <1>10, <2>1, <3>1, ZenonT(120)
  <2>3. CASE v = w /\ Packet[d] = Packet[c]
    <3>1. worker'[v].sess = worker[w].sess \cup {c}  BY <1>2, <1>3, <2>3, ZenonT(120)
    <3>2. new = room \cup {c}  BY <2>3, <3>1, ZenonT(120)
    <3>3. IsFiniteSet(room) /\ Cardinality(room) \in Nat /\ Cardinality(room) < limit
      <4>1. Active(w, c) = Cardinality(room)  BY DEF Active
      <4>2. Active(w, c) < limit  BY ZenonT(120) DEF HasCapacity
      <4>3. IsFiniteSet(room) /\ Active(w, c) \in Nat  BY ActiveType, ZenonT(120)
      <4> QED  BY <4>1, <4>2, <4>3, ZenonT(120)
    <3>4. c \notin room  BY <1>5, ZenonT(120)
    <3> HIDE DEF room, new, old
    <3>5. Cardinality(room \cup {c}) = Cardinality(room) + 1  BY <3>3, <3>4, FS_AddElement, ZenonT(120)
    <3>6. Hard(d) = Hard(c)  BY <2>3, ZenonT(120) DEF Hard, Soft
    <3>7. Cardinality(room) + 1 <= Hard(c)
      <4>1. Hard(c) \in Nat  BY HardType
      <4> QED  BY <3>3, <4>1
    <3> QED  BY <2>0, <3>2, <3>5, <3>6, <3>7, ZenonT(120)
  <2>4. CASE v = w /\ Packet[d] # Packet[c]
    <3>1. worker'[v].sess = worker[v].sess \cup {c}  BY <1>2, <1>3, <2>4, ZenonT(120)
    <3>2. d \in worker[v].sess  BY <1>10, <2>4, <3>1
    <3>3. new = old  BY <2>4, <3>1, ZenonT(120)
    <3> QED  BY <2>1, <3>2, <3>3, ZenonT(120)
  <2> QED  BY <2>2, <2>3, <2>4, ZenonT(120)
<1>11. \A d : Hard(d)' = Hard(d)  BY DEF Hard, Soft
<1>12. SessionLimits'  BY <1>8, <1>9, <1>10, <1>11, ZenonT(120) DEF SessionLimits
<1> QED  BY <1>4, <1>6, <1>12, ZenonT(120)

\* worker.reserve, with and without room.
LEMMA ReserveKeeps ==
  ASSUME TypeOK, SessionsFinite, SessionLimits, NEW c \in Callers, NEW limit \in Nat, NEW none,
         limit <= Hard(c), caller[c].pc \notin {"open", "use"}, Reserve(c, limit, none)
  PROVE  OwnersKept /\ SessionsFinite' /\ SessionLimits'
<1> DEFINE w == caller[c].got
<1>1. CASE HasCapacity(w, c, limit) /\ w \in Workers  BY <1>1, ReserveTakes, ZenonT(120)
<1>2. CASE ~(HasCapacity(w, c, limit) /\ w \in Workers)
  <2>1. \A d \in Callers : d # c => caller'[d] = caller[d]  BY DEF Reserve, TypeOK
  <2>2. UsersStay  BY <2>1, ZenonT(120) DEF UsersStay
  <2>3. \A v \in Workers : worker'[v] = worker[v]
    <3>1. CASE ~HasCapacity(w, c, limit)  BY <3>1, ZenonT(120) DEF Reserve
    <3>2. CASE HasCapacity(w, c, limit)
      <4>1. w \notin Workers  BY <1>2, <3>2, ZenonT(120)
      <4>2. PICK r : worker' = [worker EXCEPT ![w] = r]  BY <3>2, ReserveWrites, ZenonT(120)
      <4> QED  BY <4>1, <4>2 DEF TypeOK
    <3> QED  BY <3>1, <3>2, ZenonT(120)
  <2>4. OwnersKept  BY <2>3, ZenonT(120) DEF OwnersKept
  <2>5. SessionsShrink
    <3>1. \A v \in Workers : worker'[v].sess = worker[v].sess /\ worker'[v].total = worker[v].total
      BY <2>3, ZenonT(120)
    <3> QED  BY <3>1, ZenonT(120) DEF SessionsShrink
  <2> QED  BY <2>2, <2>4, <2>5, StayersKnown, ShrinkKeeps, ZenonT(120)
<1> QED  BY <1>1, <1>2, ZenonT(120)

\* The three places of dialSession that reserve.
LEMMA ReserveSteps ==
  ASSUME TypeOK, SessionsFinite, SessionLimits, NEW c \in Callers,
         ReserveSoft(c) \/ ReserveHard(c) \/ ReserveDialed(c)
  PROVE  OwnersKept /\ SessionsFinite' /\ SessionLimits'
<1>1. /\ Soft(c) \in Nat /\ Soft(c) <= Hard(c)
      /\ Hard(c) \in Nat /\ Hard(c) <= Hard(c)
  <2>1. Hard(c) \in Nat  BY HardType
  <2> QED  BY <2>1, SoftInHard
<1>2. caller[c].pc \notin {"open", "use"}
  BY DEF ReserveSoft, ReserveHard, ReserveDialed, ReservePicked, At
<1>3. \/ \E none : Reserve(c, Soft(c), none)
      \/ \E none : Reserve(c, Hard(c), none)
  BY ZenonT(120) DEF ReserveSoft, ReserveHard, ReserveDialed, ReservePicked
<1> QED  BY <1>1, <1>2, <1>3, ReserveKeeps, ZenonT(120)

-----------------------------------------------------------------------------
(* The steps of the two kinds that are not covered above                     *)

\* A dial starts: its worker is not live yet, and it belongs to the dialler.
LEMMA DialStartsPublished ==
  ASSUME TypeOK, DialsOwned, Published, NEW c \in Callers, NEW w \in Workers, AttemptDial(c, w)
  PROVE  Published' /\ SessionsShrink
<1> DEFINE p == PoolOf[c]
<1>0. /\ p \in Pools
      /\ caller \in [Callers -> CallerState] /\ caller[c] \in CallerState
      /\ worker \in [Workers -> WorkerState]
  BY PoolAssumption DEF TypeOK
<1>1. /\ worker[w].st \in {"unused", "released"}
      /\ \A d \in Callers : caller[d].got # w
  BY DEF AttemptDial, Fresh
<1>2. PICK k, b : worker' = [worker EXCEPT ![w] =
              [NoWorker EXCEPT !.st = "dialing", !.pool = p, !.key = k, !.born = b]]
  BY ZenonT(120) DEF AttemptDial
<1> DEFINE r == [NoWorker EXCEPT !.st = "dialing", !.pool = p, !.key = k, !.born = b]
<1>3. worker' = [worker EXCEPT ![w] = r]  BY <1>2
<1>4. r.st = "dialing" /\ r.pool = p /\ r.sess = {} /\ r.total = 0  BY DEF NoWorker
<1> HIDE DEF r
<1>5. worker'[w] = r /\ \A v \in Workers : v # w => worker'[v] = worker[v]  BY <1>0, <1>3
<1>6. SessionsShrink
  <2>1. \A v \in Workers : v # w =>
           worker'[v].sess = worker[v].sess /\ worker'[v].total = worker[v].total
    BY <1>5, ZenonT(120)
  <2>2. worker'[w].sess \subseteq worker[w].sess /\ worker'[w].total = 0  BY <1>4, <1>5
  <2> QED  BY <2>1, <2>2, ZenonT(120) DEF SessionsShrink
<1>7. ListsKept  BY ListsInDials, ZenonT(120)
<1>8. ASSUME NEW v \in Workers, worker'[v].st = "live"
      PROVE  /\ worker'[v].pool \in Pools
             /\ ~pool'[worker'[v].pool].closed => v \in pool'[worker'[v].pool].workers
             /\ pool'[worker'[v].pool].closed => v \in pool'[worker'[v].pool].closing
  <2> DEFINE q == worker[v].pool
  <2>1. v # w  BY <1>4, <1>5, <1>8
  <2>2. worker[v].st = "live" /\ worker'[v].pool = q  BY <1>5, <1>8, <2>1, ZenonT(120)
  <2>3. /\ q \in Pools
        /\ ~pool[q].closed => v \in pool[q].workers
        /\ pool[q].closed => v \in pool[q].closing
    BY <2>2, ZenonT(120) DEF Published
  <2> HIDE DEF q
  <2>4. /\ pool'[q].closed = pool[q].closed
        /\ Pruned(q) \subseteq pool'[q].workers
        /\ v \in pool[q].closing => v \in pool'[q].closing
    BY <1>7, <2>2, <2>3, ZenonT(120) DEF ListsKept
  <2>5. v \in pool[q].workers => v \in Pruned(q)  BY <2>2, ZenonT(120) DEF Pruned
  <2> QED  BY <2>2, <2>3, <2>4, <2>5, ZenonT(120)
<1>9. ASSUME NEW d \in Callers, caller'[d].pc = "dial"
      PROVE  worker'[caller'[d].got].pool = PoolOf[d]
  <2>1. CASE d = c
    <3>1. caller'[c].got = w  BY <1>0 DEF AttemptDial, CallerState
    <3> QED  BY <1>4, <1>5, <2>1, <3>1, ZenonT(120)
  <2>2. CASE d # c
    <3>1. caller'[d] = caller[d]  BY <1>0, <2>2 DEF AttemptDial
    <3>2. At(d, "dial") /\ caller[d].got # w  BY <1>1, <1>9, <3>1, ZenonT(120) DEF At
    <3>3. worker[caller[d].got].pool = PoolOf[d]  BY <3>2, ZenonT(120) DEF Published
    <3>4. caller[d].got \in Workers  BY <3>2, ZenonT(120) DEF DialsOwned
    <3>5. worker'[caller[d].got] = worker[caller[d].got]  BY <1>5, <3>2, <3>4, ZenonT(120)
    <3> QED  BY <3>1, <3>3, <3>5, ZenonT(120)
  <2> QED  BY <2>1, <2>2, ZenonT(120)
<1> QED  BY <1>6, <1>8, <1>9, ZenonT(120) DEF Published, At

\* A dial succeeds while its pool is open: the worker is on the pool's list.
LEMMA DialOkPublished ==
  ASSUME TypeOK, DialsOwned, Published, NEW c \in Callers, DialOk(c)
  PROVE  Published' /\ SessionsShrink
<1> DEFINE p == PoolOf[c]
           w == caller[c].got
           r == [worker[w] EXCEPT !.st = "live"]
<1>0. /\ p \in Pools /\ pool \in [Pools -> PoolState] /\ pool[p] \in PoolState
      /\ worker \in [Workers -> WorkerState]
      /\ At(c, "dial") /\ ~pool[p].closed
  BY PoolAssumption DEF TypeOK, DialOk
<1>1. w \in Workers /\ worker[w].st = "dialing" /\ worker[w].pool = p
  BY <1>0, ZenonT(120) DEF DialsOwned, Published
<1>2. worker' = [worker EXCEPT ![w] = r]  BY DEF DialOk
<1>3. /\ r.st = "live" /\ r.pool = worker[w].pool
      /\ r.sess = worker[w].sess /\ r.total = worker[w].total
  BY <1>0, <1>1 DEF WorkerState
<1> HIDE DEF r
<1>4. worker'[w] = r /\ \A v \in Workers : v # w => worker'[v] = worker[v]  BY <1>0, <1>1, <1>2
<1>5. SessionsShrink
  <2>1. \A v \in Workers : worker'[v].sess = worker[v].sess /\ worker'[v].total = worker[v].total
    BY <1>3, <1>4, ZenonT(120)
  <2> QED  BY <2>1, ZenonT(120) DEF SessionsShrink
<1>6. ListsKept  BY ListsInDials, ZenonT(120)
<1>7. w \in pool'[p].workers
  <2> DEFINE ws == pool[p].workers \cup {w}
             s == [pool[p] EXCEPT !.workers = ws, !.dialMu = None, !.flight = Landed(c)]
  <2>1. pool' = [pool EXCEPT ![p] = s]  BY ZenonT(120) DEF DialOk
  <2>2. s.workers = ws  BY <1>0 DEF PoolState
  <2> HIDE DEF s
  <2>3. pool'[p] = s  BY <1>0, <2>1
  <2> QED  BY <2>2, <2>3
<1>8. ASSUME NEW v \in Workers, worker'[v].st = "live"
      PROVE  /\ worker'[v].pool \in Pools
             /\ ~pool'[worker'[v].pool].closed => v \in pool'[worker'[v].pool].workers
             /\ pool'[worker'[v].pool].closed => v \in pool'[worker'[v].pool].closing
  <2>1. CASE v = w
    <3>1. worker'[v].pool = p  BY <1>1, <1>3, <1>4, <2>1, ZenonT(120)
    <3>2. ~pool'[p].closed  BY <1>0, <1>6, ZenonT(120) DEF ListsKept
    <3> QED  BY <1>0, <1>7, <2>1, <3>1, <3>2, ZenonT(120)
  <2>2. CASE v # w
    <3> DEFINE q == worker[v].pool
    <3>1. worker[v].st = "live" /\ worker'[v].pool = q  BY <1>4, <1>8, <2>2, ZenonT(120)
    <3>2. /\ q \in Pools
          /\ ~pool[q].closed => v \in pool[q].workers
          /\ pool[q].closed => v \in pool[q].closing
      BY <3>1, ZenonT(120) DEF Published
    <3> HIDE DEF q
    <3>3. /\ pool'[q].closed = pool[q].closed
          /\ Pruned(q) \subseteq pool'[q].workers
          /\ v \in pool[q].closing => v \in pool'[q].closing
      BY <1>6, <3>1, <3>2, ZenonT(120) DEF ListsKept
    <3>4. v \in pool[q].workers => v \in Pruned(q)  BY <3>1, ZenonT(120) DEF Pruned
    <3> QED  BY <3>1, <3>2, <3>3, <3>4, ZenonT(120)
  <2> QED  BY <2>1, <2>2, ZenonT(120)
<1>9. ASSUME NEW d \in Callers, caller'[d].pc = "dial"
      PROVE  worker'[caller'[d].got].pool = PoolOf[d]
  <2>1. PICK next \in {"resGrow", "resFlight"} : Return(c, next, w)  BY DEF DialOk
  <2>2. c \in Flown(c)  BY ZenonT(120) DEF Flown
  <2>3. next # "dial"  BY <2>1
  <2>4. d \notin Flown(c) /\ caller'[d] = caller[d]  BY <1>9, <2>1, <2>3, ZenonT(120) DEF Return
  <2>5. At(d, "dial") /\ d # c  BY <1>9, <2>2, <2>4, ZenonT(120) DEF At
  <2>6. caller[d].got \in Workers /\ caller[d].got # w /\ worker[caller[d].got].pool = PoolOf[d]
    BY <1>0, <2>5, ZenonT(120) DEF DialsOwned, Published
  <2> QED  BY <1>4, <2>4, <2>6, ZenonT(120)
<1> QED  BY <1>5, <1>8, <1>9, ZenonT(120) DEF Published, At

\* Pool.Close: what was on the list is now on the copy.
LEMMA CloseMovesList ==
  ASSUME TypeOK, Published, NEW p \in Pools, ClosePool(p)
  PROVE  Published'
<1>0. pool \in [Pools -> PoolState] /\ pool[p] \in PoolState /\ ~pool[p].closed /\ worker' = worker
  BY DEF TypeOK, ClosePool
<1> DEFINE r == [pool[p] EXCEPT !.closed = TRUE, !.closing = pool[p].workers, !.workers = {}]
<1>1. pool' = [pool EXCEPT ![p] = r]  BY ZenonT(120) DEF ClosePool
<1>2. r.closed = TRUE /\ r.closing = pool[p].workers  BY <1>0 DEF PoolState
<1> HIDE DEF r
<1>3. pool'[p] = r /\ \A q \in Pools : q # p => pool'[q] = pool[q]  BY <1>0, <1>1
<1>4. ASSUME NEW w \in Workers, worker'[w].st = "live"
      PROVE  /\ worker'[w].pool \in Pools
             /\ ~pool'[worker'[w].pool].closed => w \in pool'[worker'[w].pool].workers
             /\ pool'[worker'[w].pool].closed => w \in pool'[worker'[w].pool].closing
  <2> DEFINE q == worker[w].pool
  <2>1. worker[w].st = "live" /\ worker'[w].pool = q  BY <1>0, <1>4, ZenonT(120)
  <2>2. /\ q \in Pools
        /\ ~pool[q].closed => w \in pool[q].workers
        /\ pool[q].closed => w \in pool[q].closing
    BY <2>1, ZenonT(120) DEF Published
  <2> HIDE DEF q
  <2> QED  BY <1>0, <1>2, <1>3, <2>1, <2>2, ZenonT(120)
<1>5. ASSUME NEW c \in Callers, caller'[c].pc = "dial"
      PROVE  worker'[caller'[c].got].pool = PoolOf[c]
  <2>1. caller' = Woken(p)  BY ZenonT(120) DEF ClosePool
  <2>2. caller[c].pc = "dial" /\ caller'[c].got = caller[c].got  BY <1>5, <2>1, QuietWoken, ZenonT(120)
  <2> QED  BY <1>0, <2>2, ZenonT(120) DEF Published, At
<1> QED  BY <1>4, <1>5, ZenonT(120) DEF Published, At

-----------------------------------------------------------------------------
(* The theorems *)

\* At the start there is no carrier and no session.
LEMMA CarrierInit == Init => CarrierInv
<1> SUFFICES ASSUME Init PROVE CarrierInv
  OBVIOUS
<1>1. \A w \in Workers : worker[w] = NoWorker  BY DEF Init
<1>2. NoWorker.st = "unused" /\ NoWorker.sess = {} /\ NoWorker.total = 0  BY DEF NoWorker
<1>3. \A c \in Callers : ~At(c, "dial")  BY DEF Init, AtRest, At
<1>4. Published  BY <1>1, <1>2, <1>3 DEF Published
<1>5. SessionsFinite  BY <1>1, <1>2, FS_EmptySet, ZenonT(120) DEF SessionsFinite
<1>6. SessionLimits  BY <1>1, <1>2, PoolAssumption DEF SessionLimits
<1> QED  BY <1>4, <1>5, <1>6, InvInit, ZenonT(120) DEF CarrierInv

\* A step that leaves the callers alone, or only signals them, takes no session.
LEMMA StaySignalled ==
  ASSUME caller' = caller \/ \E p : caller' = Woken(p)
  PROVE  UsersStay
<1>1. CASE caller' = caller  BY <1>1, ZenonT(120) DEF UsersStay
<1>2. CASE \E p : caller' = Woken(p)
  <2>1. PICK p : caller' = Woken(p)  BY <1>2
  <2>2. \A c \in Callers : caller[c].pc \in {"open", "use"} => caller'[c] = caller[c]
    BY <2>1, StayWoken, ZenonT(120)
  <2> QED  BY <2>2, ZenonT(120) DEF UsersStay
<1> QED  BY <1>1, <1>2

\* Every step keeps the invariant.
LEMMA CarrierStep == CarrierInv /\ [Next]_vars => CarrierInv'
<1> SUFFICES ASSUME CarrierInv, [Next]_vars PROVE CarrierInv'
  OBVIOUS
<1> DEFINE Limits == SessionsFinite' /\ SessionLimits'
           Rest == Published' /\ Limits
<1>0. /\ TypeOK /\ DialsOwned /\ PoolInv /\ Published /\ SessionsFinite /\ SessionLimits
      /\ PoolInv' /\ DialsOwned'
  <2>1. PoolInv'  BY InvStep DEF CarrierInv
  <2> QED  BY <2>1 DEF CarrierInv, PoolInv
<1>1. QuietCallers /\ OwnersKept /\ ListsKept => Published'  BY <1>0, PublishedKept, ZenonT(120)
<1>2. SessionsShrink /\ HoldersKnown => Limits  BY <1>0, ShrinkKeeps, ZenonT(120)
<1>3. SessionsShrink /\ UsersStay => HoldersKnown  BY <1>0, StayersKnown, ZenonT(120)
<1> HIDE DEF Limits
<1>4. QuietCallers /\ OwnersKept /\ SessionsShrink /\ ListsKept /\ UsersStay => Rest
  BY <1>1, <1>2, <1>3, ZenonT(120)
<1>5. ASSUME NEW c \in Callers,
             Start(c) \/ Cancel(c) \/ DialStep(c) \/ DialEnds(c) \/ SessionStep(c) \/ OpenFails(c)
      PROVE  Rest
  <2>1. CASE \E w \in Workers : AttemptDial(c, w)
    BY <1>0, <1>2, <1>3, <2>1, DialStartsPublished, UsersInDials, ZenonT(120)
  <2>2. CASE DialOk(c)
    BY <1>0, <1>2, <1>3, <2>2, DialOkPublished, UsersInDials, ZenonT(120)
  <2>3. CASE DialLate(c) \/ DialFail(c)
    <3>1. QuietCallers
      <4>1. CASE DialLate(c)
        <5>1. "abort" # "dial"  OBVIOUS
        <5> QED  BY <1>0, <4>1, <5>1, QuietGoto, ZenonT(120) DEF DialLate
      <4>2. CASE DialFail(c)
        <5>1. caller' = [caller EXCEPT ![c] = [caller[c] EXCEPT !.pc = "failed", !.got = None]]
          BY <4>2, ZenonT(120) DEF DialFail
        <5>2. [caller[c] EXCEPT !.pc = "failed", !.got = None].pc # "dial"
          BY <1>0, Fields DEF CallerState
        <5> QED  BY <1>0, <5>1, <5>2, ZenonT(120) DEF QuietCallers, TypeOK
      <4> QED  BY <2>3, <4>1, <4>2
    <3>2. OwnersKept /\ SessionsShrink  BY <1>0, <2>3, CarriersElsewhere, ZenonT(120)
    <3>3. ListsKept  BY <2>3, SamePools, ZenonT(120) DEF DialLate, DialFail
    <3>4. UsersStay  BY <1>0, <2>3, UsersInDials, ZenonT(120)
    <3> QED  BY <1>4, <3>1, <3>2, <3>3, <3>4, ZenonT(120)
  <2>4. CASE \/ AttemptClosed(c) \/ AttemptReuse(c) \/ AttemptRefused(c)
             \/ AbortReturn(c) \/ FailReturn(c)
    <3>1. worker' = worker
      BY <2>4, ZenonT(120) DEF AttemptClosed, AttemptReuse, AttemptRefused, AbortReturn, FailReturn
    <3>2. QuietCallers  BY <1>0, <2>4, QuietAttempts, ZenonT(120)
    <3>3. ListsKept  BY <1>0, <2>4, ListsInDials, ZenonT(120)
    <3>4. UsersStay  BY <1>0, <2>4, UsersInDials, ZenonT(120)
    <3> QED  BY <1>4, <3>1, <3>2, <3>3, <3>4, SameCarriers, ZenonT(120)
  <2>5. CASE SessionStep(c) \/ OpenFails(c)
    <3>1. QuietCallers  BY <1>0, <2>5, QuietSessions, ZenonT(120) DEF SessionStep
    <3>2. pool' = pool
      BY <2>5, ZenonT(120) DEF SessionStep, OpenSession, OpenFails, AbandonSession, RemoveSession,
                         AlreadyFinished, SignalFree, SignalRetire, CloseReturns
    <3>3. OwnersKept /\ SessionsShrink
      <4>1. CASE OpenSession(c) \/ AlreadyFinished(c) \/ CloseReturns(c)
        BY <4>1, SameCarriers, ZenonT(120) DEF OpenSession, AlreadyFinished, CloseReturns
      <4>2. CASE \/ OpenFails(c) \/ AbandonSession(c) \/ RemoveSession(c)
                 \/ SignalFree(c) \/ SignalRetire(c)
        BY <1>0, <4>2, CarriersInSessions, ZenonT(120)
      <4> QED  BY <2>5, <4>1, <4>2, ZenonT(120) DEF SessionStep
    <3>4. HoldersKnown  BY <1>0, <2>5, <3>3, HoldersInSessions, ZenonT(120) DEF SessionStep
    <3> QED  BY <1>1, <1>2, <3>1, <3>2, <3>3, <3>4, SamePools, ZenonT(120)
  <2>6. CASE \/ Start(c) \/ Cancel(c) \/ LoopCancelled(c) \/ WantGrow(c)
             \/ TrySoft(c) \/ TryHard(c) \/ JoinFlight(c) \/ WaitForSlot(c) \/ CancelWakes(c)
    <3>1. worker' = worker
      BY <2>6, ZenonT(120) DEF Start, Cancel, LoopCancelled, WantGrow, TrySoft, TryHard, Pick,
                         JoinFlight, WaitForSlot, CancelWakes
    <3>2. QuietCallers  BY <1>0, <2>6, QuietDialSession, ZenonT(120)
    <3>3. ListsKept
      <4>1. CASE Start(c) \/ Cancel(c) \/ LoopCancelled(c) \/ CancelWakes(c)
        BY <4>1, SamePools, ZenonT(120) DEF Start, Cancel, LoopCancelled, CancelWakes
      <4> QED  BY <1>0, <2>6, <4>1, ListsInDialSession, ZenonT(120)
    <3>4. UsersStay  BY <1>0, <2>6, UsersInDialSession, ZenonT(120)
    <3> QED  BY <1>4, <3>1, <3>2, <3>3, <3>4, SameCarriers, ZenonT(120)
  <2>7. CASE ReserveSoft(c) \/ ReserveHard(c) \/ ReserveDialed(c)
    <3>1. QuietCallers  BY <1>0, <2>7, QuietDialSession, ZenonT(120)
    <3>2. OwnersKept /\ Limits  BY <1>0, <2>7, ReserveSteps, ZenonT(120) DEF Limits
    <3>3. ListsKept
      BY <1>0, <2>7, ListsInDialSession, SamePools, ZenonT(120) DEF ReserveDialed
    <3> QED  BY <1>1, <3>1, <3>2, <3>3, ZenonT(120)
  <2> QED  BY <1>5, <2>1, <2>2, <2>3, <2>4, <2>5, <2>6, <2>7, ZenonT(120) DEF DialStep, DialEnds
<1>6. ASSUME NEW w \in Workers, CarrierFails(w) \/ IdleFires(w) \/ CloseWorkerStep(w)
      PROVE  Rest
  <2>1. pool' = pool /\ (caller' = caller \/ \E p : caller' = Woken(p))
    BY <1>6, ZenonT(120) DEF CarrierFails, IdleFires, CloseWorkerStep, CloseDoomed, BeginClose,
                       ReleasePermit, SignalReleased, FinishSnapped
  <2>2. QuietCallers  BY <1>0, <2>1, QuietWoken, ZenonT(120) DEF QuietCallers
  <2>3. OwnersKept /\ SessionsShrink  BY <1>0, <1>6, CarriersInCloses, ZenonT(120) DEF CloseWorkerStep
  <2> QED  BY <1>4, <2>1, <2>2, <2>3, SamePools, StaySignalled, ZenonT(120)
<1>7. ASSUME NEW p \in Pools, ClosePool(p) PROVE Rest
  <2>1. Published'  BY <1>0, <1>7, CloseMovesList, ZenonT(120)
  <2>2. worker' = worker /\ caller' = Woken(p)  BY <1>7, ZenonT(120) DEF ClosePool
  <2> QED  BY <1>2, <1>3, <2>1, <2>2, SameCarriers, StaySignalled, ZenonT(120)
<1>8. ASSUME (\E p \in Pools : CloseNext(p) \/ CloseStep(p)) \/ Tick PROVE Rest
  <2>1. QuietCallers  BY <1>0, <1>8, QuietPools, ZenonT(120)
  <2>2. ListsKept  BY <1>0, <1>8, ListsInClose, ZenonT(120)
  <2>3. caller' = caller  BY <1>8, ZenonT(120) DEF CloseNext, CloseStep, Tick
  <2>4. OwnersKept /\ SessionsShrink
    <3>1. CASE \E p \in Pools : CloseStep(p)  BY <3>1, SameCarriers, ZenonT(120) DEF CloseStep
    <3> QED  BY <1>0, <1>8, <3>1, CarriersElsewhere, ZenonT(120)
  <2> QED  BY <1>4, <2>1, <2>2, <2>3, <2>4, StaySignalled, ZenonT(120)
<1>9. ASSUME UNCHANGED vars PROVE Rest
  <2>1. pool' = pool /\ worker' = worker /\ caller' = caller  BY <1>9 DEF vars
  <2>2. QuietCallers  BY <2>1, ZenonT(120) DEF QuietCallers
  <2> QED  BY <1>4, <2>1, <2>2, SamePools, SameCarriers, StaySignalled, ZenonT(120)
<1>10. Rest  BY <1>5, <1>6, <1>7, <1>8, <1>9, ZenonT(120) DEF Next
<1> QED  BY <1>0, <1>10 DEF CarrierInv, Limits

\* Every reachable state satisfies the invariant.
THEOREM CarrierInvariant == Spec => []CarrierInv
BY CarrierInit, CarrierStep, PTL DEF Spec

\* Pool.Close misses no carrier: every live worker of a closed pool is on the
\* copy of the list that Close goes through, even if its dial was in flight.
THEOREM NoCarrierAfterCloseHolds == Spec => []NoCarrierAfterClose
<1>1. CarrierInv => NoCarrierAfterClose  BY DEF CarrierInv, Published, NoCarrierAfterClose
<1> QED  BY <1>1, CarrierInvariant, PTL

\* A worker keeps the hard limit of each kind of session and MaxUses, and each
\* of its sessions has a caller, although tryReserve chooses the worker and
\* reserve takes the slot in different critical sections.
THEOREM SessionLimitsHold == Spec => []SessionLimits
<1>1. CarrierInv => SessionLimits  BY DEF CarrierInv
<1> QED  BY <1>1, CarrierInvariant, PTL
=============================================================================
