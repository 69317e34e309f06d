--------------------------- MODULE XrayPoolProofs ---------------------------
(***************************************************************************)
(* Proofs about XrayPool, for every set of callers, pools and endpoints,   *)
(* every finite set of workers and every configuration of the limits.      *)
(***************************************************************************)
EXTENDS XrayPool, FiniteSetTheorems, WellFoundedInduction, TLAPS

\* A leaf that names no prover is for SMT. The limit is generous: most leaves
\* take well under a second of it.
USE SMTT(120)

\* A caller inside p.dial has a worker of its own that is still being dialled.
DialsOwned ==
    /\ \A c \in Callers : At(c, "dial") =>
          caller[c].got \in Workers /\ worker[caller[c].got].st = "dialing"
    /\ \A c, d \in Callers : At(c, "dial") /\ At(d, "dial") /\ c # d =>
          caller[c].got # caller[d].got

\* The inductive invariant.
PoolInv == TypeOK /\ DialsOwned /\ PermitsExact /\ CarrierLimit

-----------------------------------------------------------------------------
(* Type correctness *)

\* The helpers of the model return values of the right type.
LEMMA PutTypes ==
  ASSUME TypeOK
  PROVE  /\ \A w, r : (w \in Workers => r \in WorkerState)
                => [worker EXCEPT ![w] = r] \in [Workers -> WorkerState]
         /\ \A c, r : (c \in Callers => r \in CallerState)
                => [caller EXCEPT ![c] = r] \in [Callers -> CallerState]
         /\ \A p, r : (p \in Pools => r \in PoolState)
                => [pool EXCEPT ![p] = r] \in [Pools -> PoolState]
BY ZenonT(120) DEF TypeOK

\* Moving a caller to another place of dialSession keeps its type.
LEMMA PlaceType ==
  ASSUME NEW r \in CallerState, NEW next \in Places
  PROVE  [r EXCEPT !.pc = next] \in CallerState
BY ZenonT(120) DEF CallerState

\* Goto keeps the type of the callers.
LEMMA GotoType ==
  ASSUME TypeOK, NEW c \in Callers, NEW next \in Places, Goto(c, next)
  PROVE  caller' \in [Callers -> CallerState]
BY PlaceType DEF TypeOK, Goto

\* A goroutine outside dialSession is a well-typed caller.
LEMMA AtRestType == AtRest \in CallerState
BY DEF AtRest, CallerState, Places

\* A return from dialSession keeps the type of the callers.
LEMMA LeaveType ==
  ASSUME TypeOK, NEW c \in Callers, Leave(c)
  PROVE  caller' \in [Callers -> CallerState]
BY AtRestType DEF TypeOK, Leave

\* signalFree keeps the type of the callers it wakes.
LEMMA WokenType ==
  ASSUME TypeOK, NEW p PROVE Woken(p) \in [Callers -> CallerState]
<1>1. ASSUME NEW c \in Callers PROVE [caller[c] EXCEPT !.pc = "wait"] \in CallerState
  BY PlaceType, ZenonT(120) DEF TypeOK, Places
<1> QED  BY <1>1 DEF TypeOK, Woken

\* The result of a dial, given to its caller and the followers of its flight,
\* keeps the callers' type.
LEMMA ReturnType ==
  ASSUME TypeOK, NEW c \in Callers, NEW next \in Places, NEW w \in Workers \cup {None},
         Return(c, next, w)
  PROVE  caller' \in [Callers -> CallerState]
<1>1. ASSUME NEW d \in Callers
      PROVE  [pc |-> next, got |-> w, key |-> None, done |-> caller[d].done /\ next # "idle"]
                \in CallerState
  BY DEF CallerState
<1> QED  BY <1>1 DEF TypeOK, Return

\* The end of a singleflight call leaves a well-typed dialGroup.
LEMMA LandedType ==
  ASSUME TypeOK, NEW c \in Callers PROVE Landed(c) \in [Keys -> Callers \cup {None}]
BY PoolAssumption DEF TypeOK, PoolState, Landed

\* pruneLocked leaves workers.
LEMMA PrunedType ==
  ASSUME TypeOK, NEW p \in Pools PROVE Pruned(p) \in SUBSET Workers
BY DEF TypeOK, PoolState, Pruned

\* An unused slot is a well-typed worker.
LEMMA NoWorkerType == NoWorker \in WorkerState
BY PoolAssumption DEF NoWorker, WorkerState

\* release leaves a count a natural number.
LEMMA ReleaseType ==
  ASSUME TypeOK, NEW w, Release(w) PROVE permits' \in [Keys -> Nat]
<1> DEFINE k == worker[w].key
           n == IF permits[k] <= 1 THEN 0 ELSE permits[k] - 1
<1>1. permits' = IF k = None THEN permits ELSE [permits EXCEPT ![k] = n]
  BY DEF Release
<1>2. k \in Keys => n \in Nat
  BY DEF TypeOK
<1> HIDE DEF k, n
<1> QED  BY <1>1, <1>2, ZenonT(120) DEF TypeOK

\* recordDialLocked leaves counts of dials.
LEMMA RecordDialType ==
  ASSUME NEW times \in [Ages -> Nat] PROVE RecordDial(times) \in [Ages -> Nat]
<1>1. 0 \in Ages  BY PoolAssumption DEF Ages
<1>2. times[0] + 1 \in Nat  BY <1>1
<1> QED  BY <1>1, <1>2 DEF RecordDial

\* A nonempty set of ages has a least element, so dialTimes[:n-1] is defined.
LEMMA MinAge ==
  ASSUME NEW S \in SUBSET Ages, S # {} PROVE Min(S) \in S
<1> DEFINE R == OpToRel(<, Nat)
<1>1. S \subseteq Nat  BY PoolAssumption DEF Ages
<1>2. IsWellFoundedOn(R, Nat)  BY NatLessThanWellFounded, ZenonT(120)
<1>3. \A x, y \in Nat : ~(<<y, x>> \in R) => x <= y  BY DEF OpToRel
<1> HIDE DEF R
<1>4. PICK x \in S : \A y \in S : ~(<<y, x>> \in R)  BY <1>1, <1>2, WFMin, ZenonT(120)
<1>5. \A y \in S : x <= y  BY <1>1, <1>3, <1>4, ZenonT(120)
<1> QED  BY <1>5 DEF Min

\* Removing the last dial leaves natural counts: the entry removed exists.
LEMMA DropLastDialType ==
  ASSUME NEW times \in [Ages -> Nat] PROVE DropLastDial(times) \in [Ages -> Nat]
<1> DEFINE ages == {a \in Ages : times[a] > 0}
           m == Min(ages)
<1>1. CASE ages = {}
  BY <1>1 DEF DropLastDial
<1>2. CASE ages # {}
  <2>1. m \in ages  BY <1>2, MinAge
  <2>2. m \in Ages /\ times[m] - 1 \in Nat  BY <2>1
  <2>3. DropLastDial(times) = [times EXCEPT ![m] = times[m] - 1]  BY <1>2 DEF DropLastDial
  <2> QED  BY <2>2, <2>3
<1> QED  BY <1>1, <1>2

\* The fields of the records, and what PoolOf returns.
LEMMA Fields ==
  ASSUME TypeOK
  PROVE  /\ \A c \in Callers : PoolOf[c] \in Pools /\ caller[c] \in CallerState
                               /\ caller[c].got \in Workers \cup {None}
         /\ \A p \in Pools : /\ pool[p] \in PoolState
                             /\ pool[p].workers \in SUBSET Workers
                             /\ pool[p].closing \in SUBSET Workers
                             /\ pool[p].dialTimes \in [Ages -> Nat]
                             /\ pool[p].flight \in [Keys -> Callers \cup {None}]
         /\ \A w \in Workers : /\ worker[w] \in WorkerState
                               /\ worker[w].total \in Nat
                               /\ worker[w].sess \in SUBSET Callers
                               /\ worker[w].snap \in SUBSET Callers
                               /\ worker[w].pool \in Pools \cup {None}
                               /\ worker[w].born \in 0..Window
<1>1. \A c \in Callers : PoolOf[c] \in Pools  BY PoolAssumption
<1>2. \A c \in Callers : caller[c] \in CallerState /\ caller[c].got \in Workers \cup {None}
  BY DEF TypeOK, CallerState
<1>3. \A p \in Pools : /\ pool[p] \in PoolState
                       /\ pool[p].workers \in SUBSET Workers
                       /\ pool[p].closing \in SUBSET Workers
                       /\ pool[p].dialTimes \in [Ages -> Nat]
                       /\ pool[p].flight \in [Keys -> Callers \cup {None}]
  BY DEF TypeOK, PoolState
<1>4. \A w \in Workers : /\ worker[w] \in WorkerState
                         /\ worker[w].total \in Nat
                         /\ worker[w].sess \in SUBSET Callers
                         /\ worker[w].snap \in SUBSET Callers
                         /\ worker[w].pool \in Pools \cup {None}
                         /\ worker[w].born \in 0..Window
  BY DEF TypeOK, WorkerState
<1> QED  BY <1>1, <1>2, <1>3, <1>4

\* Record updates of a pool, one lemma per combination of fields that an action
\* assigns: a proof cites the one it needs and no other.
LEMMA PutPruned ==
  ASSUME NEW r \in PoolState, NEW ws \in SUBSET Workers, NEW m \in Callers \cup {None}
  PROVE  [r EXCEPT !.workers = ws, !.mu = m] \in PoolState
BY ZenonT(120) DEF PoolState

LEMMA PutFlight ==
  ASSUME NEW r \in PoolState, NEW f \in [Keys -> Callers \cup {None}]
  PROVE  [r EXCEPT !.flight = f] \in PoolState
BY DEF PoolState

LEMMA PutLanded ==
  ASSUME NEW r \in PoolState, NEW ws \in SUBSET Workers, NEW f \in [Keys -> Callers \cup {None}]
  PROVE  [r EXCEPT !.workers = ws, !.flight = f] \in PoolState
BY ZenonT(120) DEF PoolState

LEMMA PutDialing ==
  ASSUME NEW r \in PoolState, NEW ws \in SUBSET Workers, NEW m \in Callers \cup {None},
         NEW t \in [Ages -> Nat]
  PROVE  [r EXCEPT !.workers = ws, !.dialMu = m, !.dialTimes = t] \in PoolState
BY ZenonT(120) DEF PoolState

LEMMA PutDialed ==
  ASSUME NEW r \in PoolState, NEW ws \in SUBSET Workers, NEW f \in [Keys -> Callers \cup {None}]
  PROVE  [r EXCEPT !.workers = ws, !.dialMu = None, !.flight = f] \in PoolState
BY ZenonT(120) DEF PoolState

LEMMA PutAborted ==
  ASSUME NEW r \in PoolState, NEW f \in [Keys -> Callers \cup {None}]
  PROVE  [r EXCEPT !.dialMu = None, !.flight = f] \in PoolState
BY ZenonT(120) DEF PoolState

LEMMA PutFailed ==
  ASSUME NEW r \in PoolState, NEW t \in [Ages -> Nat], NEW f \in [Keys -> Callers \cup {None}]
  PROVE  [r EXCEPT !.dialTimes = t, !.dialMu = None, !.flight = f] \in PoolState
BY ZenonT(120) DEF PoolState

LEMMA PutClosed ==
  ASSUME NEW r \in PoolState, NEW ws \in SUBSET Workers
  PROVE  [r EXCEPT !.closed = TRUE, !.closing = ws, !.workers = {}] \in PoolState
BY ZenonT(120) DEF PoolState

LEMMA PutCurrent ==
  ASSUME NEW r \in PoolState, NEW u \in Workers
  PROVE  [r EXCEPT !.current = u] \in PoolState
BY DEF PoolState

LEMMA PutClosing ==
  ASSUME NEW r \in PoolState, NEW ws \in SUBSET Workers
  PROVE  [r EXCEPT !.closing = ws, !.current = None] \in PoolState
BY ZenonT(120) DEF PoolState

LEMMA PutTimes ==
  ASSUME NEW r \in PoolState, NEW t \in [Ages -> Nat]
  PROVE  [r EXCEPT !.dialTimes = t] \in PoolState
BY DEF PoolState

\* The same for workers.
LEMMA WorkerReserved ==
  ASSUME NEW r \in WorkerState, NEW n \in Nat, NEW S \in SUBSET Callers
  PROVE  [r EXCEPT !.total = n, !.sess = S, !.idle = FALSE] \in WorkerState
BY ZenonT(120) DEF WorkerState

LEMMA WorkerMoves ==
  ASSUME NEW r \in WorkerState, NEW st \in {"live", "closing", "freed"}
  PROVE  [r EXCEPT !.st = st] \in WorkerState
BY DEF WorkerState

LEMMA WorkerDials ==
  ASSUME NEW r \in WorkerState, NEW p \in Pools, NEW k \in Keys \cup {None}, NEW a \in 0..Window
  PROVE  [r EXCEPT !.st = "dialing", !.pool = p, !.key = k, !.born = a] \in WorkerState
BY ZenonT(120) DEF WorkerState

LEMMA WorkerReleased ==
  ASSUME NEW r \in WorkerState, NEW p \in Pools \cup {None}, NEW a \in 0..Window
  PROVE  [r EXCEPT !.st = "released", !.born = a, !.pool = p] \in WorkerState
BY ZenonT(120) DEF WorkerState

LEMMA WorkerSess ==
  ASSUME NEW r \in WorkerState, NEW S \in SUBSET Callers
  PROVE  [r EXCEPT !.sess = S] \in WorkerState
BY DEF WorkerState

LEMMA WorkerSnap ==
  ASSUME NEW r \in WorkerState, NEW S \in SUBSET Callers
  PROVE  [r EXCEPT !.snap = S] \in WorkerState
BY DEF WorkerState

LEMMA WorkerDoomed ==
  ASSUME NEW r \in WorkerState, NEW b \in BOOLEAN
  PROVE  [r EXCEPT !.doomed = b] \in WorkerState
BY DEF WorkerState

LEMMA WorkerAges ==
  ASSUME NEW r \in WorkerState, NEW a \in 0..Window
  PROVE  [r EXCEPT !.born = a] \in WorkerState
BY DEF WorkerState

LEMMA WorkerSnapDoomed ==
  ASSUME NEW r \in WorkerState, NEW S \in SUBSET Callers, NEW b \in BOOLEAN
  PROVE  [r EXCEPT !.snap = S, !.doomed = b] \in WorkerState
BY ZenonT(120) DEF WorkerState

LEMMA WorkerSessIdle ==
  ASSUME NEW r \in WorkerState, NEW S \in SUBSET Callers, NEW b \in BOOLEAN
  PROVE  [r EXCEPT !.sess = S, !.idle = b] \in WorkerState
BY ZenonT(120) DEF WorkerState

LEMMA WorkerSnapJam ==
  ASSUME NEW r \in WorkerState, NEW S \in SUBSET Callers, NEW j \in Callers \cup {None}
  PROVE  [r EXCEPT !.snap = S, !.jam = j] \in WorkerState
BY ZenonT(120) DEF WorkerState

LEMMA WorkerExpires ==
  ASSUME NEW r \in WorkerState
  PROVE  [r EXCEPT !.idle = FALSE, !.doomed = TRUE] \in WorkerState
BY ZenonT(120) DEF WorkerState

LEMMA WorkerCloses ==
  ASSUME NEW r \in WorkerState, NEW S \in SUBSET Callers
  PROVE  [r EXCEPT !.st = "closing", !.snap = S, !.sess = {},
                   !.idle = FALSE, !.doomed = FALSE] \in WorkerState
BY ZenonT(120) DEF WorkerState

\* What a successful reserve writes to the worker.
LEMMA ReserveWrites ==
  ASSUME TypeOK, NEW c \in Callers, NEW limit, NEW none, Reserve(c, limit, none),
         HasCapacity(caller[c].got, c, limit)
  PROVE  worker' = [worker EXCEPT ![caller[c].got] =
                       [worker[caller[c].got] EXCEPT !.total = worker[caller[c].got].total + 1,
                            !.sess = worker[caller[c].got].sess \cup {c}, !.idle = FALSE]]
BY Fields, ZenonT(120) DEF Reserve

\* worker.reserve keeps the types.
LEMMA TypeReserve ==
  ASSUME TypeOK, NEW c \in Callers, NEW limit, NEW none \in Places, Reserve(c, limit, none)
  PROVE  caller' \in [Callers -> CallerState] /\ worker' \in [Workers -> WorkerState]
<1> DEFINE w == caller[c].got
<1> USE Fields
<1>1. CASE HasCapacity(w, c, limit)
  <2>1. w \in Workers => worker[w].total + 1 \in Nat /\ worker[w].sess \cup {c} \in SUBSET Callers
    OBVIOUS
  <2>2. w \in Workers => [worker[w] EXCEPT !.total = worker[w].total + 1,
                              !.sess = worker[w].sess \cup {c}, !.idle = FALSE] \in WorkerState
    BY <2>1, WorkerReserved, ZenonT(120)
  <2>3. [caller[c] EXCEPT !.pc = "open", !.done = FALSE] \in CallerState
    BY ZenonT(120) DEF CallerState, Places
  <2>4. worker' = [worker EXCEPT ![w] = [worker[w] EXCEPT !.total = worker[w].total + 1,
                              !.sess = worker[w].sess \cup {c}, !.idle = FALSE]]
    BY <1>1, ReserveWrites, ZenonT(120)
  <2>5. caller' = [caller EXCEPT ![c] = [caller[c] EXCEPT !.pc = "open", !.done = FALSE]]
    BY <1>1, ZenonT(120) DEF Reserve
  <2> QED  BY <2>2, <2>3, <2>4, <2>5, PutTypes
<1>2. CASE ~HasCapacity(w, c, limit)
  <2>1. [caller[c] EXCEPT !.pc = none, !.got = None] \in CallerState
    BY ZenonT(120) DEF CallerState
  <2>2. caller' = [caller EXCEPT ![c] = [caller[c] EXCEPT !.pc = none, !.got = None]]
    BY <1>2, ZenonT(120) DEF Reserve
  <2> QED  BY <1>2, <2>1, <2>2, PutTypes, ZenonT(120) DEF Reserve, TypeOK
<1> QED  BY <1>1, <1>2

\* The choice of a worker in tryReserve keeps the types.
LEMMA TypePick ==
  ASSUME TypeOK, NEW c \in Callers, NEW at, NEW limit, NEW picked \in Places, NEW none \in Places,
         Pick(c, at, limit, picked, none)
  PROVE  TypeOK'
<1> DEFINE p == PoolOf[c]
<1> USE Fields
<1>1. [pool[p] EXCEPT !.workers = Pruned(p)] \in PoolState
  BY PrunedType DEF PoolState
<1>2. [pool[p] EXCEPT !.workers = Pruned(p), !.mu = c] \in PoolState
  BY PrunedType, PutPruned, ZenonT(120)
<1>3. pool' \in [Pools -> PoolState]
  BY <1>1, <1>2 DEF Pick, TypeOK
<1>4. ASSUME NEW w \in LeastLoaded(p, c, limit)
      PROVE  [caller[c] EXCEPT !.pc = picked, !.got = w] \in CallerState
  <2>1. w \in Workers  BY PrunedType DEF LeastLoaded
  <2> QED  BY <2>1, ZenonT(120) DEF CallerState
<1>5. caller' \in [Callers -> CallerState]
  <2>1. CASE Goto(c, none)  BY <2>1, GotoType
  <2>2. CASE \E w \in LeastLoaded(p, c, limit) :
                caller' = [caller EXCEPT ![c].pc = picked, ![c].got = w]
    <3>1. PICK w \in LeastLoaded(p, c, limit) :
             caller' = [caller EXCEPT ![c] = [caller[c] EXCEPT !.pc = picked, !.got = w]]
      BY <2>2, ZenonT(120)
    <3> QED  BY <3>1, <1>4, PutTypes, ZenonT(120)
  <2> QED  BY <2>1, <2>2, ZenonT(120) DEF Pick
<1> QED  BY <1>3, <1>5, ZenonT(120) DEF Pick, TypeOK

\* The reserve at the end of tryReserve keeps the types.
LEMMA TypeReservePicked ==
  ASSUME TypeOK, NEW c \in Callers, NEW at, NEW limit, NEW none \in Places,
         ReservePicked(c, at, limit, none)
  PROVE  TypeOK'
<1>1. [pool[PoolOf[c]] EXCEPT !.mu = None] \in PoolState
  BY Fields DEF PoolState
<1>2. pool' \in [Pools -> PoolState]
  BY <1>1, Fields DEF ReservePicked, TypeOK
<1> QED  BY <1>2, TypeReserve DEF ReservePicked, TypeOK

\* The steps of dialSession outside the physical dials.
LEMMA TypeDialSession ==
  ASSUME TypeOK, NEW c \in Callers,
         \/ Start(c) \/ Cancel(c) \/ LoopCancelled(c) \/ WantGrow(c)
         \/ TrySoft(c) \/ ReserveSoft(c) \/ TryHard(c) \/ ReserveHard(c) \/ ReserveDialed(c)
         \/ JoinFlight(c) \/ WaitForSlot(c) \/ CancelWakes(c)
  PROVE  TypeOK'
<1> DEFINE p == PoolOf[c]
<1> USE Fields
<1>0. [pool EXCEPT ![p].workers = Pruned(p)] \in [Pools -> PoolState]
  <2>1. [pool[p] EXCEPT !.workers = Pruned(p)] \in PoolState  BY PrunedType DEF PoolState
  <2> QED  BY <2>1, PutTypes, ZenonT(120)
<1>1. CASE Start(c)  BY <1>1, GotoType DEF Start, TypeOK, Places
<1>2. CASE Cancel(c)
  <2>1. [caller[c] EXCEPT !.done = TRUE] \in CallerState  BY ZenonT(120) DEF CallerState
  <2> QED  BY <1>2, <2>1 DEF Cancel, TypeOK
<1>3. CASE LoopCancelled(c)  BY <1>3, LeaveType, ZenonT(120) DEF LoopCancelled, TypeOK
<1>4. CASE WantGrow(c)
  <2>1. caller' \in [Callers -> CallerState]  BY <1>4, GotoType, ZenonT(120) DEF WantGrow, Places
  <2>2. pool' \in [Pools -> PoolState]  BY <1>4, <1>0, ZenonT(120) DEF WantGrow, TypeOK
  <2> QED  BY <1>4, <2>1, <2>2 DEF WantGrow, TypeOK
<1>5. CASE TrySoft(c)  BY <1>5, TypePick DEF TrySoft, Places
<1>6. CASE ReserveSoft(c)  BY <1>6, TypeReservePicked, ZenonT(120) DEF ReserveSoft, Places
<1>7. CASE TryHard(c)  BY <1>7, TypePick DEF TryHard, Places
<1>8. CASE ReserveHard(c)  BY <1>8, TypeReservePicked, ZenonT(120) DEF ReserveHard, Places
<1>9. CASE ReserveDialed(c)
  <2>1. caller' \in [Callers -> CallerState] /\ worker' \in [Workers -> WorkerState]
    BY <1>9, TypeReserve, ZenonT(120) DEF ReserveDialed, Places
  <2> QED  BY <1>9, <2>1, ZenonT(120) DEF ReserveDialed, TypeOK
<1>10. CASE JoinFlight(c)
  <2>1. PICK k \in Keys :
          \/ /\ pool' = [pool EXCEPT ![p].flight[k] = c]
             /\ caller' = [caller EXCEPT ![c].pc = "lead", ![c].key = k]
          \/ /\ caller' = [caller EXCEPT ![c].pc = "follow", ![c].key = k]
             /\ UNCHANGED pool
    BY <1>10, ZenonT(120) DEF JoinFlight
  <2>2. [pool[p].flight EXCEPT ![k] = c] \in [Keys -> Callers \cup {None}]
    BY ZenonT(120)
  <2>3. [pool[p] EXCEPT !.flight = [pool[p].flight EXCEPT ![k] = c]] \in PoolState
    BY <2>2 DEF PoolState
  <2>4. /\ [caller[c] EXCEPT !.pc = "lead", !.key = k] \in CallerState
        /\ [caller[c] EXCEPT !.pc = "follow", !.key = k] \in CallerState
    BY ZenonT(120) DEF CallerState, Places
  <2>5. pool' \in [Pools -> PoolState]  BY <2>1, <2>3, PutTypes DEF TypeOK
  <2>6. caller' \in [Callers -> CallerState]
    <3>1. \/ caller' = [caller EXCEPT ![c] = [caller[c] EXCEPT !.pc = "lead", !.key = k]]
          \/ caller' = [caller EXCEPT ![c] = [caller[c] EXCEPT !.pc = "follow", !.key = k]]
      BY <2>1, ZenonT(120)
    <3> QED  BY <2>4, <3>1, PutTypes
  <2> QED  BY <1>10, <2>5, <2>6 DEF JoinFlight, TypeOK
<1>11. CASE WaitForSlot(c)
  <2>1. caller' \in [Callers -> CallerState]
    BY <1>11, GotoType, LeaveType, ZenonT(120) DEF WaitForSlot, Places
  <2>2. pool' \in [Pools -> PoolState]  BY <1>11, <1>0, ZenonT(120) DEF WaitForSlot, TypeOK
  <2> QED  BY <1>11, <2>1, <2>2 DEF WaitForSlot, TypeOK
<1>12. CASE CancelWakes(c)  BY <1>12, WokenType DEF CancelWakes, TypeOK
<1> QED  BY <1>1, <1>2, <1>3, <1>4, <1>5, <1>6, <1>7, <1>8, <1>9, <1>10, <1>11, <1>12

\* The physical dials.
LEMMA TypeDials ==
  ASSUME TypeOK, DialsOwned, NEW c \in Callers,
         \/ AttemptClosed(c) \/ AttemptReuse(c) \/ AttemptRefused(c)
         \/ \E w \in Workers : AttemptDial(c, w)
         \/ DialOk(c) \/ DialLate(c) \/ AbortReturn(c) \/ DialFail(c) \/ FailReturn(c)
  PROVE  TypeOK'
<1> DEFINE p == PoolOf[c]
           v == caller[c].got
<1>0. /\ p \in Pools /\ pool[p] \in PoolState /\ Pruned(p) \in SUBSET Workers
      /\ Landed(c) \in [Keys -> Callers \cup {None}] /\ v \in Workers \cup {None}
  BY Fields, PrunedType, LandedType
<1>1. CASE AttemptClosed(c)
  <2>1. caller' \in [Callers -> CallerState]  BY <1>1, ReturnType DEF AttemptClosed, Places
  <2>2. pool' = [pool EXCEPT ![p] = [pool[p] EXCEPT !.flight = Landed(c)]]
    BY <1>1 DEF AttemptClosed
  <2>3. pool' \in [Pools -> PoolState]  BY <1>0, <2>2, PutFlight, PutTypes
  <2> QED  BY <1>1, <2>1, <2>3 DEF AttemptClosed, TypeOK
<1>2. CASE AttemptReuse(c)
  <2>1. PICK w \in Pruned(p) : Return(c, "resFlight", w)  BY <1>2 DEF AttemptReuse
  <2>2. caller' \in [Callers -> CallerState]  BY <1>0, <2>1, ReturnType DEF Places
  <2>3. pool' = [pool EXCEPT ![p] = [pool[p] EXCEPT !.workers = Pruned(p), !.flight = Landed(c)]]
    BY <1>2, ZenonT(120) DEF AttemptReuse
  <2>4. pool' \in [Pools -> PoolState]  BY <1>0, <2>3, PutLanded, PutTypes, ZenonT(120)
  <2> QED  BY <1>2, <2>2, <2>4 DEF AttemptReuse, TypeOK
<1>3. CASE AttemptRefused(c)
  <2>1. caller' \in [Callers -> CallerState]  BY <1>3, ReturnType DEF AttemptRefused, Places
  <2>2. pool' = [pool EXCEPT ![p] = [pool[p] EXCEPT !.workers = Pruned(p), !.flight = Landed(c)]]
    BY <1>3, ZenonT(120) DEF AttemptRefused
  <2>3. pool' \in [Pools -> PoolState]  BY <1>0, <2>2, PutLanded, PutTypes, ZenonT(120)
  <2> QED  BY <1>3, <2>1, <2>3 DEF AttemptRefused, TypeOK
<1>4. CASE \E w \in Workers : AttemptDial(c, w)
  <2>1. PICK w \in Workers : AttemptDial(c, w)  BY <1>4
  <2>2. PICK k \in DialKeys(c) :
          /\ Acquire(p, k)
          /\ worker' = [worker EXCEPT ![w] = [NoWorker EXCEPT !.st = "dialing", !.pool = p,
                           !.key = IF MaxConnections[p] = 0 THEN None ELSE k,
                           !.born = IF MaxDials = 0 THEN Window ELSE 0]]
    BY <2>1, ZenonT(120) DEF AttemptDial
  <2>3. k \in Keys \cup {None}  BY DEF DialKeys, TypeOK, CallerState
  <2>4. worker' \in [Workers -> WorkerState]
    <3>1. /\ (IF MaxConnections[p] = 0 THEN None ELSE k) \in Keys \cup {None}
          /\ (IF MaxDials = 0 THEN Window ELSE 0) \in 0..Window
      BY <2>3, PoolAssumption
    <3> QED  BY <1>0, <2>2, <3>1, NoWorkerType, WorkerDials, PutTypes, ZenonT(120)
  <2>5. permits' \in [Keys -> Nat]
    <3>1. k \in Keys => permits[k] + 1 \in Nat  BY DEF TypeOK
    <3> QED  BY <2>2, <3>1, ZenonT(120) DEF Acquire, TypeOK
  <2>6. pool' \in [Pools -> PoolState]
    <3>1. RecordDial(pool[p].dialTimes) \in [Ages -> Nat]  BY <1>0, Fields, RecordDialType
    <3>2. pool' = [pool EXCEPT ![p] = [pool[p] EXCEPT !.workers = Pruned(p), !.dialMu = c,
                                           !.dialTimes = RecordDial(pool[p].dialTimes)]]
      BY <2>1, ZenonT(120) DEF AttemptDial
    <3> QED  BY <1>0, <3>1, <3>2, PutDialing, PutTypes, ZenonT(120)
  <2>7. caller' \in [Callers -> CallerState]
    <3>1. [caller[c] EXCEPT !.pc = "dial", !.got = w] \in CallerState
      BY Fields, ZenonT(120) DEF CallerState, Places
    <3>2. caller' = [caller EXCEPT ![c] = [caller[c] EXCEPT !.pc = "dial", !.got = w]]
      BY <2>1, ZenonT(120) DEF AttemptDial
    <3> QED  BY <3>1, <3>2, PutTypes
  <2> QED  BY <2>4, <2>5, <2>6, <2>7 DEF TypeOK
<1>5. CASE DialOk(c)
  <2>1. caller' \in [Callers -> CallerState]  BY <1>0, <1>5, ReturnType DEF DialOk, Places
  <2>2. pool' \in [Pools -> PoolState]
    <3>1. pool[p].workers \cup {v} \in SUBSET Workers
      BY <1>0, <1>5, Fields, ZenonT(120) DEF DialOk, DialsOwned
    <3>2. pool' = [pool EXCEPT ![p] = [pool[p] EXCEPT !.workers = pool[p].workers \cup {v},
                                          !.dialMu = None, !.flight = Landed(c)]]
      BY <1>5, ZenonT(120) DEF DialOk
    <3> QED  BY <1>0, <3>1, <3>2, PutDialed, PutTypes, ZenonT(120)
  <2>3. worker' \in [Workers -> WorkerState]  BY <1>5, Fields, WorkerMoves, PutTypes, ZenonT(120) DEF DialOk
  <2> QED  BY <1>5, <2>1, <2>2, <2>3, ZenonT(120) DEF DialOk, TypeOK
<1>6. CASE DialLate(c)
  <2>1. caller' \in [Callers -> CallerState]  BY <1>6, GotoType DEF DialLate, Places
  <2>2. worker' = [worker EXCEPT ![v] = [worker[v] EXCEPT !.st = "closing"]]
    BY <1>6 DEF DialLate
  <2>3. worker' \in [Workers -> WorkerState]  BY <2>2, Fields, WorkerMoves, PutTypes, ZenonT(120)
  <2> QED  BY <1>6, <2>1, <2>3 DEF DialLate, TypeOK
<1>7. CASE AbortReturn(c)
  <2>1. caller' \in [Callers -> CallerState]  BY <1>7, ReturnType DEF AbortReturn, Places
  <2>2. pool' = [pool EXCEPT ![p] = [pool[p] EXCEPT !.dialMu = None, !.flight = Landed(c)]]
    BY <1>7, ZenonT(120) DEF AbortReturn
  <2>3. pool' \in [Pools -> PoolState]  BY <1>0, <2>2, PutAborted, PutTypes, ZenonT(120)
  <2> QED  BY <1>7, <2>1, <2>3 DEF AbortReturn, TypeOK
<1>8. CASE DialFail(c)
  <2>1. caller' \in [Callers -> CallerState]
    <3>1. caller' = [caller EXCEPT ![c] = [caller[c] EXCEPT !.pc = "failed", !.got = None]]
      BY <1>8, ZenonT(120) DEF DialFail
    <3>2. [caller[c] EXCEPT !.pc = "failed", !.got = None] \in CallerState
      BY Fields, ZenonT(120) DEF CallerState, Places
    <3> QED  BY <3>1, <3>2, PutTypes
  <2>2. worker' \in [Workers -> WorkerState]  BY <1>8, NoWorkerType, PutTypes DEF DialFail
  <2>3. permits' \in [Keys -> Nat]  BY <1>8, ReleaseType DEF DialFail
  <2> QED  BY <1>8, <2>1, <2>2, <2>3 DEF DialFail, TypeOK
<1>9. CASE FailReturn(c)
  <2>1. caller' \in [Callers -> CallerState]  BY <1>9, ReturnType, ZenonT(120) DEF FailReturn, Places
  <2>2. DropLastDial(pool[p].dialTimes) \in [Ages -> Nat]  BY <1>0, Fields, DropLastDialType
  <2>3. pool' = [pool EXCEPT ![p] = [pool[p] EXCEPT !.dialTimes = DropLastDial(pool[p].dialTimes),
                                        !.dialMu = None, !.flight = Landed(c)]]
    BY <1>9, ZenonT(120) DEF FailReturn
  <2>4. pool' \in [Pools -> PoolState]  BY <1>0, <2>2, <2>3, PutFailed, PutTypes, ZenonT(120)
  <2> QED  BY <1>9, <2>1, <2>4, ZenonT(120) DEF FailReturn, TypeOK
<1> QED  BY <1>1, <1>2, <1>3, <1>4, <1>5, <1>6, <1>7, <1>8, <1>9, ZenonT(120)

\* Sessions.
LEMMA TypeSessions ==
  ASSUME TypeOK, NEW c \in Callers,
         \/ OpenSession(c) \/ OpenFails(c) \/ AbandonSession(c) \/ RemoveSession(c)
         \/ AlreadyFinished(c) \/ SignalFree(c) \/ SignalRetire(c) \/ CloseReturns(c)
  PROVE  TypeOK'
<1> DEFINE p == PoolOf[c]
           w == caller[c].got
<1>0. /\ Woken(p) \in [Callers -> CallerState] /\ AtRest \in CallerState
      /\ Doom(w) \in BOOLEAN
      /\ w \in Workers => /\ worker[w] \in WorkerState
                          /\ worker[w].sess \ {c} \in SUBSET Callers
                          /\ worker[w].snap \ {c} \in SUBSET Callers
  BY WokenType, AtRestType, Fields DEF Doom
<1>1. CASE OpenSession(c)  BY <1>1, GotoType DEF OpenSession, TypeOK, Places
<1>2. CASE OpenFails(c)
  <2>1. caller' \in [Callers -> CallerState]  BY <1>2, GotoType DEF OpenFails, Places
  <2>2. worker' = [worker EXCEPT ![w] = [worker[w] EXCEPT !.sess = worker[w].sess \ {c}]]
    BY <1>2 DEF OpenFails
  <2>3. worker' \in [Workers -> WorkerState]  BY <1>0, <2>2, WorkerSess, PutTypes, ZenonT(120)
  <2> QED  BY <1>2, <2>1, <2>3 DEF OpenFails, TypeOK
<1>3. CASE AbandonSession(c)
  <2>1. caller' \in [Callers -> CallerState]  BY <1>0, <1>3 DEF AbandonSession
  <2>2. worker' = [worker EXCEPT ![w] = [worker[w] EXCEPT !.snap = worker[w].snap \ {c},
                                                          !.doomed = Doom(w)]]
    BY <1>3, ZenonT(120) DEF AbandonSession
  <2>3. worker' \in [Workers -> WorkerState]  BY <1>0, <2>2, WorkerSnapDoomed, PutTypes, ZenonT(120)
  <2> QED  BY <1>3, <2>1, <2>3, ZenonT(120) DEF AbandonSession, TypeOK
<1>4. CASE RemoveSession(c)
  <2>1. caller' \in [Callers -> CallerState]  BY <1>4, GotoType, ZenonT(120) DEF RemoveSession, Places
  <2>2. PICK b : worker' = [worker EXCEPT ![w] = [worker[w] EXCEPT
                                    !.sess = worker[w].sess \ {c}, !.idle = (worker[w].idle \/ b)]]
    BY <1>4, ZenonT(120) DEF RemoveSession
  <2>3. (worker[w].idle \/ b) \in BOOLEAN  OBVIOUS
  <2>4. worker' \in [Workers -> WorkerState]  BY <1>0, <2>2, <2>3, WorkerSessIdle, PutTypes, ZenonT(120)
  <2> QED  BY <1>4, <2>1, <2>4, ZenonT(120) DEF RemoveSession, TypeOK
<1>5. CASE AlreadyFinished(c)  BY <1>5, LeaveType DEF AlreadyFinished, TypeOK
<1>6. CASE SignalFree(c)
  <2>1. caller' \in [Callers -> CallerState]  BY <1>0, <1>6 DEF SignalFree
  <2>2. worker' = [worker EXCEPT ![w] = [worker[w] EXCEPT !.snap = worker[w].snap \ {c}]]
    BY <1>6, ZenonT(120) DEF SignalFree
  <2>3. worker' \in [Workers -> WorkerState]  BY <1>0, <2>2, WorkerSnap, PutTypes
  <2> QED  BY <1>6, <2>1, <2>3 DEF SignalFree, TypeOK
<1>7. CASE SignalRetire(c)
  <2>1. [Woken(p)[c] EXCEPT !.pc = "closeWait"] \in CallerState
    BY <1>0, PlaceType, ZenonT(120) DEF Places
  <2>2. caller' = [Woken(p) EXCEPT ![c] = [Woken(p)[c] EXCEPT !.pc = "closeWait"]]
    BY <1>7 DEF SignalRetire
  <2>3. caller' \in [Callers -> CallerState]  BY <1>0, <2>1, <2>2, ZenonT(120)
  <2>4. worker' = [worker EXCEPT ![w] = [worker[w] EXCEPT !.doomed = Doom(w)]]
    BY <1>7 DEF SignalRetire
  <2>5. worker' \in [Workers -> WorkerState]  BY <1>0, <2>4, WorkerDoomed, PutTypes, ZenonT(120)
  <2> QED  BY <1>7, <2>3, <2>5, ZenonT(120) DEF SignalRetire, TypeOK
<1>8. CASE CloseReturns(c)  BY <1>8, LeaveType DEF CloseReturns, TypeOK
<1> QED  BY <1>1, <1>2, <1>3, <1>4, <1>5, <1>6, <1>7, <1>8, ZenonT(120)

\* worker.close.
LEMMA TypeCloses ==
  ASSUME TypeOK, NEW w \in Workers,
         \/ CarrierFails(w) \/ CloseDoomed(w) \/ IdleFires(w)
         \/ ReleasePermit(w) \/ SignalReleased(w) \/ \E c \in Callers : FinishSnapped(w, c)
  PROVE  TypeOK'
<1> DEFINE p == worker[w].pool
<1>0. /\ worker[w] \in WorkerState /\ worker[w].sess \in SUBSET Callers
      /\ p \in Pools \cup {None} /\ worker[w].born \in 0..Window
      /\ Woken(p) \in [Callers -> CallerState]
  BY Fields, WokenType
<1>1. CASE BeginClose(w)
  <2>1. worker' = [worker EXCEPT ![w] = [worker[w] EXCEPT !.st = "closing",
                       !.snap = worker[w].sess, !.sess = {}, !.idle = FALSE, !.doomed = FALSE]]
    BY <1>1, ZenonT(120) DEF BeginClose
  <2>2. worker' \in [Workers -> WorkerState]  BY <1>0, <2>1, WorkerCloses, PutTypes, ZenonT(120)
  <2> QED  BY <1>1, <2>2, ZenonT(120) DEF BeginClose, TypeOK
<1>2. CASE IdleFires(w)
  <2>1. worker' = [worker EXCEPT ![w] = [worker[w] EXCEPT !.idle = FALSE, !.doomed = TRUE]]
    BY <1>2, ZenonT(120) DEF IdleFires
  <2>2. worker' \in [Workers -> WorkerState]  BY <1>0, <2>1, WorkerExpires, PutTypes, ZenonT(120)
  <2> QED  BY <1>2, <2>2 DEF IdleFires, TypeOK
<1>3. CASE \E c \in Callers : FinishSnapped(w, c)
  <2>1. PICK c \in Callers : FinishSnapped(w, c)  BY <1>3, ZenonT(120)
  <2> DEFINE j == IF worker[w].total >= MaxUses THEN c ELSE None
  <2>2. worker' = [worker EXCEPT ![w] = [worker[w] EXCEPT !.snap = worker[w].snap \ {c}, !.jam = j]]
    BY <2>1, ZenonT(120) DEF FinishSnapped
  <2>5. j \in Callers \cup {None}  OBVIOUS
  <2> HIDE DEF j
  <2>3. worker[w].snap \ {c} \in SUBSET Callers  BY Fields, ZenonT(120)
  <2>4. worker' \in [Workers -> WorkerState]  BY <1>0, <2>2, <2>3, <2>5, WorkerSnapJam, PutTypes, ZenonT(120)
  <2> QED  BY <1>0, <2>1, <2>4, ZenonT(120) DEF FinishSnapped, TypeOK
<1>4. CASE ReleasePermit(w)
  <2>1. worker' = [worker EXCEPT ![w] = [worker[w] EXCEPT !.st = "freed"]]
    BY <1>4 DEF ReleasePermit
  <2>2. worker' \in [Workers -> WorkerState]  BY <1>0, <2>1, WorkerMoves, PutTypes, ZenonT(120)
  <2> QED  BY <1>4, <2>2, ReleaseType DEF ReleasePermit, TypeOK
<1>5. CASE SignalReleased(w)
  <2>1. (IF worker[w].born < Window THEN p ELSE None) \in Pools \cup {None}  BY <1>0, ZenonT(120)
  <2>2. worker' = [worker EXCEPT ![w] = [NoWorker EXCEPT !.st = "released",
                      !.born = worker[w].born, !.pool = IF worker[w].born < Window THEN p ELSE None]]
    BY <1>5 DEF SignalReleased
  <2>3. worker' \in [Workers -> WorkerState]
    BY <1>0, <2>1, <2>2, NoWorkerType, WorkerReleased, PutTypes, ZenonT(120)
  <2> QED  BY <1>0, <1>5, <2>3 DEF SignalReleased, TypeOK
<1> QED  BY <1>1, <1>2, <1>3, <1>4, <1>5, ZenonT(120) DEF CarrierFails, CloseDoomed

\* Pool.Close and the clock.
LEMMA TypePools ==
  ASSUME TypeOK,
         \/ \E p \in Pools : ClosePool(p) \/ CloseNext(p) \/ CloseStep(p)
         \/ Tick
  PROVE  TypeOK'
<1>1. ASSUME NEW p \in Pools, ClosePool(p) PROVE TypeOK'
  <2>1. pool' = [pool EXCEPT ![p] = [pool[p] EXCEPT !.closed = TRUE,
                                        !.closing = pool[p].workers, !.workers = {}]]
    BY <1>1, ZenonT(120) DEF ClosePool
  <2>2. pool' \in [Pools -> PoolState]  BY <2>1, Fields, PutClosed, PutTypes, ZenonT(120)
  <2> QED  BY <1>1, <2>2, WokenType, ZenonT(120) DEF ClosePool, TypeOK
<1>2. ASSUME NEW p \in Pools, CloseNext(p) PROVE TypeOK'
  <2>1. PICK w \in pool[p].closing :
          /\ pool' = [pool EXCEPT ![p] = [pool[p] EXCEPT !.current = w]]
          /\ worker' = [worker EXCEPT ![w] = [worker[w] EXCEPT !.doomed = Doom(w)]]
    BY <1>2, ZenonT(120) DEF CloseNext
  <2>2. w \in Workers /\ Doom(w) \in BOOLEAN  BY Fields DEF Doom
  <2>3. pool' \in [Pools -> PoolState]  BY <2>1, <2>2, Fields, PutCurrent, PutTypes
  <2>4. worker' \in [Workers -> WorkerState]  BY <2>1, <2>2, Fields, WorkerDoomed, PutTypes
  <2> QED  BY <1>2, <2>3, <2>4, ZenonT(120) DEF CloseNext, TypeOK
<1>3. ASSUME NEW p \in Pools, CloseStep(p) PROVE TypeOK'
  <2>1. pool' = [pool EXCEPT ![p] = [pool[p] EXCEPT
                    !.closing = pool[p].closing \ {pool[p].current}, !.current = None]]
    BY <1>3, ZenonT(120) DEF CloseStep
  <2>2. pool[p].closing \ {pool[p].current} \in SUBSET Workers  BY Fields, ZenonT(120)
  <2>3. pool' \in [Pools -> PoolState]  BY <2>1, <2>2, Fields, PutClosing, PutTypes, ZenonT(120)
  <2> QED  BY <1>3, <2>3 DEF CloseStep, TypeOK
<1>4. CASE Tick
  <2>1. ASSUME NEW p \in Pools
        PROVE  [a \in Ages |-> IF a = 0 THEN 0 ELSE pool[p].dialTimes[a - 1]] \in [Ages -> Nat]
    <3>1. \A a \in Ages : a # 0 => a - 1 \in Ages  BY PoolAssumption DEF Ages
    <3> QED  BY <3>1, Fields
  <2>2. ASSUME NEW p \in Pools
        PROVE  [pool[p] EXCEPT !.dialTimes =
                  [a \in Ages |-> IF a = 0 THEN 0 ELSE pool[p].dialTimes[a - 1]]] \in PoolState
    BY <2>1, Fields, PutTimes
  <2>3. pool' \in [Pools -> PoolState]  BY <1>4, <2>2 DEF Tick
  <2>4. ASSUME NEW w \in Workers
        PROVE  [worker[w] EXCEPT !.born = IF worker[w].born < Window THEN worker[w].born + 1
                                          ELSE worker[w].born] \in WorkerState
    <3>1. (IF worker[w].born < Window THEN worker[w].born + 1 ELSE worker[w].born) \in 0..Window
      BY Fields, PoolAssumption
    <3> QED  BY <3>1, Fields, WorkerAges, ZenonT(120)
  <2>5. worker' \in [Workers -> WorkerState]  BY <1>4, <2>4 DEF Tick
  <2> QED  BY <1>4, <2>3, <2>5, ZenonT(120) DEF Tick, TypeOK
<1> QED  BY <1>1, <1>2, <1>3, <1>4

\* Every step keeps the types, given that a dialling caller has a worker.
LEMMA TypeStep == TypeOK /\ DialsOwned /\ [Next]_vars => TypeOK'
<1> SUFFICES ASSUME TypeOK, DialsOwned, [Next]_vars PROVE TypeOK'
  OBVIOUS
<1>1. ASSUME NEW c \in Callers,
             Start(c) \/ Cancel(c) \/ DialStep(c) \/ DialEnds(c) \/ SessionStep(c) \/ OpenFails(c)
      PROVE  TypeOK'
  BY <1>1, TypeDialSession, TypeDials, TypeSessions DEF DialStep, DialEnds, SessionStep
<1>2. ASSUME NEW w \in Workers, CarrierFails(w) \/ IdleFires(w) \/ CloseWorkerStep(w)
      PROVE  TypeOK'
  BY <1>2, TypeCloses DEF CloseWorkerStep
<1>3. CASE UNCHANGED vars  BY <1>3 DEF vars, TypeOK
<1> QED  BY <1>1, <1>2, <1>3, TypePools DEF Next

\* The initial state has the right types.
LEMMA TypeInit == Init => TypeOK
<1> SUFFICES ASSUME Init PROVE TypeOK
  BY ZenonT(120)
<1>1. NewPool \in PoolState
  BY PoolAssumption DEF NewPool, PoolState, Ages
<1>2. pool \in [Pools -> PoolState]  BY <1>1 DEF Init
<1>3. worker \in [Workers -> WorkerState]  BY NoWorkerType DEF Init
<1>4. caller \in [Callers -> CallerState]  BY AtRestType DEF Init
<1>5. permits \in [Keys -> Nat]  BY DEF Init
<1> QED  BY <1>2, <1>3, <1>4, <1>5 DEF TypeOK

-----------------------------------------------------------------------------
(* Permits.  Only three actions change the workers charged to an endpoint:   *)
(* AttemptDial, DialFail and ReleasePermit.  The others are quiet.           *)

\* No caller starts or changes a dial.
QuietCallers ==
    \A c \in Callers : caller'[c].pc = "dial" =>
        caller[c].pc = "dial" /\ caller'[c].got = caller[c].got

\* No worker is charged or discharged, and none leaves "dialing".
QuietWorkers ==
    /\ permits' = permits
    /\ \A w \in Workers :
          \/ worker'[w].st = worker[w].st /\ worker'[w].key = worker[w].key
          \/ worker[w].st = "live" /\ worker'[w].st = "closing" /\ worker'[w].key = worker[w].key
          \/ worker[w].st = "freed" /\ worker'[w].st = "released"

\* A quiet step keeps the invariant.
LEMMA QuietKeeps ==
  ASSUME DialsOwned, PermitsExact, CarrierLimit, QuietCallers, QuietWorkers
  PROVE  DialsOwned' /\ PermitsExact' /\ CarrierLimit'
<1>1. \A k \in Keys : Held(k)' = Held(k)  BY DEF QuietWorkers, Held, Charged
<1>2. PermitsExact' /\ CarrierLimit'
  BY <1>1, ZenonT(120) DEF PermitsExact, CarrierLimit, QuietWorkers
<1>3. DialsOwned'  BY DEF DialsOwned, QuietCallers, QuietWorkers, At
<1> QED  BY <1>2, <1>3, ZenonT(120)

\* A step that leaves the workers alone charges and frees none.
LEMMA SameWorkers ==
  ASSUME worker' = worker, permits' = permits
  PROVE  QuietWorkers
BY DEF QuietWorkers

\* A worker record that keeps its state and its key.
LEMMA SameCharge ==
  ASSUME TypeOK, NEW w, NEW r,
         worker' = [worker EXCEPT ![w] = r], permits' = permits,
         w \in Workers => r.st = worker[w].st /\ r.key = worker[w].key
  PROVE  QuietWorkers
BY DEF QuietWorkers, TypeOK

\* Going to a place other than a dial starts no dial and ends none.
LEMMA QuietGoto ==
  ASSUME TypeOK, NEW c \in Callers, NEW next, next # "dial", Goto(c, next)
  PROVE  QuietCallers
BY Fields DEF QuietCallers, Goto, TypeOK, CallerState

\* Neither does returning from dialSession.
LEMMA QuietLeave ==
  ASSUME TypeOK, NEW c \in Callers, Leave(c)
  PROVE  QuietCallers
BY DEF QuietCallers, Leave, AtRest, TypeOK

\* Nor the end of an attempt that is not in p.dial.
LEMMA QuietReturn ==
  ASSUME NEW c \in Callers, NEW next, NEW w, next # "dial", Return(c, next, w)
  PROVE  QuietCallers
BY DEF QuietCallers, Return

\* Nor signalFree.
LEMMA QuietWoken ==
  ASSUME TypeOK, NEW p
  PROVE  \A c \in Callers : Woken(p)[c].pc = "dial" =>
            caller[c].pc = "dial" /\ Woken(p)[c].got = caller[c].got
BY Fields DEF Woken, TypeOK, CallerState

\* dialSession outside the physical dials.
LEMMA QuietDialSession ==
  ASSUME TypeOK, NEW c \in Callers,
         \/ Start(c) \/ Cancel(c) \/ LoopCancelled(c) \/ WantGrow(c)
         \/ TrySoft(c) \/ ReserveSoft(c) \/ TryHard(c) \/ ReserveHard(c) \/ ReserveDialed(c)
         \/ JoinFlight(c) \/ WaitForSlot(c) \/ CancelWakes(c)
  PROVE  QuietCallers /\ QuietWorkers
<1>0. caller \in [Callers -> CallerState] /\ caller[c] \in CallerState  BY DEF TypeOK
<1>1. CASE Start(c) \/ LoopCancelled(c) \/ WantGrow(c) \/ WaitForSlot(c)
  <2>1. QuietWorkers  BY <1>1, SameWorkers, ZenonT(120) DEF Start, LoopCancelled, WantGrow, WaitForSlot
  <2>2. QuietCallers
    BY <1>1, QuietGoto, QuietLeave DEF Start, LoopCancelled, WantGrow, WaitForSlot
  <2> QED  BY <2>1, <2>2, ZenonT(120)
<1>2. CASE Cancel(c)
  BY <1>0, <1>2, SameWorkers, ZenonT(120) DEF Cancel, QuietCallers, CallerState
<1>3. ASSUME NEW at, NEW limit, NEW picked, NEW none, picked # "dial", none # "dial",
             Pick(c, at, limit, picked, none)
      PROVE  QuietCallers /\ QuietWorkers
  <2>1. QuietWorkers  BY <1>3, SameWorkers DEF Pick
  <2>2. ASSUME NEW w, caller' = [caller EXCEPT ![c].pc = picked, ![c].got = w]
        PROVE  QuietCallers
    BY <1>0, <1>3, <2>2 DEF QuietCallers, CallerState
  <2> QED  BY <1>3, <2>1, <2>2, QuietGoto, ZenonT(120) DEF Pick
<1>4. ASSUME NEW limit, NEW none, none # "dial", Reserve(c, limit, none), permits' = permits
      PROVE  QuietCallers /\ QuietWorkers
  <2> DEFINE w == caller[c].got
  <2>1. CASE ~HasCapacity(w, c, limit)
    BY <1>0, <1>4, <2>1, SameWorkers DEF Reserve, QuietCallers, CallerState
  <2>2. CASE HasCapacity(w, c, limit)
    <3>1. QuietCallers  BY <1>0, <1>4, <2>2 DEF Reserve, QuietCallers, CallerState
    <3>2. worker' = [worker EXCEPT ![w] = [worker[w] EXCEPT !.total = worker[w].total + 1,
                                !.sess = worker[w].sess \cup {c}, !.idle = FALSE]]
      BY <1>4, <2>2, ReserveWrites, ZenonT(120)
    <3> DEFINE r == [worker[w] EXCEPT !.total = worker[w].total + 1,
                                      !.sess = worker[w].sess \cup {c}, !.idle = FALSE]
    <3>3. w \in Workers => r.st = worker[w].st /\ r.key = worker[w].key
      <4>1. w \in Workers => worker[w] \in WorkerState  BY DEF TypeOK
      <4> QED  BY <4>1 DEF WorkerState
    <3>5. worker' = [worker EXCEPT ![w] = r]  BY <3>2
    <3> HIDE DEF r
    <3>4. QuietWorkers  BY <1>4, <3>3, <3>5, ZenonT(120) DEF QuietWorkers, TypeOK
    <3> QED  BY <3>1, <3>4
  <2> QED  BY <2>1, <2>2, ZenonT(120)
<1>5. CASE JoinFlight(c)
  <2>1. QuietWorkers  BY <1>5, SameWorkers, ZenonT(120) DEF JoinFlight
  <2>2. QuietCallers  BY <1>0, <1>5, ZenonT(120) DEF JoinFlight, QuietCallers, CallerState
  <2> QED  BY <2>1, <2>2
<1>6. CASE CancelWakes(c)
  BY <1>6, SameWorkers, QuietWoken DEF CancelWakes, QuietCallers
<1>7. CASE TrySoft(c) \/ TryHard(c)  BY <1>3, <1>7 DEF TrySoft, TryHard
<1>8. CASE ReserveSoft(c) \/ ReserveHard(c) \/ ReserveDialed(c)
  BY <1>4, <1>8 DEF ReserveSoft, ReserveHard, ReserveDialed, ReservePicked
<1> QED  BY <1>1, <1>2, <1>5, <1>6, <1>7, <1>8, ZenonT(120)

\* The ends of an attempt that do not touch a worker.
LEMMA QuietAttempts ==
  ASSUME TypeOK, NEW c \in Callers,
         \/ AttemptClosed(c) \/ AttemptReuse(c) \/ AttemptRefused(c)
         \/ AbortReturn(c) \/ FailReturn(c)
  PROVE  QuietCallers /\ QuietWorkers
<1>1. QuietWorkers
  BY SameWorkers, ZenonT(120) DEF AttemptClosed, AttemptReuse, AttemptRefused, AbortReturn, FailReturn
<1>2. QuietCallers
  BY QuietReturn DEF AttemptClosed, AttemptReuse, AttemptRefused, AbortReturn, FailReturn
<1> QED  BY <1>1, <1>2, ZenonT(120)

\* The updates of a worker that leave its state and its key alone.
LEMMA KeepSess ==
  ASSUME NEW r \in WorkerState, NEW S
  PROVE  LET q == [r EXCEPT !.sess = S] IN q.st = r.st /\ q.key = r.key
BY DEF WorkerState

LEMMA KeepSnap ==
  ASSUME NEW r \in WorkerState, NEW S
  PROVE  LET q == [r EXCEPT !.snap = S] IN q.st = r.st /\ q.key = r.key
BY DEF WorkerState

LEMMA KeepDoomed ==
  ASSUME NEW r \in WorkerState, NEW d
  PROVE  LET q == [r EXCEPT !.doomed = d] IN q.st = r.st /\ q.key = r.key
BY DEF WorkerState

LEMMA KeepSessIdle ==
  ASSUME NEW r \in WorkerState, NEW S, NEW b
  PROVE  LET q == [r EXCEPT !.sess = S, !.idle = b] IN q.st = r.st /\ q.key = r.key
BY DEF WorkerState

LEMMA KeepSnapDoomed ==
  ASSUME NEW r \in WorkerState, NEW S, NEW d
  PROVE  LET q == [r EXCEPT !.snap = S, !.doomed = d] IN q.st = r.st /\ q.key = r.key
BY DEF WorkerState

LEMMA KeepExpired ==
  ASSUME NEW r \in WorkerState, NEW b, NEW d
  PROVE  LET q == [r EXCEPT !.idle = b, !.doomed = d] IN q.st = r.st /\ q.key = r.key
BY DEF WorkerState

LEMMA KeepSnapJam ==
  ASSUME NEW r \in WorkerState, NEW S, NEW j
  PROVE  LET q == [r EXCEPT !.snap = S, !.jam = j] IN q.st = r.st /\ q.key = r.key
BY DEF WorkerState

\* The open and the end of a session leave the charge of every endpoint alone.
LEMMA QuietSessions ==
  ASSUME TypeOK, NEW c \in Callers,
         \/ OpenSession(c) \/ OpenFails(c) \/ AbandonSession(c) \/ RemoveSession(c)
         \/ AlreadyFinished(c) \/ SignalFree(c) \/ SignalRetire(c) \/ CloseReturns(c)
  PROVE  QuietCallers /\ QuietWorkers
<1> DEFINE p == PoolOf[c]
           w == caller[c].got
<1>0. /\ w \in Workers => worker[w] \in WorkerState
      /\ Woken(p) \in [Callers -> CallerState]
  BY WokenType DEF TypeOK
<1>1. CASE OpenSession(c)  BY <1>1, QuietGoto, SameWorkers, ZenonT(120) DEF OpenSession
<1>2. CASE OpenFails(c)
  <2>1. QuietCallers  BY <1>2, QuietGoto, ZenonT(120) DEF OpenFails
  <2>2. worker' = [worker EXCEPT ![w] = [worker[w] EXCEPT !.sess = worker[w].sess \ {c}]]
    BY <1>2 DEF OpenFails
  <2> QED  BY <1>0, <1>2, <2>1, <2>2, SameCharge, KeepSess, ZenonT(120) DEF OpenFails
<1>3. CASE AbandonSession(c)
  <2>1. QuietCallers
    BY <1>0, <1>3, QuietWoken DEF AbandonSession, QuietCallers, AtRest
  <2>2. worker' = [worker EXCEPT ![w] = [worker[w] EXCEPT !.snap = worker[w].snap \ {c},
                                                          !.doomed = Doom(w)]]
    BY <1>3, ZenonT(120) DEF AbandonSession
  <2> DEFINE r == [worker[w] EXCEPT !.snap = worker[w].snap \ {c}, !.doomed = Doom(w)]
  <2>5. worker' = [worker EXCEPT ![w] = r]  BY <2>2
  <2>6. w \in Workers => r.st = worker[w].st /\ r.key = worker[w].key  BY <1>0, KeepSnapDoomed
  <2> HIDE DEF r
  <2>7. QuietWorkers  BY <1>3, <2>5, <2>6, ZenonT(120) DEF AbandonSession, QuietWorkers, TypeOK
  <2> QED  BY <2>1, <2>7
<1>4. CASE RemoveSession(c)
  <2>1. QuietCallers  BY <1>4, QuietGoto, ZenonT(120) DEF RemoveSession
  <2>2. PICK b : worker' = [worker EXCEPT ![w] = [worker[w] EXCEPT
                                    !.sess = worker[w].sess \ {c}, !.idle = (worker[w].idle \/ b)]]
    BY <1>4, ZenonT(120) DEF RemoveSession
  <2> DEFINE r == [worker[w] EXCEPT !.sess = worker[w].sess \ {c}, !.idle = (worker[w].idle \/ b)]
  <2>5. worker' = [worker EXCEPT ![w] = r]  BY <2>2
  <2>6. w \in Workers => r.st = worker[w].st /\ r.key = worker[w].key  BY <1>0, KeepSessIdle
  <2> HIDE DEF r
  <2>7. QuietWorkers  BY <1>4, <2>5, <2>6, ZenonT(120) DEF RemoveSession, QuietWorkers, TypeOK
  <2> QED  BY <2>1, <2>7
<1>5. CASE AlreadyFinished(c)  BY <1>5, QuietLeave, SameWorkers, ZenonT(120) DEF AlreadyFinished
<1>6. CASE SignalFree(c)
  <2>1. QuietCallers
    BY <1>0, <1>6, QuietWoken, ZenonT(120) DEF SignalFree, QuietCallers, AtRest
  <2>2. worker' = [worker EXCEPT ![w] = [worker[w] EXCEPT !.snap = worker[w].snap \ {c}]]
    BY <1>6 DEF SignalFree
  <2> QED  BY <1>0, <1>6, <2>1, <2>2, SameCharge, KeepSnap, ZenonT(120) DEF SignalFree
<1>7. CASE SignalRetire(c)
  <2>1. caller' = [Woken(p) EXCEPT ![c] = [Woken(p)[c] EXCEPT !.pc = "closeWait"]]
    BY <1>7 DEF SignalRetire
  <2>2. [Woken(p)[c] EXCEPT !.pc = "closeWait"].pc = "closeWait"  BY <1>0 DEF CallerState
  <2>3. QuietCallers  BY <1>0, <2>1, <2>2, QuietWoken DEF QuietCallers
  <2>4. worker' = [worker EXCEPT ![w] = [worker[w] EXCEPT !.doomed = Doom(w)]]
    BY <1>7 DEF SignalRetire
  <2> QED  BY <1>0, <1>7, <2>3, <2>4, SameCharge, KeepDoomed, ZenonT(120) DEF SignalRetire
<1>8. CASE CloseReturns(c)  BY <1>8, QuietLeave, SameWorkers DEF CloseReturns
<1> QED  BY <1>1, <1>2, <1>3, <1>4, <1>5, <1>6, <1>7, <1>8, ZenonT(120)

\* worker.close up to the return of its permit leaves every charge alone.
LEMMA QuietCloses ==
  ASSUME TypeOK, NEW w \in Workers,
         \/ CarrierFails(w) \/ CloseDoomed(w) \/ IdleFires(w)
         \/ SignalReleased(w) \/ \E c \in Callers : FinishSnapped(w, c)
  PROVE  QuietCallers /\ QuietWorkers
<1>0. worker[w] \in WorkerState  BY DEF TypeOK
<1>1. CASE BeginClose(w)
  <2> DEFINE r == [worker[w] EXCEPT !.st = "closing", !.snap = worker[w].sess, !.sess = {},
                                    !.idle = FALSE, !.doomed = FALSE]
  <2>1. worker' = [worker EXCEPT ![w] = r]  BY <1>1, ZenonT(120) DEF BeginClose
  <2>2. r.st = "closing" /\ r.key = worker[w].key  BY <1>0 DEF WorkerState
  <2> HIDE DEF r
  <2>3. QuietWorkers  BY <1>1, <2>1, <2>2 DEF BeginClose, QuietWorkers, TypeOK
  <2> QED  BY <1>1, <2>3 DEF BeginClose, QuietCallers
<1>2. CASE IdleFires(w)
  <2>1. worker' = [worker EXCEPT ![w] = [worker[w] EXCEPT !.idle = FALSE, !.doomed = TRUE]]
    BY <1>2, ZenonT(120) DEF IdleFires
  <2> DEFINE r == [worker[w] EXCEPT !.idle = FALSE, !.doomed = TRUE]
  <2>5. worker' = [worker EXCEPT ![w] = r]  BY <2>1
  <2>6. r.st = worker[w].st /\ r.key = worker[w].key  BY <1>0, KeepExpired
  <2> HIDE DEF r
  <2>7. QuietWorkers  BY <1>2, <2>5, <2>6 DEF IdleFires, QuietWorkers, TypeOK
  <2> QED  BY <1>2, <2>7 DEF IdleFires, QuietCallers
<1>3. CASE \E c \in Callers : FinishSnapped(w, c)
  <2>1. PICK c \in Callers : FinishSnapped(w, c)  BY <1>3
  <2>2. worker' = [worker EXCEPT ![w] = [worker[w] EXCEPT !.snap = worker[w].snap \ {c},
                                    !.jam = IF worker[w].total >= MaxUses THEN c ELSE None]]
    BY <2>1, ZenonT(120) DEF FinishSnapped
  <2> DEFINE r == [worker[w] EXCEPT !.snap = worker[w].snap \ {c},
                                    !.jam = IF worker[w].total >= MaxUses THEN c ELSE None]
  <2>5. worker' = [worker EXCEPT ![w] = r]  BY <2>2
  <2>6. r.st = worker[w].st /\ r.key = worker[w].key  BY <1>0, KeepSnapJam
  <2> HIDE DEF r
  <2>7. QuietWorkers  BY <2>1, <2>5, <2>6, ZenonT(120) DEF FinishSnapped, QuietWorkers, TypeOK
  <2> QED  BY <2>1, <2>7, QuietWoken DEF FinishSnapped, QuietCallers
<1>4. CASE SignalReleased(w)
  <2> DEFINE r == [NoWorker EXCEPT !.st = "released", !.born = worker[w].born,
                       !.pool = IF worker[w].born < Window THEN worker[w].pool ELSE None]
  <2>1. worker' = [worker EXCEPT ![w] = r]  BY <1>4 DEF SignalReleased
  <2>2. r.st = "released"  BY NoWorkerType DEF WorkerState
  <2> HIDE DEF r
  <2>3. QuietWorkers  BY <1>4, <2>1, <2>2 DEF SignalReleased, QuietWorkers, TypeOK
  <2> QED  BY <1>4, <2>3, QuietWoken DEF SignalReleased, QuietCallers
<1> QED  BY <1>1, <1>2, <1>3, <1>4 DEF CarrierFails, CloseDoomed

\* So do Pool.Close and the clock.
LEMMA QuietPools ==
  ASSUME TypeOK,
         \/ \E p \in Pools : ClosePool(p) \/ CloseNext(p) \/ CloseStep(p)
         \/ Tick
  PROVE  QuietCallers /\ QuietWorkers
<1>1. ASSUME NEW p \in Pools, ClosePool(p) PROVE QuietCallers /\ QuietWorkers
  BY <1>1, SameWorkers, QuietWoken, ZenonT(120) DEF ClosePool, QuietCallers
<1>2. ASSUME NEW p \in Pools, CloseNext(p) PROVE QuietCallers /\ QuietWorkers
  <2>1. PICK w \in pool[p].closing :
          worker' = [worker EXCEPT ![w] = [worker[w] EXCEPT !.doomed = Doom(w)]]
    BY <1>2, ZenonT(120) DEF CloseNext
  <2>2. w \in Workers /\ worker[w] \in WorkerState  BY Fields
  <2>3. QuietWorkers  BY <1>2, <2>1, <2>2, SameCharge, KeepDoomed, ZenonT(120) DEF CloseNext
  <2> QED  BY <1>2, <2>3 DEF CloseNext, QuietCallers
<1>3. ASSUME NEW p \in Pools, CloseStep(p) PROVE QuietCallers /\ QuietWorkers
  BY <1>3, SameWorkers, ZenonT(120) DEF CloseStep, QuietCallers
<1>4. CASE Tick
  <2>1. \A w \in Workers : worker'[w].st = worker[w].st /\ worker'[w].key = worker[w].key
    BY <1>4, Fields DEF Tick, WorkerState
  <2> QED  BY <1>4, <2>1 DEF Tick, QuietCallers, QuietWorkers
<1> QED  BY <1>1, <1>2, <1>3, <1>4

\* An endpoint holds finitely many carriers.
LEMMA HeldFinite ==
  \A k \in Keys : IsFiniteSet(Held(k)) /\ Cardinality(Held(k)) \in Nat
BY WorkersFinite, FS_Subset, FS_CardinalityType DEF Held

\* A worker that stops counting gives its permit back.
LEMMA Discharge ==
  ASSUME TypeOK, PermitsExact, CarrierLimit, NEW w \in Workers, worker[w].st \in Charged,
         Release(w), NEW r, r.st \notin Charged, worker' = [worker EXCEPT ![w] = r]
  PROVE  PermitsExact' /\ CarrierLimit'
<1>0. permits \in [Keys -> Nat] /\ worker \in [Workers -> WorkerState]  BY DEF TypeOK
<1>1. ASSUME NEW k \in Keys
      PROVE  Held(k)' = Held(k) \ {w}
  BY <1>0 DEF Held
<1>2. ASSUME NEW k \in Keys, worker[w].key # k
      PROVE  Held(k)' = Held(k) /\ permits'[k] = permits[k]
  <2>1. w \notin Held(k)  BY <1>2 DEF Held
  <2> QED  BY <1>0, <1>1, <1>2, <2>1 DEF Release
<1>3. ASSUME NEW k \in Keys, worker[w].key = k
      PROVE  Cardinality(Held(k)') = Cardinality(Held(k)) - 1 /\ permits'[k] = permits[k] - 1
  <2>1. w \in Held(k)  BY <1>3 DEF Held
  <2>2. Cardinality(Held(k)') = Cardinality(Held(k)) - 1
    BY <1>1, <2>1, HeldFinite, FS_RemoveElement
  <2>3. Cardinality(Held(k)) # 0  BY <2>1, HeldFinite, FS_EmptySet
  <2>4. permits[k] >= 1  BY <1>0, <2>3, HeldFinite DEF PermitsExact
  <2>5. k # None  BY PoolAssumption
  <2>6. permits'[k] = permits[k] - 1  BY <1>0, <1>3, <2>4, <2>5 DEF Release
  <2> QED  BY <2>2, <2>6
<1>4. PermitsExact'  BY <1>2, <1>3 DEF PermitsExact
<1>5. ASSUME NEW k \in Keys, Held(k)' # {}
      PROVE  \E p \in Pools : Cardinality(Held(k)') <= MaxConnections[p]
  <2>1. Held(k) # {}  BY <1>1, <1>5
  <2>2. PICK p \in Pools : Cardinality(Held(k)) <= MaxConnections[p]
    BY <2>1 DEF CarrierLimit
  <2>3. MaxConnections[p] \in Nat  BY PoolAssumption
  <2>4. Cardinality(Held(k)') <= Cardinality(Held(k))  BY <1>2, <1>3, HeldFinite
  <2>5. Cardinality(Held(k)') <= MaxConnections[p]
    BY <1>2, <1>3, <2>2, <2>3, <2>4, HeldFinite
  <2> QED  BY <2>5
<1>6. CarrierLimit'  BY <1>5 DEF CarrierLimit
<1> QED  BY <1>4, <1>6

\* A dial that starts takes a permit if its endpoint has one left.
LEMMA Charge ==
  ASSUME TypeOK, PermitsExact, CarrierLimit, NEW w \in Workers, worker[w].st \notin Charged,
         NEW p \in Pools, NEW k, Available(p, k), Acquire(p, k), NEW r, r.st = "dialing",
         r.key = (IF MaxConnections[p] = 0 THEN None ELSE k), worker' = [worker EXCEPT ![w] = r]
  PROVE  PermitsExact' /\ CarrierLimit'
<1>0. /\ permits \in [Keys -> Nat] /\ worker \in [Workers -> WorkerState]
      /\ MaxConnections[p] \in Nat
  BY PoolAssumption DEF TypeOK
<1>1. ASSUME NEW j \in Keys, j # r.key
      PROVE  Held(j)' = Held(j) /\ permits'[j] = permits[j]
  <2>1. Held(j)' = Held(j)  BY <1>0, <1>1 DEF Held
  <2> QED  BY <1>0, <1>1, <2>1, ZenonT(120) DEF Acquire
<1>2. ASSUME NEW j \in Keys, j = r.key
      PROVE  /\ permits'[j] = permits[j] + 1
             /\ Cardinality(Held(j)') = permits'[j]
             /\ permits'[j] <= MaxConnections[p]
  <2>1. j # None  BY PoolAssumption
  <2>2. j = k /\ MaxConnections[p] # 0  BY <1>2, <2>1
  <2>3. permits'[j] = permits[j] + 1  BY <1>0, <2>2, ZenonT(120) DEF Acquire
  <2>4. permits[j] < MaxConnections[p]  BY <2>2 DEF Available
  <2>5. Held(j)' = Held(j) \cup {w}  BY <1>0, <1>2 DEF Held, Charged
  <2>6. w \notin Held(j)  BY ZenonT(120) DEF Held
  <2>7. Cardinality(Held(j)') = Cardinality(Held(j)) + 1
    BY <2>5, <2>6, HeldFinite, FS_AddElement, ZenonT(120)
  <2>8. permits[j] \in Nat /\ Cardinality(Held(j)) = permits[j]  BY <1>0, ZenonT(120) DEF PermitsExact
  <2> QED  BY <1>0, <2>3, <2>4, <2>7, <2>8
<1>3. PermitsExact'  BY <1>1, <1>2 DEF PermitsExact
<1>4. ASSUME NEW j \in Keys, Held(j)' # {}
      PROVE  \E q \in Pools : Cardinality(Held(j)') <= MaxConnections[q]
  <2>1. CASE j = r.key
    <3>1. Cardinality(Held(j)') <= MaxConnections[p]  BY <1>2, <2>1
    <3> QED  BY <3>1
  <2>2. CASE j # r.key  BY <1>1, <1>4, <2>2 DEF CarrierLimit
  <2> QED  BY <2>1, <2>2
<1>5. CarrierLimit'  BY <1>4 DEF CarrierLimit
<1> QED  BY <1>3, <1>5

\* A physical dial starts.
LEMMA DialStarts ==
  ASSUME PoolInv, NEW c \in Callers, NEW w \in Workers, AttemptDial(c, w)
  PROVE  DialsOwned' /\ PermitsExact' /\ CarrierLimit'
<1> DEFINE p == PoolOf[c]
<1>0. /\ TypeOK /\ p \in Pools
      /\ caller \in [Callers -> CallerState] /\ caller[c] \in CallerState
      /\ worker \in [Workers -> WorkerState]
  BY PoolAssumption DEF PoolInv, TypeOK
<1>1. /\ worker[w].st \in {"unused", "released"}
      /\ \A d \in Callers : caller[d].got # w
  BY DEF AttemptDial, Fresh
<1>2. PICK k :
        /\ Available(p, k) /\ Acquire(p, k)
        /\ worker' = [worker EXCEPT ![w] =
              [NoWorker EXCEPT !.st = "dialing", !.pool = p,
                               !.key = IF MaxConnections[p] = 0 THEN None ELSE k,
                               !.born = IF MaxDials = 0 THEN Window ELSE 0]]
  BY ZenonT(120) DEF AttemptDial
<1> DEFINE r == [NoWorker EXCEPT !.st = "dialing", !.pool = p,
                                 !.key = IF MaxConnections[p] = 0 THEN None ELSE k,
                                 !.born = IF MaxDials = 0 THEN Window ELSE 0]
<1>3. worker' = [worker EXCEPT ![w] = r]  BY <1>2
<1>4. r.st = "dialing" /\ r.key = (IF MaxConnections[p] = 0 THEN None ELSE k)
  BY DEF NoWorker
<1> HIDE DEF r
<1>5. PermitsExact' /\ CarrierLimit'
  <2>1. worker[w].st \notin Charged  BY <1>1, ZenonT(120) DEF Charged
  <2>2. PermitsExact /\ CarrierLimit  BY DEF PoolInv
  <2>3. Available(p, k) /\ Acquire(p, k)  BY <1>2
  <2> HIDE DEF p
  <2> QED  BY <1>0, <1>3, <1>4, <2>1, <2>2, <2>3, Charge, ZenonT(120)
<1>6. DialsOwned'
  <2>1. caller'[c].pc = "dial" /\ caller'[c].got = w
    BY <1>0 DEF AttemptDial, CallerState
  <2>2. \A d \in Callers : d # c => caller'[d] = caller[d]
    BY <1>0 DEF AttemptDial
  <2>3. worker'[w].st = "dialing"  BY <1>0, <1>3, <1>4, ZenonT(120)
  <2>4. \A v \in Workers : v # w => worker'[v] = worker[v]  BY <1>0, <1>3
  <2> QED  BY <1>1, <2>1, <2>2, <2>3, <2>4 DEF PoolInv, DialsOwned, At
<1> QED  BY <1>5, <1>6

\* A physical dial succeeds, for an open or a closed pool.
LEMMA DialSucceeds ==
  ASSUME PoolInv, NEW c \in Callers, DialOk(c) \/ DialLate(c)
  PROVE  DialsOwned' /\ PermitsExact' /\ CarrierLimit'
<1> DEFINE w == caller[c].got
<1>0. /\ TypeOK /\ worker \in [Workers -> WorkerState]
      /\ w \in Workers /\ worker[w] \in WorkerState /\ worker[w].st = "dialing"
      /\ caller[c].pc = "dial"
  BY ZenonT(120) DEF PoolInv, TypeOK, DialsOwned, At, DialOk, DialLate
<1>1. PICK st \in {"live", "closing"} : worker' = [worker EXCEPT ![w] = [worker[w] EXCEPT !.st = st]]
  BY DEF DialOk, DialLate
<1>2. [worker[w] EXCEPT !.st = st].st = st /\ [worker[w] EXCEPT !.st = st].key = worker[w].key
  BY <1>0 DEF WorkerState
<1>3. /\ worker'[w].st = st /\ worker'[w].key = worker[w].key
      /\ \A v \in Workers : v # w => worker'[v] = worker[v]
  BY <1>0, <1>1, <1>2, ZenonT(120)
<1>4. \A k \in Keys : Held(k)' = Held(k)
  BY <1>0, <1>3, ZenonT(120) DEF Held, Charged
<1>5. PermitsExact' /\ CarrierLimit'
  BY <1>4 DEF PoolInv, PermitsExact, CarrierLimit, DialOk, DialLate
<1>6. QuietCallers /\ caller'[c].pc # "dial"
  <2>1. CASE DialOk(c)
    <3>1. c \in Flown(c)  BY ZenonT(120) DEF Flown
    <3>2. PICK next \in {"resGrow", "resFlight"} : Return(c, next, w)  BY <2>1 DEF DialOk
    <3> QED  BY <3>1, <3>2, QuietReturn, ZenonT(120) DEF Return
  <2>2. CASE DialLate(c)
    <3>1. Goto(c, "abort")  BY <2>2 DEF DialLate
    <3>2. caller'[c].pc # "dial"  BY <1>0, <3>1, ZenonT(120) DEF Goto, TypeOK, CallerState
    <3> QED  BY <1>0, <3>1, <3>2, QuietGoto
  <2> QED  BY <2>1, <2>2, ZenonT(120)
<1>7. DialsOwned'
  BY <1>0, <1>3, <1>6 DEF PoolInv, DialsOwned, QuietCallers, At
<1> QED  BY <1>5, <1>7, ZenonT(120)

\* A physical dial fails.
LEMMA DialFails ==
  ASSUME PoolInv, NEW c \in Callers, DialFail(c)
  PROVE  DialsOwned' /\ PermitsExact' /\ CarrierLimit'
<1> DEFINE w == caller[c].got
<1>0. /\ TypeOK /\ worker \in [Workers -> WorkerState]
      /\ caller \in [Callers -> CallerState] /\ caller[c] \in CallerState
      /\ w \in Workers /\ worker[w].st = "dialing" /\ caller[c].pc = "dial"
  BY DEF PoolInv, TypeOK, DialsOwned, At, DialFail
<1>1. worker' = [worker EXCEPT ![w] = NoWorker] /\ Release(w)  BY DEF DialFail
<1>2. PermitsExact' /\ CarrierLimit'
  <2>1. worker[w].st \in Charged /\ NoWorker.st \notin Charged  BY <1>0, ZenonT(120) DEF Charged, NoWorker
  <2> QED  BY <1>0, <1>1, <2>1, Discharge, ZenonT(120) DEF PoolInv
<1>3. /\ caller'[c].pc # "dial"
      /\ \A d \in Callers : d # c => caller'[d] = caller[d]
  BY <1>0 DEF DialFail, CallerState
<1>4. \A v \in Workers : v # w => worker'[v] = worker[v]  BY <1>0, <1>1
<1>5. DialsOwned'
  BY <1>0, <1>3, <1>4 DEF PoolInv, DialsOwned, At
<1> QED  BY <1>2, <1>5

\* worker.close returns the permit.
LEMMA PermitReturns ==
  ASSUME PoolInv, NEW w \in Workers, ReleasePermit(w)
  PROVE  DialsOwned' /\ PermitsExact' /\ CarrierLimit'
<1>0. TypeOK /\ worker \in [Workers -> WorkerState] /\ worker[w] \in WorkerState
  BY DEF PoolInv, TypeOK
<1> DEFINE r == [worker[w] EXCEPT !.st = "freed"]
<1>1. worker' = [worker EXCEPT ![w] = r] /\ Release(w) /\ worker[w].st = "closing"
  BY DEF ReleasePermit
<1>2. r.st = "freed"  BY <1>0, ZenonT(120) DEF WorkerState
<1> HIDE DEF r
<1>3. PermitsExact' /\ CarrierLimit'
  <2>1. worker[w].st \in Charged /\ r.st \notin Charged  BY <1>1, <1>2, ZenonT(120) DEF Charged
  <2> QED  BY <1>0, <1>1, <2>1, Discharge, ZenonT(120) DEF PoolInv
<1>4. \A v \in Workers : v # w => worker'[v] = worker[v]  BY <1>0, <1>1
<1>5. DialsOwned'
  BY <1>1, <1>4 DEF PoolInv, DialsOwned, At, ReleasePermit
<1> QED  BY <1>3, <1>5

-----------------------------------------------------------------------------
(* The theorems *)

\* The initial state satisfies the invariant.
LEMMA InvInit == Init => PoolInv
<1> SUFFICES ASSUME Init PROVE PoolInv
  OBVIOUS
<1>1. \A k \in Keys : Held(k) = {}  BY DEF Init, NoWorker, Held, Charged
<1>2. PermitsExact /\ CarrierLimit
  BY <1>1, FS_EmptySet, ZenonT(120) DEF Init, PermitsExact, CarrierLimit
<1>3. DialsOwned  BY DEF Init, AtRest, DialsOwned, At
<1> QED  BY <1>2, <1>3, TypeInit DEF PoolInv

\* Every step keeps the invariant: it is quiet, or it charges or frees one carrier.
LEMMA InvStep == PoolInv /\ [Next]_vars => PoolInv'
<1> SUFFICES ASSUME PoolInv, [Next]_vars PROVE PoolInv'
  OBVIOUS
<1> DEFINE Rest == DialsOwned' /\ PermitsExact' /\ CarrierLimit'
<1>0. TypeOK /\ DialsOwned /\ PermitsExact /\ CarrierLimit  BY DEF PoolInv
<1>1. QuietCallers /\ QuietWorkers => Rest  BY <1>0, QuietKeeps, ZenonT(120)
<1> HIDE DEF Rest
<1>2. ASSUME NEW c \in Callers,
             Start(c) \/ Cancel(c) \/ DialStep(c) \/ DialEnds(c) \/ SessionStep(c) \/ OpenFails(c)
      PROVE  Rest
  <2>1. CASE \E w \in Workers : AttemptDial(c, w)  BY <2>1, DialStarts DEF Rest
  <2>2. CASE DialEnds(c)  BY <2>2, DialSucceeds, DialFails, ZenonT(120) DEF DialEnds, Rest
  <2>3. CASE \/ AttemptClosed(c) \/ AttemptReuse(c) \/ AttemptRefused(c)
             \/ AbortReturn(c) \/ FailReturn(c)
    BY <1>0, <1>1, <2>3, QuietAttempts, ZenonT(120)
  <2>4. CASE SessionStep(c) \/ OpenFails(c)
    BY <1>0, <1>1, <2>4, QuietSessions, ZenonT(120) DEF SessionStep
  <2>5. CASE \/ Start(c) \/ Cancel(c) \/ LoopCancelled(c) \/ WantGrow(c)
             \/ TrySoft(c) \/ ReserveSoft(c) \/ TryHard(c) \/ ReserveHard(c) \/ ReserveDialed(c)
             \/ JoinFlight(c) \/ WaitForSlot(c) \/ CancelWakes(c)
    BY <1>0, <1>1, <2>5, QuietDialSession, ZenonT(120)
  <2> QED  BY <1>2, <2>1, <2>2, <2>3, <2>4, <2>5, ZenonT(120) DEF DialStep
<1>3. ASSUME NEW w \in Workers, CarrierFails(w) \/ IdleFires(w) \/ CloseWorkerStep(w)
      PROVE  Rest
  <2>1. CASE ReleasePermit(w)  BY <2>1, PermitReturns, ZenonT(120) DEF Rest
  <2>2. CASE \/ CarrierFails(w) \/ CloseDoomed(w) \/ IdleFires(w)
             \/ SignalReleased(w) \/ \E c \in Callers : FinishSnapped(w, c)
    BY <1>0, <1>1, <2>2, QuietCloses
  <2> QED  BY <1>3, <2>1, <2>2, ZenonT(120) DEF CloseWorkerStep
<1>4. ASSUME \/ \E p \in Pools : ClosePool(p) \/ CloseNext(p) \/ CloseStep(p)
             \/ Tick
      PROVE  Rest
  <2>1. QuietCallers /\ QuietWorkers  BY <1>0, <1>4, QuietPools
  <2> QED  BY <1>1, <2>1, ZenonT(120)
<1>5. ASSUME UNCHANGED vars PROVE Rest
  <2>1. worker' = worker /\ permits' = permits /\ caller' = caller  BY <1>5 DEF vars
  <2>2. QuietCallers /\ QuietWorkers  BY <2>1, SameWorkers, ZenonT(120) DEF QuietCallers
  <2> QED  BY <1>1, <2>2
<1>6. Rest  BY <1>2, <1>3, <1>4, <1>5, ZenonT(120) DEF Next
<1>7. TypeOK'  BY <1>0, TypeStep
<1> QED  BY <1>6, <1>7 DEF PoolInv, Rest

\* Every reachable state satisfies the invariant.
THEOREM PoolInvariant == Spec => []PoolInv
BY InvInit, InvStep, PTL DEF Spec

\* The variables of client.go's pool keep their types: in particular the dial
\* budget and the permit counters never go below zero.
THEOREM TypeCorrect == Spec => []TypeOK
<1>1. PoolInv => TypeOK  BY DEF PoolInv
<1> QED  BY <1>1, PoolInvariant, PTL

\* globalPermits is the exact number of carriers and dials in flight of every
\* endpoint, however many pools, callers and carriers there are.
THEOREM PermitsAreExact == Spec => []PermitsExact
<1>1. PoolInv => PermitsExact  BY DEF PoolInv
<1> QED  BY <1>1, PoolInvariant, PTL

\* An endpoint never has more carriers and dials in flight than the largest
\* max-connections of the pools that dial it.
THEOREM CarriersAreLimited == Spec => []CarrierLimit
<1>1. PoolInv => CarrierLimit  BY DEF PoolInv
<1> QED  BY <1>1, PoolInvariant, PTL
=============================================================================
