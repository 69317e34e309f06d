# A TLA+ development for cheezy-core

cheezy-core is a rule-based proxy core (a fork of mihomo). Listeners accept
connections and packets, the tunnel matches them against rules, a proxy or a
proxy group is chosen, and an outbound carries them. This directory models the
parts of it whose correctness depends on the order of steps: goroutines around
pools, queues and timers, protocols over a network that loses messages, and state
that must survive a crash. The models are checked with TLC on small instances, and
the central safety properties of six of them are proved with TLAPS for every instance.
Paths are relative to `src/`.

## 1. The system

| part | module | state | what makes it hard |
|---|---|---|---|
| Mux pool (`adapter/outbound/xraymux/client.go`, `Pool`) | `XrayPool` | workers, dial times, `dialMu`, singleflight group, waiters; process-wide permits per endpoint | several pools share the permits; dials run without the lock; waiting for a slot; close during a dial |
| Mux worker (`worker`, `session`) | `XrayWorker` | session map, uses, idle timer, two `sync.Once` bodies | ends from three sides race; onces that call each other; New against timer against Close |
| session pipe (`sessionPipe`) | `SessionPipe`, `ByteFifo` | chunks, byte count, closed, deadline | one condition variable for both sides, `Signal`, partial reads |
| AntiLag flow (`adapter/outboundgroup/antilag_udp.go`) | `AntiLagFlow` | active and reserve path, switch gate, failures channel | a reserve swapped while it is promoted; stale failure reports; close at any point |
| UDP sender and NAT table (`tunnel/connection.go`, `component/nat`) | `PacketSender` | queue, closed, entry per source | admission against close; two deletions of an entry by key; expiry during resolution |
| url-test group (`outboundgroup/urltest.go`, `groupbase.go`, `common/singledo`) | `ProxyGroup` | cached proxy list, kept result, selected node | a result computed before `Set` or an update and kept after it |
| power saving (`component/powersave`) | `PowerSave` | mode, change channel | mode and broadcast are two steps |
| health check (`adapter/provider/healthcheck.go`) | `HealthCheck` | timer, schedule, last check, single flight | mode change against timer; a tick left in the channel |
| traffic sampler (`tunnel/statistic/manager.go`) | `Sampler` | counters, paused flag, wake token | traffic counted while the sampler falls asleep |
| idle sweep (`tunnel/powersave.go`, `adapter/outbound/idle.go`) | `IdleSweep` | session activity | acquire and release against the sweep |
| TUIC pool (`transport/tuic`) | `TuicPool` | clients, QUIC connections, stream counts | a sweep against a dial that was just given its client |
| mKCP (`transport/mkcp`) | `Mkcp` | windows, acknowledgements, seven states at each end | loss, duplication, reordering, half-closed ends |
| OpenVPN control channel (`transport/openvpn/control.go`) | `OpenVpnControl` | numbering, acknowledgements, key epoch | a rekey meets late messages of the epoch before |
| concurrent map (`common/xsync/map.go`) | `XsyncMap` | tables, bucket locks, resize control | lock-free reads and helping writers during a resize |
| fake-IP pool (`component/fakeip`) | `FakeIP` | two mappings, position in the circle | flush without the lock; a crash with an older position |
| resource fetcher (`component/resource`) | `Fetcher` | hash, ETag, file, served content | overtaking answers; crash between ETag and file |

How they interact: the tunnel calls an outbound's `DialContext` under a
context with a timeout; for a VLESS outbound with `xray-mux` this is the pool's
`dialSession`, which gives back a session of a worker. Bytes the application
writes become frames on the carrier; the worker's read loop pushes the peer's
payloads into the sessions' pipes and ends sessions; the end of a session frees a
slot and wakes callers of the pool. The pools of different outbounds meet in the
permit registry only. For UDP the tunnel keeps a sender per source, whose outbound
may be an AntiLag socket; that socket binds each destination to a flow of its own.
A group asks its providers for their proxies; a provider's health check, the
traffic sampler and the sweep of idle sessions all follow the power-save mode and
read it in the same order, first `Changed` and then the mode.

`PROJECT.json` lists every component with what is left out and why, and the
hazards of the code with the properties that watch them.

## 2. Modules

    ByteFifo            abstract: a bounded FIFO of bytes
      ^ refined by
    SessionPipe         run by MCNetwork                proved in SessionPipeProofs
    XrayPool            run by MCMux, MCRelay,          proved in XrayPoolProofs,
                        MCXrayPool                        XrayCarrierProofs
    XrayWorker          run by MCMux, MCRelay, MCXrayWorker
    PacketSender        run by MCRelay                  proved in PacketSenderProofs
    AntiLagFlow         run by MCAntiLagFlow            proved in AntiLagSwitchProofs,
                                                          AntiLagFlowProofs
    Mkcp                run by MCOutbounds, MCNetwork   proved in MkcpProofs
    HealthCheck         run by MCBackground             proved in HealthCheckProofs
    Sampler, IdleSweep  run by MCBackground
    PowerSave           extended by HealthCheck, Sampler, IdleSweep
    XsyncMap            run by MCBackground
    ProxyGroup          run by MCOutbounds
    TuicPool            run by MCOutbounds, and directly
    FakeIP              run by MCOutbounds, MCFakeIP
    OpenVpnControl      run by MCOutbounds, MCNetwork
    Fetcher             run by MCBackground

An MC module with several components runs one of them per behaviour: `which`,
chosen at the start, says whose steps are taken while the others keep still. The
state graphs are therefore disjoint and each component is checked as if alone. A
liveness property of such a run has the fairness of its component as its premise.

The three Mux components are layered as the code is: `XrayPool` sees of a worker
what the pool does (room, uses, closed, the two onces); `XrayWorker` sees of a
pipe how many chunks it holds; `SessionPipe` has the bytes.

### XrayPool

`pool`, `worker`, `caller` and `permits` stand for the `Pool` structs, the
`worker` structs, the goroutines in `dialSession` (from "open" on: the session
they got) and `globalPermits.counts`. One step is one critical section of `p.mu`
or `w.mu`, or the end of a physical dial. A caller's `pc` names the place in
`dialSession`:

- `Start`, `LoopCancelled`, `WantGrow`: the loop head and the decision to grow;
- `TrySoft`/`ReserveSoft`, `TryHard`/`ReserveHard`: `tryReserve` with the soft
  and the hard limit, in two steps because the worker is looked at and reserved
  in two `w.mu` sections (the pool's lock is kept, `pool[p].mu`);
- `JoinFlight`, `Attempt*`, `DialOk`, `DialLate`, `AbortReturn`, `DialFail`,
  `FailReturn`: `dialWorkerNew` and the singleflight body of `dialWorker`;
- `WaitForSlot`, `CancelWakes`: `waitForSlot` and the `AfterFunc` on its context;
- `OpenSession`, `OpenFails`, `AbandonSession`, `RemoveSession`,
  `AlreadyFinished`, `SignalFree`, `SignalRetire`, `CloseReturns`: a session's
  open and its end;
- `CarrierFails`, `IdleFires`, `CloseDoomed`, `FinishSnapped`, `ReleasePermit`,
  `SignalReleased`: the ways into `worker.close` and its body;
- `ClosePool`, `CloseNext`, `CloseStep`: `Pool.Close`;
- `Tick`: time, for the dial budget only.

Worker slots are reused once nothing refers to them (`Fresh`), so a bounded set
of slots stands for an unbounded succession of carriers and the state space is
finite without bounding the number of dials.

Abstractions: the loop over workers in `tryReserve` and in `dialWorker` is one
read of all of them, although the code looks at one `w.mu` after the other; the
reserve that follows checks again, which is where a stale reading would show. The
order of the `workers` slice is dropped: any least loaded worker, any with room,
may be taken. A carrier that fails between `newWorker` and its publication is
taken to fail right after. The endpoint a dial is charged to is any of `Keys`, as
`endpointKey` resolves a name and may answer differently each time. `XrayPool`
knows of a session only whether its once was entered and by whom.

### XrayWorker

`carrier` is the `worker` struct, `session` the `session` structs with the
goroutine in `Write`, `reader` the read loop, `budget` the bounds. A `sync.Once`
is a stage (`fin` of a session, `close` of the carrier): whichever goroutine
entered takes its steps, every other call waits for "done". `Reserve`, `Open`,
`OpenFails`, `Abandon` open a session; `WriteCall`, `WriteNew`, `WriteKeep`,
`WriteFailed`, `TimerFires`, `TimerNew` write; `FinStop` ... `FinRetired` are
`finishWithCause` line by line; `StartClose` ... `CloseRelease` are
`worker.close`; `Receive`, `Deliver`, `ReaderFinish`, `ReadFails`, `ReaderExit`
are `readLoop`. `Break` is the carrier's connection failing.

Abstractions: a payload is a count of chunks, since nothing at this level looks
into it; keep-alive frames, deadlines on writes and the uplink's frame sizes are
left out, as they change none of this state; a long `Write` goes on chunk by
chunk without looking at `s.done`, as in the code (`Written`). `StartClose`
takes the `w.mu` section and `conn.Close` in one step. `Packets` are the sessions
of `ListenPacketContext` and `DialUDPContext`, whose `New` waits for the first
datagram. The downlink buffer between `carrierFill` and `readLoop` is a delay
that the peer's freedom to send whenever it likes already covers.

### SessionPipe and ByteFifo

`SessionPipe` has the chunks, `nbytes`, the closed flag, one writer and one
reader; it models a session's download pipe and the carrier's downlink, which are
the same type. A chunk is never longer than the limit, as the
frames and read buffers of the code guarantee. Every byte is a number in the order
of writing, so that order and loss show. `ByteFifo` says what the outside may rely
on: bytes come out in the order they went in, none twice, none invented, and after
the end nothing enters. `RefinesFifo` maps the concatenated chunks to its queue.

### PacketSender

One source, so one key of the NAT table and one ingress queue. `ingress`, `hand` and
`dest` are the queue and the worker between `GetOrCreate` and `Send`; `table` is the
entry; the other variables are functions of the sender object. `dialer` is the
goroutine that dials and then runs `Process`, `reader` is `handleUDPToLocal`.
`Arrive`, `Worker*` and `Send` are the tunnel's side, `Dial*`, `Dialer*` and
`Process*` the first goroutine, `Reader*` the second. `Close` is two parts, as in
the code: the section of `queueMutex` and the `dropAll` loop, one packet per step,
which runs against `Process` on the same channel.

Abstractions: a packet's age is left open, a stamped packet may be found expired at
either check; `ProcessResolve` may fail for any reason; replies leave this state
alone, so that of the reader's loop only its end is an action. Packets and sender
objects are reused once nothing refers to them. The destination NAT mapping, the
sniffing wrapper and the local connections of TProxy are left out.

### AntiLagFlow

`active`, `reserve`, `closed` and `known` (in the group's table) are the flow; `gate`
is `switchGate`, `sw` the locals of the one `change` behind it, `warm` the locals of
the one `warm` that got past the `warming` flag. The callers of `change` are the
receive goroutines (named by their path), the writer and `Control`, which is a manual
`Failover` or the monitor; `pc` says where each is. `Init` is `binding` calling
`change` for the first path. A step is a section of `f.mu`, the end of a dial, or the
closing of paths that nobody else refers to; `close()` is one step: closing a path is
idempotent, and whoever still holds one of its paths takes `f.mu` and finds `f.closed`
set before it acts on it.

Abstractions: the ranking is left open, so `change` tries the candidates in any order
and may skip any of them, as cooling down or as not to be dialled. The code finds the
standby among the candidates by its proxy object, which an update of a provider
replaces; then the node of the standby is a candidate like any other, so that `change`
and `warm` may dial the name anew beside the standby. Timeouts strike whenever `change`
waits or dials; a path's death shows only while it is active, because only then does
anyone look. Of packets nothing is modelled: `receive` and `WaitReadFrom` matter here
for the failures they pass on, and a write is its outcome. The socket has one flow.

### PowerSave, HealthCheck, Sampler, IdleSweep

`PowerSave` is the mode and its broadcast. `Set` is two steps, the swap of the mode
and the closing of the channel, because `Current` does not take the lock; a waiter's
channel is the flag `woken`. The other three extend it, and each is a goroutine that
takes the channel first and reads the mode second.

`HealthCheck` is `processPowerSave` step by step (`TakeChanged`, `ReadMode`, `Arm`,
`Select*`, `OnTick`, `DoCheck`), the timer with a tick that may lie in its channel,
and the singledo through which others check as well. Time is `Tick`; ages saturate at
the longer interval. `Sampler` is `Manager.handle` and the wake-up in `PushUploaded`
and `PushDownloaded`; a counter is zero or not, and a tick may come at any moment.
`IdleSweep` is `sweepIdleSessions` over one Hysteria2 outbound with its
`sessionActivity`.

### XsyncMap

The operations of a goroutine at the level of what is atomic in Go: a load of the
table pointer, a bucket lock, a write under it, each step of `resize`, `transfer` and
`helpResize`. A chain of buckets is the set of keys that hash to it, so that a lookup
in one table is one step. `seen` is history: the values a key has had during a call.

### TuicPool

`pool`, `client`, `conn` and `stream` are the TCP list of `PoolClient`, its v5
clients, their QUIC connections and the dials. A dial is `GetClient`/`NewClient`,
`GetQuicConn`, `CountStream` (and `TooManyOpenStreams`, which takes the count back),
`OpenStream`; `useMutex` is held for reading at `InDial`, which is what `CloseIdle` has
to wait for. `OpenStream` may fail on a connection that is up; that error is taken not
to be a `net.Error`, which QUIC (external) gives for a connection that has ended, and
leaves the connection alone. Ages are fresh, idle and expired;
a client does not get old during a dial, which ends within seconds.

### Mkcp

A `Conn` at either end (`ep`), the datagrams under way (`net`), and the listener's
sessions. `Input` with its three kinds of segments is an operator on a `Conn`, as in
the code; `Flush` sends any part of what may be due and moves the state when a
timeout may have run out. A segment is its number. RTT and congestion estimates only
decide when a segment is sent, which is left open. `cut` is history: the stream was
given up on purpose or by a timeout, so that nothing is promised any more.

### OpenVpnControl

The client's channel (`c`), the server (`s`, external: the reliability layer of
OpenVPN seen from the client), the datagrams. `Write`, `SendAck`,
`RetransmitPending`, `Read`, `Watch`, `ReadBuffered`, `TakeReset`, `Established`,
`ProbeEnds`, `SendSoftReset` are the client's steps through a key epoch, with its
window, its list of acknowledgements and the recently sent ones that ride along. Until
the server's hard reset has told the client the session, `FromServer` drops the rest.

### FakeIP

`Lookup` is a hit, or a miss of up to three writes (`TakeAway`, `PutByIP`,
`PutByHost`) under `p.mux`, the last of the address that `get` has read back from
`p.offset` (`GetReturns`); `FlushStore`, `FlushIPs` and `FlushReset` are
`FlushFakeIP`, which does not take it. Both stores are modelled: LRU caches in memory,
whose eviction forgets halves of entries, and the cache file, which survives `Crash`
while the position does not. `Restart` may find another range in the configuration: a
saved position outside its network flushes the store, one inside but outside the usable
addresses is taken over.

### ProxyGroup

`call` is where each caller of `fast`, `Set` or `ForceSet` is; `single` and `result`
are the `singledo.Single`, `cache` and `locked` the list of `GetProxies`. A proxy
object is a name and the generation of its provider, since an update replaces every
object; it may also drop names or bring them back (`listed`). `URLTest` results and `healthCheck` come at any time.

### Fetcher

`Update` of the pull loop and of the API at once: `f.hash` is read, then (`Ask`) the
stored ETag for a conditional request, then come the answer, `SetETag` in the database,
`loadBuf` under its mutex, the file truncated and written. Requests fail, writes fail
before or after the truncation, `Crash` comes between any two
steps, and the process starts again from the file or the bundle.

## 3. Runs

Deadlock checking is off: the systems may stop, when the bounded callers, writes,
frames or versions are used up or after `Close`.

| run | instances | checks |
|---|---|---|
| mux | `XrayPool`: 2 pools with one caller each at 1 endpoint, 2 worker slots, max-connections 1, max-uses 1; 1 pool with 2 callers, max-connections 2, max-uses 1, 1 dial per window of 2 ticks; 1 pool with 2 callers and 1 worker slot, max-uses 2, eager New. `XrayWorker`: a TCP and an XUDP session, eager New with a frame of the peer, lazy New with a write | `PermitsExact`, `CarrierLimit`, `NoCarrierAfterClose`, `PoolLimits`, `CarrierAccounted` |
| relay | `PacketSender`: 2 packets, 2 sender objects, both queues of 1. `XrayWorker`: 1 session, pipe of 1 chunk, eager New with 1 write and 2 frames, lazy New with 2 writes and 1 frame. `XrayPool`: 1 pool, 2 callers, 1 worker slot, max-uses 1 | `OwnEntry`, `DroppedOnce`, `ExpiryCovers`, `NewFirst`, `NoTruncation`, `SenderDone`, `SessionEnds`, `DialReturns`, `CloseReturnsOrStuck` |
| network | `SessionPipe`: limit 4, chunks up to 3, reads up to 4, 7 bytes. `Mkcp`: 2 segments, both unacknowledged at once, 1 datagram each way. `OpenVpnControl`: 2 rekeys | `NoLostWakeup`, `RefinesFifo`, `PipeReturns`, `WrittenArrives`, `RekeyCompletes` |
| outbounds | `ProxyGroup`: 2 names, 2 callers, with 2 updates, with 1 test and 1 pick after the first load, or with an update and 1 pick after it; an update has both names or one. `TuicPool`: 2 clients, with 2 dials over 2 connections each or 3 dials over 1. `Mkcp`: 2 segments, 2 datagrams to the server. `OpenVpnControl`: 2 rekeys and late pushes. `FakeIP`: 3 hosts, 3 addresses, either store, 1 flush, 2 restarts, after which the range may be a smaller one inside or one elsewhere | `FreshList`, `PickHonoured`, `DialNotCut`, `AckedIsReceived`, `CleanEof`, `ControlReliable`, `ResetIsAcked`, `LookupTakenBack` |
| background | `XsyncMap`: 3 goroutines with 3 scripts of calls, 3 keys, buckets of 1, 2 helpers. `HealthCheck`: intervals 2 and 3. `Sampler`: 2 pushers. `IdleSweep`: 2 dials. `Fetcher`: 4 published contents, one of them broken and one a roll-back, 2 callers, 2 crashes | `SizeExact`, `ResizeKeepsAll`, `LookupLegal`, `CallsReturn`, `SpacedChecks`, `LoopFollowsMode`, `SamplerPublishes`, `UnusedSessionClosed`, `Converges` |
| antilag_safe | 3 nodes, 3 paths (symmetric), switches by hand and by the monitor, an application that reads | `NoPathLeak`, `PathsInOrder`, `ReaderTold` |
| antilag_live | 2 nodes, 2 paths, an application that writes | `BrokenReplaced` |
| pool_close | 1 pool, 1 caller, 1 worker slot, max-uses 1 | `PoolCloseReturns`: violated |
| pool_waiter | as pool_close, 2 patient callers | `WaiterUnblocked`: violated |
| worker_sibling | 2 sessions on a reliable carrier | `SiblingsSurvive`: violated |
| tuic_cut | 1 client, 2 connections, 2 streams | `StreamNotCut`: violated |
| fakeip_flush | 2 hosts, 2 addresses, the cache file, 1 flush | `LookBackRight`: violated |

Why the bounds are enough. The permits and the close protocol are about two
parties: two pools at one endpoint, or two callers of one pool, one of whom
dials, holds a session or closes while the other is anywhere else; two worker
slots let one carrier be closing while its successor dials. The limits are the
smallest at which both sides of each comparison happen: one or two carriers, one
or two uses, one dial per window and a window of two ticks so that a dial can be
half aged. The pipe's limit of 4 with chunks of 3 makes a chunk that fits, one
that does not, and one split by a read; seven bytes let it fill twice. One write
more or one frame more on the worker repeats a cycle of the session's states.
Two packets and queues of one let one packet wait, in either queue or in a goroutine's
hands, while the other is refused; two sender objects let an old one wind down under
its successor. What more packets could do is covered by the theorems of
`PacketSenderProofs`. Three nodes are needed for `warm` to replace a standby, and three
paths for an active one, a borrowed standby and the one being prepared; a fourth path,
or the writer besides operator and reader, does not fit in the time of a run. The
action constraint `OneThingAtATime` bounds antilag_safe further: while a failure is
being reported to the reader no new switch by hand begins (one under way goes on), and
a reader that has given up ends the behaviour. The proofs of the same three invariants
have neither bound.

Three dials and two clients of the TUIC pool let one client be in a dial, one expire
and a third dial trigger the expiry; two connections each let a client reconnect. Two segments of mKCP and two datagrams to the
server are the least in which segments overtake each other and an acknowledgement
arrives after its window has moved. The run of `WrittenArrives` has one datagram each
way: there the second segment arrives before the first when the first is lost and sent
again, while two datagrams that overtake each other are left to the safety run and to
the proofs. In the runs a conversation that was cut takes no
further step, since every property of it holds from there on by its premise. Two rekeys of OpenVPN let a message of one epoch
arrive in the next and in the one after. The map's buckets of one entry make every
second store grow it; its three scripts are a grow with lookups, a shrink with a
clear, and writers that help. Of a `Clear`, which only tests call, nothing more is
checked than that it returns and that the calls around it keep their promises. Three
addresses and three hosts make the fake-IP circle
wrap; two restarts let a crash follow a shutdown. The smaller range lies so that the
saved position may be below its first address or its broadcast address. Four contents of the fetcher contain
one that does not parse and a return to an earlier one, whose ETag comes back.

Fairness. `Fairness` in XrayPool is strong for a caller's steps: they need a
mutex, and Go's mutex hands itself over to a goroutine that has waited for a
millisecond, so a step enabled again and again is taken. A dial ends because it
runs under a context. A session's steps include its application closing it in
the end. `Deadlines` adds that a caller's context ends (the tunnel gives it
`C.DefaultTCPTimeout`); pool_waiter leaves it out, for callers with a background
context. `Fairness` of the worker and of the pipe says that started goroutines
run, and that an application reads its connection to the end or closes it.
In PacketSender the worker, the dialling goroutine (its dial has a timeout and a write
to the outbound returns) and the reader's clean-up run; in AntiLagFlow the goroutines
run, dials end, and a socket whose context is cancelled is closed (`Close` does one
after the other). In HealthCheck, Sampler and IdleSweep the loops run, timers expire
and `Set` completes; taking the channel is strongly fair as it needs a mutex. In mKCP
and OpenVPN tickers go on and the network is fair: a kind of datagram that is sent
again and again gets through again and again, which a network that delivers at all
does. In the fetcher the loop's timer fires again and its requests, its writes and its
turn at the mutex do not fail for ever. In the map every goroutine runs. The reader's
loop ending, paths dying, requests, carrier failure, the peer, new calls, other modes,
traffic and `Pool.Close` are never assumed to happen.

### What the violation runs show

1. **`Pool.Close` may not return** (`pool_close`). `worker.close` finishes its
   sessions inside `closeOnce`; finishing a session calls `removeSession`, which
   sees the emptied map and, once the worker has served `max-uses` sessions, calls
   `w.close`: the goroutine waits for the once it is in (lines 663, 671, 703). The
   permit is never returned either. Two threads reach the same knot with a
   session's once and `closeOnce` in opposite order; `CloseReturnsOrStuck` and
   `SessionEnds` show that these two knots are the only ways to hang.
2. **A waiter may sleep although a carrier could be dialled** (`pool_waiter`).
   `waitForSlot` looks for room on existing workers only (487-501). A caller that
   was refused a permit and comes to it just after the last carrier retired finds
   none, and nobody signals again. Its context's end frees it (`DialReturns`).
3. **A write that races the close of its own session closes the carrier**
   (`worker_sibling`). `writeNew` answers a session being closed with an error and
   `Write`, `WriteTo` and the timer close the worker on any error (1032, 1216,
   1334), under all its other sessions.
4. **A reconnected TUIC client may be swept with a stream open** (`tuic_cut`).
   `getQuicConn` sets the stream counter to zero for a new connection
   (`v5/client.go:90`), and the streams of the lost one still count down when they
   end (`v5/client.go:325`): `CloseIdle` then sees no stream. A dial in progress is
   safe (`DialNotCut`).
5. **A flush may leave a host with an address that does not lead back**
   (`fakeip_flush`). `FlushFakeIP` does not take `p.mux`; between the two writes of a
   `Lookup` it removes one half. Without such a meeting the address always leads back,
   through evictions and crashes (`LookupTakenBack`).


## 4. Proofs

Every theorem holds for all values of the constants that satisfy the named
assumptions. Each rests on one inductive invariant, because the property itself says
too little about the state before a step.

| module | theorem | says | from |
|---|---|---|---|
| `XrayPoolProofs` | `TypeCorrect` | `Spec => []TypeOK` | `PoolAssumption`, `WorkersFinite` |
| | `PermitsAreExact` | `Spec => []PermitsExact` | |
| | `CarriersAreLimited` | `Spec => []CarrierLimit` | |
| `XrayCarrierProofs` | `NoCarrierAfterCloseHolds` | `Spec => []NoCarrierAfterClose` | the same |
| | `SessionLimitsHold` | `Spec => []SessionLimits` | |
| `SessionPipeProofs` | `NoLostWakeupHolds` | `Spec => []NoLostWakeup` | none |
| `PacketSenderProofs` | `EntryIsOwn` | `Spec => []OwnEntry` | `SenderAssumption` |
| | `DroppedOnceHolds` | `Spec => []DroppedOnce` | |
| | `ExpiryCoversHolds` | `Spec => []ExpiryCovers` | |
| `AntiLagFlowProofs` | `NoPathLeakHolds` | `Spec => []NoPathLeak` | `FlowAssumption`, `CallerAssumption` |
| | `PathsInOrderHolds` | `Spec => []PathsInOrder` | |
| | `ReaderToldHolds` | `Spec => []ReaderTold` | |
| `MkcpProofs` | `AckedIsReceivedHolds` | `Spec => []AckedIsReceived` | `KcpAssumption` |
| | `CleanEofHolds` | `Spec => []CleanEof` | |
| `HealthCheckProofs` | `SpacedChecksHolds` | `Spec => SpacedChecks`, an action property | `HealthAssumption` |

**The pool's permits.** `PoolInv == TypeOK /\ DialsOwned /\ PermitsExact /\
CarrierLimit`. `TypeOK` is not inductive: when a dial ends, the type of the new state
depends on the dialling caller having a worker, and the exactness of the permits on
that worker still being the one it was charged for. `DialsOwned` says so: every caller
at "dial" has a slot in state "dialing", different callers have different slots.
`CarrierLimit` needs `PermitsExact`, since `acquire` compares the counter and the
property counts carriers. The argument for a step splits the actions in three. Most
are quiet: no worker enters or leaves a charged state or changes its key, no caller
comes to or leaves "dial", the permits stay (`QuietCallers`, `QuietWorkers`, lemmas
`Quiet*`). `AttemptDial` adds one worker to the charge of a key and one to its counter
(`Charge`, `DialStarts`); `DialFail` and `ReleasePermit` take one from both
(`Discharge`, `DialFails`, `PermitReturns`); `DialOk` moves a worker inside the charge
(`DialSucceeds`). The cardinalities rest on the worker slots being finite.

**The pool's carriers.** `CarrierInv == PoolInv /\ Published /\ SessionsFinite /\
SessionLimits`. `Published` is what `Pool.Close` relies on: a live worker is on the
list of its pool or, once the pool is closed, on the copy that `Close` took, and a
worker being dialled belongs to the pool of its dialler, so that `DialOk` puts it on
the right list or does not make it live. `SessionLimits` is inductive beside it once
the session maps are known to be finite. The runs check it as part of `PoolLimits`;
the other part of that, the dial budget, is a sum over the budget's ages and stays
with TLC.

**The pipe.** `NoLostWakeup` is inductive as it stands, for every limit, chunk size
and read size.

**The sender.** `SenderInv == EntryInv /\ PacketInv`. `OwnEntry` alone is not
inductive: it has to be known that the dialling goroutine and the reader are never
both bound to delete (`OneDeleter`), or the second deletion would hit a successor.
`PacketInv` accounts for the packets: no packet lies in two places (`Apart`), a packet
has been dropped exactly when no place holds it (`Accounted`), goroutines hold one
just where their code does (`InHand`), a sender is closed before its channel is drained
and the channel then stays empty (`DrainInv`), and what is queued is stamped unless
the outbound is known not to limit the delay (`StampInv`). `DroppedOnce` without
`DrainInv` could lose a packet in the channel of a sender that is created anew;
`ExpiryCovers` without `Apart` could lose a stamp to a drop elsewhere.

**The flow.** `FlowInv` says who refers to which path at every point of `change`,
`warm` and `fail`. A switch is under way only in the hands of the one that holds the
gate (`GateInv`); its locals and those of `warm` are what their program counters
say (`SwitchInv`, `WarmInv`); what `warm` holds nobody else does, and what a
change is going to close the flow has let go of (`Disjoint`); a path that has never
been active is read, reported and expected by nobody (`UnusedInv`). From these
`NoPathLeak` and `PathsInOrder` follow step by step; that a report replaces only the
path it is about holds because `Begin` compares the two behind the gate, and from there
on only a failure or a close can take the active path away. `ReaderTold` holds from the end
of the first change on (`ToldInv`), for which `ReportInv` and `WriterInv` say what may
be reported and when the first change runs alone. `AntiLagSwitchProofs` has the steps of
`change` and `warm`, `AntiLagFlowProofs` the others and the theorems.

**mKCP.** `KcpInv` relates the two ends and the datagrams between them, as long as
the conversation has not been cut: what the server has was sent, what the client
sent is in its window or at the server (`Pair`), an acknowledgement under way names
only what the server has and a terminate is under way only once its sender is over
(`ToServer`, `ToClient`), and the server ends only after the client, whose window is
then empty (`ClientOK`, `ServerOK`). A datagram may be lost, repeated and overtaken, so
what it says must stay true: each clause about a datagram is monotone in the ends'
state, and that is why none of them mentions order. Half of the module is about
the operators: what `Input`, `FlushState` and their parts change of one `Conn`, stated
once. `CleanEof` then follows since the server reads EOF only when the client is over
and its cache has no gap (`AllThere`).

**The health check.** `Spaced` holds from the moment `Arm` sets the timer: time left
and age of the last scheduled check add up to the interval of the mode the loop read,
and a tick in the channel means that the interval is over. `SpacedChecks` follows
because `OnTick` gives up when the mode has changed since.

### What is only model-checked

- Everything that must eventually happen, since it needs fairness and enabledness:
  `DialReturns`, `CloseReturnsOrStuck`, `SessionEnds`, `SenderDone`, `PipeReturns`,
  `WrittenArrives`, `RekeyCompletes`, `Converges`, `CallsReturn`, `LoopFollowsMode`,
  `SamplerPublishes`, `UnusedSessionClosed`, `BrokenReplaced`.
- Properties of what a recursive definition computes: `RefinesFifo`, where the
  concatenation of the chunks would need induction over sequences; the dial budget in
  `PoolLimits`, a sum over a set; `PickHonoured` and `FreshList`, which speak of
  filtered sequences.
- The safety of the worker (`CarrierAccounted`, `NewFirst`, `NoTruncation`), of the
  TUIC pool (`DialNotCut`), of the OpenVPN channel (`ControlReliable`, `ResetIsAcked`),
  of the fake-IP pool (`LookupTakenBack`) and of the map (`SizeExact`,
  `ResizeKeepsAll`, `LookupLegal`), for which no inductive invariant has been worked
  out.

## 5. What is not modelled

Wire formats and cryptography of the transports, listeners, rule matching,
configuration parsing and the controller are I/O or pure functions with tests of their
own. The floating-point estimators of AntiLag and Smart are beyond TLC: where their
result decides something, the models leave the decision open. Within the modelled
components the omissions are named in section 2; the reasons per component are in
`PROJECT.json`.
