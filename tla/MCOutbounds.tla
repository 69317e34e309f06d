---------------------------- MODULE MCOutbounds ----------------------------
(* Small instances, for TLC, of the outbounds and of what they rest on, for *)
(* their safety: mKCP (extended), the url-test group, the TUIC pool, the    *)
(* OpenVPN control channel and the fake-ip pool.  A behaviour runs one of   *)
(* them, `which`, and the others keep still.                                *)
EXTENDS Mkcp, TLC

CONSTANTS None, c1, c2, h1, h2, h3

VARIABLES which,
    version, listed, state, tests, cache, locked, selected, fastNode,   \* ProxyGroup
    single, result, checking, call, sets, down,
    pool, client, conn, stream,                                         \* TuicPool
    vc, vs, vnet, got,                                                  \* OpenVpnControl
    byHost, byIP, saved, offset, cycle, range, lookup, flush, up, raced, budget \* FakeIP

groupVars == <<version, listed, state, tests, cache, locked, selected, fastNode, single,
               result, checking, call, sets, down>>
tuicVars  == <<pool, client, conn, stream>>
vpnVars   == <<vc, vs, vnet, got>>
fakeVars  == <<byHost, byIP, saved, offset, cycle, range, lookup, flush, up, raced, budget>>

\* The names of the group and their provider; what mKCP's ends write; how many
\* datagrams are under way to each end; the server's late pushes per epoch.
Names      == <<"a", "b">>
Both       == {"a", "b"}
OfOne      == "a" :> 1 @@ "b" :> 1
OneWay     == "client" :> 2 @@ "server" :> 0
ServerTwo  == "client" :> 1 @@ "server" :> 2
ClientTwo  == "client" :> 2 @@ "server" :> 1
Pushes     == 0 :> 1 @@ 1 :> 1 @@ 2 :> 0
Wide       == <<1, 3>>
Hosts      == {h1, h2, h3}
Callers    == {c1, c2}

Group(updates, checks, picks) == INSTANCE ProxyGroup WITH
    Callers <- Callers, Providers <- 1, Order <- Names,
    ProviderOf <- OfOne, Contents <- {Both, {"b"}}, Delays <- {1},
    MaxDelay <- 3, Tolerance <- 0, MaxVersion <- updates, MaxTests <- checks, MaxSets <- picks

Tuic(dials, conns) == INSTANCE TuicPool WITH
    MaxClients <- 2, MaxConns <- conns, Streams <- 1..dials, MaxOpenStreams <- 2

Vpn == INSTANCE OpenVpnControl WITH
    c <- vc, s <- vs, net <- vnet,
    Rounds <- 1, MaxEpoch <- 2, MaxPush <- Pushes,
    MaxInFlight <- ClientTwo, ReliableAckSize <- 2, ControlSendAckMax <- 1,
    ReliableCapacity <- 2

Fake(persistent) == INSTANCE FakeIP WITH
    call <- lookup, Hosts <- Hosts, Ranges <- {Wide, <<2, 2>>, <<9, 9>>},
    Persistent <- persistent, Size <- 2, MaxFlush <- 1, MaxRestart <- 2

\* The provider has been loaded once before a node is picked.
OutInit ==
    /\ which \in {"kcp", "updates", "picks", "drops", "redials", "dials", "vpn",
                  "file", "memory"}
    /\ Init
    /\ CASE which = "picks" -> Group(1, 1, 1)!Unused
         [] which # "picks" -> Group(2, 0, 0)!Unused
    /\ version = <<IF which \in {"picks", "drops"} THEN 1 ELSE 0>>
    /\ listed = <<IF which \in {"picks", "drops"} THEN <<Both>> ELSE <<>>>>
    /\ IF which = "dials" THEN Tuic(3, 1)!Init ELSE Tuic(2, 2)!Init
    /\ Vpn!Init /\ Fake(TRUE)!Init /\ range = Wide
    /\ which # "vpn" => vnet["server"] = {}

\* Nothing is said of an mKCP conversation that was cut: it ends there.
OutNext ==
    /\ UNCHANGED which
    /\ IF which = "kcp" THEN ~cut /\ Next ELSE UNCHANGED vars
    /\ CASE which = "updates" -> Group(2, 0, 0)!Next
         [] which = "picks"   -> Group(1, 1, 1)!Next
         [] which = "drops"   -> Group(2, 0, 1)!Next
         [] OTHER -> UNCHANGED groupVars
    /\ CASE which = "redials" -> Tuic(2, 2)!Next
         [] which = "dials"   -> Tuic(3, 1)!Next
         [] OTHER -> UNCHANGED tuicVars
    /\ IF which = "vpn" THEN Vpn!Next ELSE UNCHANGED vpnVars
    /\ CASE which = "file"   -> Fake(TRUE)!Next
         [] which = "memory" -> Fake(FALSE)!Next
         [] OTHER -> UNCHANGED fakeVars

OutSpec == OutInit /\ [][OutNext]_<<which, vars, groupVars, tuicVars, vpnVars, fakeVars>>

(* GetProxies: a list is as new as the providers were when the call began. *)
FreshList == Group(2, 0, 0)!FreshList

(* URLTest.fast: a node that was set is the node that is used. *)
PickHonoured == Group(2, 0, 0)!PickHonoured

(* PoolClient: neither CloseIdle nor getClient cuts a dial in progress. *)
DialNotCut ==
    [][IF which = "dials" THEN Tuic(3, 1)!CutsNoDial ELSE Tuic(2, 2)!CutsNoDial]_tuicVars

(* ControlChannel: TLS is fed in order, and what is acknowledged was taken. *)
ControlReliable == Vpn!ControlReliable

(* ControlChannel: a soft reset that was answered is acknowledged. *)
ResetIsAcked == Vpn!ResetIsAcked

(* Pool.Lookup and LookBack: an address leads back to its host. *)
LookupTakenBack == Fake(TRUE)!LookupTakenBack
=============================================================================
