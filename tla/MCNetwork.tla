----------------------------- MODULE MCNetwork -----------------------------
(* Small instances of the components that must get through to a peer: the   *)
(* pipe of a Mux session (extended), mKCP and the control channel of        *)
(* OpenVPN.  A behaviour runs one of them, `which`, and the others keep     *)
(* still.  A liveness property takes the fairness of its own component as   *)
(* its premise.                                                             *)
EXTENDS SessionPipe, TLC

CONSTANT None

VARIABLES which,
    ep, net, sessions, cut,                                   \* Mkcp
    vc, vs, vnet, got                                         \* OpenVpnControl

kcpVars == <<ep, net, sessions, cut>>
vpnVars == <<vc, vs, vnet, got>>
netVars == <<which, vars, kcpVars, vpnVars>>

\* What mKCP's ends write, the datagrams under way to each end, the late
\* pushes of the OpenVPN server in each epoch.
OneWay == "client" :> 2 @@ "server" :> 0
One    == "client" :> 1 @@ "server" :> 1
Pushes == 0 :> 1 @@ 1 :> 0 @@ 2 :> 0

Kcp == INSTANCE Mkcp WITH
    Items <- OneWay, SendBuf <- 1, RecvWindow <- 2, MaxInFlight <- One,
    MaxSessions <- 1

Vpn == INSTANCE OpenVpnControl WITH
    c <- vc, s <- vs, net <- vnet,
    Rounds <- 1, MaxEpoch <- 2, MaxPush <- Pushes, MaxInFlight <- One,
    ReliableAckSize <- 2, ControlSendAckMax <- 1, ReliableCapacity <- 2

NetInit ==
    /\ which \in {"pipe", "kcp", "vpn"}
    /\ Init /\ Kcp!Init /\ Vpn!Init
    /\ which # "vpn" => vnet["server"] = {}

NetNext ==
    /\ UNCHANGED which
    /\ IF which = "pipe" THEN Next ELSE UNCHANGED vars
    /\ IF which = "kcp" THEN ~cut /\ Kcp!Next ELSE UNCHANGED kcpVars
    /\ IF which = "vpn" THEN Vpn!Next ELSE UNCHANGED vpnVars

NetSpec == NetInit /\ [][NetNext]_netVars

(* The pipe: writes end while the other side reads, timed reads end. *)
PipeReturns == which = "pipe" => (Fairness => PipeCallsReturn)

(* mKCP: a segment the client wrote reaches the server's application, and   *)
(* the client learns of it, over a network that loses but is fair.          *)
WrittenArrives == which = "kcp" => (Kcp!Fairness => Kcp!WrittenArrives)

(* OpenVPN: every rekey the server asks for completes. *)
RekeyCompletes == which = "vpn" => (Vpn!Fairness => Vpn!RekeyCompletes)
=============================================================================
