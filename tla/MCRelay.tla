------------------------------ MODULE MCRelay ------------------------------
(* Small instances of the components that carry the bytes and packets of    *)
(* connections: the sender of a UDP source (extended), and of the Xray Mux  *)
(* client a carrier and the dials of a pool.  A behaviour runs one of them, *)
(* `which`, and the others keep still.  A liveness property takes the       *)
(* fairness of its own component as its premise.                            *)
EXTENDS PacketSender, TLC

CONSTANTS Session, c1, c2, pool1, worker1, key1

VARIABLES which,
    budget, carrier, session, readLoop,     \* XrayWorker
    pool, worker, caller, permits           \* XrayPool

muxVars   == <<budget, carrier, session, readLoop>>
poolVars  == <<pool, worker, caller, permits>>
relayVars == <<which, vars, muxVars, poolVars>>

Dialers == {c1, c2}
Pools   == {pool1}
Carrier == {worker1}
Keys    == {key1}
PoolOf  == [c \in Dialers |-> pool1]
Stream  == [c \in Dialers |-> FALSE]
OneEach == pool1 :> 1

Mux == INSTANCE XrayWorker WITH
    reader <- readLoop, Sessions <- {Session}, Packets <- {}, MaxUses <- 1,
    EagerModes <- BOOLEAN, Reliable <- FALSE, PipeLimit <- 1,
    MaxWrites <- 2, MaxFrames <- 2
Bounded(eager, writes, frames) == INSTANCE XrayWorker WITH
    reader <- readLoop, Sessions <- {Session}, Packets <- {}, MaxUses <- 1,
    EagerModes <- {eager}, Reliable <- FALSE, PipeLimit <- 1,
    MaxWrites <- writes, MaxFrames <- frames

Pool == INSTANCE XrayPool WITH
    Callers <- Dialers, Pools <- Pools, Workers <- Carrier, Keys <- Keys,
    PoolOf <- PoolOf, Packet <- Stream, MaxConnections <- OneEach,
    Concurrency <- 1, XUDPConcurrency <- 1, HardMult <- 1, MaxUses <- 1,
    MaxDials <- 0, Window <- 1, EagerNew <- FALSE

RelayInit ==
    /\ which \in {"sender", "mux", "pool"}
    /\ Init /\ Pool!Init
    /\ \/ Bounded(TRUE, 1, 2)!Init
       \/ Bounded(FALSE, 2, 1)!Init /\ which = "mux"

RelayNext ==
    /\ UNCHANGED which
    /\ IF which = "sender" THEN Next ELSE UNCHANGED vars
    /\ IF which = "mux" THEN Mux!Next ELSE UNCHANGED muxVars
    /\ IF which = "pool" THEN Pool!Next ELSE UNCHANGED poolVars

RelaySpec == RelayInit /\ [][RelayNext]_relayVars

(* The sender: no packet and no dead sender stays behind. *)
SenderDone == which = "sender" => (Fairness => NothingStranded)

(* A carrier: New comes first and once among the frames of a session. *)
NewFirst == Mux!NewFirst

(* A carrier: what the peer sent before its End is read before EOF. *)
NoTruncation == Mux!NoTruncation

(* A carrier: sessions end, and the read loop gets past a full pipe. *)
SessionEnds == which = "mux" => (Mux!Fairness => Mux!SessionEnds)

(* The pool: every dial of a caller with a deadline returns. *)
DialReturns == which = "pool" => (Pool!Fairness /\ Pool!Deadlines => Pool!DialReturns)

(* The pool: Close returns unless a carrier waits for its own closeOnce. *)
CloseReturnsOrStuck ==
    which = "pool" => (Pool!Fairness /\ Pool!Deadlines => Pool!CloseReturnsOrStuck)
=============================================================================
