------------------------------ MODULE TuicPool ------------------------------
(***************************************************************************)
(* transport/tuic: PoolClient (pool_client.go) over the v5 client          *)
(* (v5/client.go; v4 differs in its wire format only).  A client keeps one *)
(* QUIC connection and counts the streams on it in openStreams; a new      *)
(* connection resets the count; a closed stream is only discounted after a *)
(* delay.  The power-save sweep closes the connection of a client whose    *)
(* count is zero.  The TCP half of the pool is modelled; the UDP half runs *)
(* the same code on lists of its own.                                      *)
(***************************************************************************)
EXTENDS Integers, FiniteSets, SequencesExt

CONSTANTS
    MaxClients, MaxConns,      \* bounds: how many are ever made
    Streams,                   \* the dials through the pool
    MaxOpenStreams             \* ClientOption.MaxOpenStreams; 1 refuses every dial

Clients  == 1 .. MaxClients
Conns    == 1 .. MaxConns
NoClient == 0
NoConn   == 0

VARIABLES
    pool,      \* tcpClients, front first
    client,    \* per client: quicConn, openStreams, closed, age of lastVisited
    conn,      \* per QUIC connection: unused, up or down
    stream     \* per stream: how far its dial is, its client and connection

vars == <<pool, client, conn, stream>>

(* The ages told apart: just visited, idleSessionAge, thirty minutes. *)
Fresh == 0
IdleAge == 1
Expired == 2

InDial == {"got", "refused", "counted"}       \* holds useMutex for reading
At == {"new", "none", "full", "picked", "open", "closing", "done"} \cup InDial

TypeOK ==
    /\ pool \in Seq(Clients)
    /\ client \in [Clients -> [made : BOOLEAN, quicConn : Conns \cup {NoConn},
                               open : Int, closed : BOOLEAN, age : Fresh .. Expired]]
    /\ conn \in [Conns -> {"unused", "up", "down"}]
    /\ stream \in [Streams -> [at : At, retry : BOOLEAN, client : Clients \cup {NoClient},
                               conn : Conns \cup {NoConn}]]

(* Clients and connections are made in the order of their numbers. *)
NextClient == Cardinality({c \in Clients : client[c].made}) + 1
NextConn   == Cardinality({k \in Conns : conn[k] # "unused"}) + 1

Init ==
    /\ pool = <<>>
    /\ client = [c \in Clients |-> [made |-> FALSE, quicConn |-> NoConn, open |-> 0,
                                    closed |-> FALSE, age |-> Fresh]]
    /\ conn = [k \in Conns |-> "unused"]
    /\ stream = [s \in Streams |-> [at |-> "new", retry |-> FALSE, client |-> NoClient, conn |-> NoConn]]

Goto(s, l) == stream' = [stream EXCEPT ![s].at = l]

(* forceClose(k) on client record r: what becomes of r. *)
Forgotten(r, k) == IF r.quicConn = k THEN [r EXCEPT !.quicConn = NoConn] ELSE r

(* The connections after those in K were closed. *)
Closed(K) == [k \in Conns |-> IF k \in K THEN "down" ELSE conn[k]]

-----------------------------------------------------------------------------
(* newClient: put at the front of the list, for a pool found empty or for a *)
(* dial whose client was full.                                              *)
NewClient(s) ==
    /\ stream[s].at \in {"none", "full"}
    /\ NextClient \in Clients
    /\ client' = [client EXCEPT ![NextClient].made = TRUE, ![NextClient].age = Fresh]
    /\ pool' = <<NextClient>> \o pool
    /\ stream' = [stream EXCEPT ![s].client = NextClient,
                                ![s].retry = stream[s].at = "full",
                                ![s].at = "picked"]
    /\ UNCHANGED conn

(* The first client of the list with the fewest open streams. *)
Best ==
    pool[CHOOSE i \in DOMAIN pool : \A j \in DOMAIN pool :
            \/ client[pool[i]].open < client[pool[j]].open
            \/ client[pool[i]].open = client[pool[j]].open /\ i <= j]

(* getClient: pick the best client, close and drop the others that stood    *)
(* unused for half an hour, and mark the visit before the lock is released. *)
GetClient(s) ==
    /\ stream[s].at = "new"
    /\ IF pool = <<>>
       THEN Goto(s, "none") /\ UNCHANGED <<pool, client, conn>>
       ELSE LET old == {c \in ToSet(pool) \ {Best} : client[c].open = 0 /\ client[c].age = Expired}
            IN  /\ pool' = SelectSeq(pool, LAMBDA c : c \notin old)
                /\ conn' = Closed({client[c].quicConn : c \in old})
                /\ client' = [c \in Clients |->
                     IF c = Best THEN [client[c] EXCEPT !.age = Fresh]
                     ELSE IF c \in old THEN [client[c] EXCEPT !.closed = TRUE, !.quicConn = NoConn]
                     ELSE client[c]]
                /\ stream' = [stream EXCEPT ![s].client = Best, ![s].at = "picked"]

(* DialContext: useMutex is taken for reading, then getQuicConn: the kept   *)
(* connection, or a new one that starts the count again, or no connection.  *)
GetQuicConn(s) ==
    LET c == stream[s].client
    IN  /\ stream[s].at = "picked"
        /\ \/ /\ client[c].quicConn # NoConn
              /\ stream' = [stream EXCEPT ![s].at = "got", ![s].conn = client[c].quicConn]
              /\ UNCHANGED <<client, conn>>
           \/ /\ client[c].quicConn = NoConn
              /\ NextConn \in Conns
              /\ conn' = [conn EXCEPT ![NextConn] = "up"]
              /\ client' = [client EXCEPT ![c].quicConn = NextConn, ![c].open = 0]
              /\ stream' = [stream EXCEPT ![s].at = "got", ![s].conn = NextConn]
           \/ /\ client[c].quicConn = NoConn
              /\ Goto(s, "done")
              /\ UNCHANGED <<client, conn>>
        /\ UNCHANGED pool

(* openStreams.Add(1): the stream counts even when it is one too many ...    *)
CountStream(s) ==
    LET c == stream[s].client
    IN  /\ stream[s].at = "got"
        /\ Goto(s, IF client[c].open + 1 >= MaxOpenStreams THEN "refused" ELSE "counted")
        /\ client' = [client EXCEPT ![c].open = @ + 1]
        /\ UNCHANGED <<pool, conn>>

(* ... until it is taken off; the pool goes on with a new client, once.      *)
TooManyOpenStreams(s) ==
    /\ stream[s].at = "refused"
    /\ Goto(s, IF stream[s].retry THEN "done" ELSE "full")
    /\ client' = [client EXCEPT ![stream[s].client].open = @ - 1]
    /\ UNCHANGED <<pool, conn>>

(* deferQuicConn with an error on connection k: when it is a net.Error,     *)
(* which only a connection that has ended gives, the connection is          *)
(* forgotten.                                                               *)
AfterError(r, k) == {r} \cup IF conn[k] = "down" THEN {Forgotten(r, k)} ELSE {}

(* OpenStream and the request: done, refused (discounted at once), or       *)
(* written in vain (closed like a stream).                                  *)
OpenStream(s) ==
    LET c == stream[s].client
        k == stream[s].conn
    IN  /\ stream[s].at = "counted"
        /\ \/ /\ conn[k] = "up"
              /\ Goto(s, "open")
              /\ UNCHANGED client
           \/ /\ Goto(s, "done")
              /\ \E r \in AfterError([client[c] EXCEPT !.open = @ - 1], k) :
                    client' = [client EXCEPT ![c] = r]
           \/ /\ Goto(s, "closing")
              /\ \E r \in AfterError(client[c], k) : client' = [client EXCEPT ![c] = r]
        /\ UNCHANGED <<pool, conn>>

CloseStream(s) ==
    /\ stream[s].at = "open"
    /\ Goto(s, "closing")
    /\ UNCHANGED <<pool, client, conn>>

(* DefaultTCPTimeout after the close: openStreams.Add(-1), and the last     *)
(* stream of a client that was dropped from the pool closes its connection. *)
Discount(s) ==
    LET c == stream[s].client
        k == stream[s].conn
        last == client[c].open = 1 /\ client[c].closed
        less == [client[c] EXCEPT !.open = @ - 1]
    IN  /\ stream[s].at = "closing"
        /\ Goto(s, "done")
        /\ client' = [client EXCEPT ![c] = IF last THEN Forgotten(less, k) ELSE less]
        /\ conn' = IF last THEN Closed({k}) ELSE conn
        /\ UNCHANGED pool

-----------------------------------------------------------------------------
(* The network or the server ends a connection ... *)
ConnLost(k) ==
    /\ conn[k] = "up"
    /\ conn' = Closed({k})
    /\ UNCHANGED <<pool, client, stream>>

(* ... and the goroutine that reads it finds out: deferQuicConn, forceClose. *)
NoticeLost(c) ==
    /\ client[c].quicConn # NoConn
    /\ conn[client[c].quicConn] = "down"
    /\ client' = [client EXCEPT ![c].quicConn = NoConn]
    /\ UNCHANGED <<pool, conn, stream>>

(* Mutant: the sweep goes by the count of streams alone. *)
CloseIdleHasty(c) ==
    /\ c \in ToSet(pool)
    /\ client[c].open = 0
    /\ client[c].quicConn # NoConn
    /\ conn' = Closed({client[c].quicConn})
    /\ client' = [client EXCEPT ![c].quicConn = NoConn]
    /\ UNCHANGED <<pool, stream>>

(* CloseIdle of the pool, for one client: count and age are looked at under *)
(* the pool's lock, then the client's own CloseIdle must get useMutex.      *)
CloseIdle(c) ==
    /\ c \in ToSet(pool)
    /\ client[c].open = 0
    /\ client[c].age >= IdleAge
    /\ ~ \E s \in Streams : stream[s].client = c /\ stream[s].at \in InDial
    /\ client[c].quicConn # NoConn
    /\ conn' = Closed({client[c].quicConn})
    /\ client' = [client EXCEPT ![c].quicConn = NoConn]
    /\ UNCHANGED <<pool, stream>>

(* Time passes.  A dial ends within its timeout of a few seconds, so a      *)
(* client does not get old while a dial that was given it is under way.     *)
Grow(c) ==
    /\ client[c].made
    /\ ~ \E s \in Streams : stream[s].client = c /\ stream[s].at \in {"picked"} \cup InDial
    /\ client[c].age < Expired
    /\ client' = [client EXCEPT ![c].age = @ + 1]
    /\ UNCHANGED <<pool, conn, stream>>

Next ==
    \/ \E s \in Streams :
         \/ GetClient(s) \/ GetQuicConn(s) \/ CountStream(s) \/ TooManyOpenStreams(s)
         \/ OpenStream(s) \/ CloseStream(s) \/ Discount(s) \/ NewClient(s)
    \/ \E k \in Conns : ConnLost(k)
    \/ \E c \in Clients : NoticeLost(c) \/ CloseIdle(c) \/ Grow(c)

Spec == Init /\ [][Next]_vars

-----------------------------------------------------------------------------
(* "getClient marks the use before a dial [...], so a dial in progress is   *)
(* never cut" (pool_client.go): only the network takes a connection away    *)
(* from a dial that was given it, never a sweep, nor the half-hour expiry   *)
(* in another dial's getClient, nor the last stream of a dropped client.    *)
CutsNoDial ==
    \A s \in Streams :
        (stream[s].at \in InDial /\ conn[stream[s].conn] = "up")
            => (conn[stream[s].conn]' = "up" \/ ConnLost(stream[s].conn))
DialNotCut == [][CutsNoDial]_vars

(* CloseIdle "drops the QUIC connection of every client without an open     *)
(* stream" (pool_client.go): no sweep closes a connection with a stream.    *)
StreamNotCut ==
    [][ \A s \in Streams, c \in Clients :
          (stream[s].at = "open" /\ conn[stream[s].conn] = "up" /\ CloseIdle(c))
              => client[c].quicConn # stream[s].conn ]_vars
=============================================================================
