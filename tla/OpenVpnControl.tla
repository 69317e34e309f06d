--------------------------- MODULE OpenVpnControl ---------------------------
(***************************************************************************)
(* transport/openvpn, control.go and the parts of client.go that drive it: *)
(* the reliable control channel of the OpenVPN client over UDP.  Messages  *)
(* are numbered anew in every key epoch, acknowledged, retransmitted while *)
(* a TLS epoch is being set up, put in order and fed to TLS.  The server   *)
(* starts a new epoch with a soft reset, which may come while the client   *)
(* still reads the old TLS stream.                                         *)
(*                                                                         *)
(* The TLS and key-method dialogue is Rounds messages each way, the        *)
(* server's i-th answering the client's; further messages of the server   *)
(* are late pushes.         Key IDs are epoch numbers: the model ends      *)
(* before they wrap.  Deadlines, which end the client, are left out.       *)
(* The server is external: it keeps what it has received in order.         *)
(***************************************************************************)
EXTENDS Integers, FiniteSets, SequencesExt

CONSTANTS
    Rounds,          \* messages each way that set up an epoch
    MaxEpoch,        \* bound: soft resets
    MaxPush,         \* bound: late pushes in each epoch
    MaxInFlight,     \* bound: datagrams in flight to each end
    ReliableAckSize, ControlSendAckMax, ReliableCapacity,
    None

\* ControlSendAckMax <= ReliableAckSize, as 4 and 8 in the code.

VARIABLES
    c,      \* the client: ControlChannel, and where its reader is
    s,      \* the server
    net,    \* the datagrams on their way to either
    got     \* what TLS has been fed in this epoch

vars == <<c, s, net, got>>

Ends == {"client", "server"}

TypeOK ==
    /\ c.phase \in {"hard", "tls", "adopted", "watch", "probe"}
    /\ c.then \in {None, "watch", "rekey"}
    /\ {c.key, c.sent, c.recv} \subseteq Nat
    /\ c.acks \in Seq(Nat) /\ c.lru \in Seq(Nat) /\ Len(c.lru) <= ReliableAckSize
    /\ c.pending \subseteq 0 .. (c.sent - 1) /\ s.pending \subseteq 0 .. (s.sent - 1)
    /\ c.reset \in 1 .. MaxEpoch \cup {None}
    /\ \A e \in Ends : Cardinality(net[e]) <= MaxInFlight[e]

-----------------------------------------------------------------------------
\* Mutant: an acknowledgement is sent once, nothing is repeated.
TakeAcksOnce(ch, max) ==
    LET n == IF Len(ch.acks) > max THEN max ELSE Len(ch.acks)
    IN  [ch EXCEPT !.acks = SubSeq(@, n + 1, Len(@)), !.lru = SubSeq(ch.acks, 1, n)]

(* takeAcksLocked: the first pending acknowledgements move to the front of  *)
(* the most recently used ones, from which a packet carries up to max.      *)
TakeAcks(ch, max) ==
    LET n   == IF Len(ch.acks) > max THEN max ELSE Len(ch.acks)
        new == SubSeq(ch.acks, 1, n)
        mru == new \o SelectSeq(ch.lru, LAMBDA a : a \notin ToSet(new))
    IN  [ch EXCEPT !.acks = SubSeq(@, n + 1, Len(@)),
                   !.lru  = SubSeq(mru, 1, IF Len(mru) > ReliableAckSize THEN ReliableAckSize ELSE Len(mru))]

OnPacket(ch, max) == {ch.lru[i] : i \in {j \in DOMAIN ch.lru : j <= max}}

(* appendAck *)
WithAck(ch, id) == IF id \in ToSet(ch.acks) THEN ch ELSE [ch EXCEPT !.acks = Append(@, id)]

Packet(key, op, id, acks) == [key |-> key, op |-> op, id |-> id, acks |-> acks]
OpOf(id) == IF id = 0 THEN "reset" ELSE "msg"

(* The network takes some of what is written to it, up to its bound.        *)
Post(to, ps) ==
    \E kept \in SUBSET ps :
        /\ Cardinality(net[to] \cup kept) <= MaxInFlight[to]
        /\ net' = [net EXCEPT ![to] = @ \cup kept]

Ack(ch) == Packet(ch.key, "ack", None, OnPacket(ch, ReliableAckSize))

-----------------------------------------------------------------------------
(* NewControlChannel, and Handshake has sent the hard reset. *)
Init ==
    /\ c = [key |-> 0, phase |-> "hard", then |-> None, sent |-> 1, recv |-> 0, acks |-> <<>>,
            lru |-> <<>>, pending |-> {0}, buf |-> {}, reset |-> None]
    /\ s = [key |-> 0, sent |-> 0, recv |-> 0, pending |-> {}]
    /\ \E first \in SUBSET {Packet(0, "reset", 0, {})} :
         net = [e \in Ends |-> IF e = "server" THEN first ELSE {}]
    /\ got = <<>>

(* Send: number, piggyback, remember and write. *)
Send(ch, more) ==
    LET t == TakeAcks(ch, ControlSendAckMax)
        p == Packet(t.key, OpOf(t.sent), t.sent, OnPacket(t, ControlSendAckMax))
    IN  /\ c' = [t EXCEPT !.sent = @ + 1, !.pending = @ \cup {t.sent}, !.phase = "tls"]
        /\ Post("server", {p} \cup more)

(* ControlConn.Write: the next message of the dialogue, after a dedicated   *)
(* acknowledgement of what was read.                                        *)
Write ==
    /\ c.phase = "tls"
    /\ c.sent <= Rounds
    /\ Len(got) = c.sent - 1
    /\ IF c.acks = <<>> THEN Send(c, {})
       ELSE LET t == TakeAcks(c, ReliableAckSize) IN Send(t, {Ack(t)})
    /\ UNCHANGED <<s, got>>

(* flushControlACKs, woken by ackWake. *)
SendAck ==
    LET t == TakeAcks(c, ReliableAckSize)
    IN  /\ c.acks # <<>>
        /\ c' = t
        /\ Post("server", {Ack(t)})
        /\ UNCHANGED <<s, got>>

(* RetransmitPending: only while an epoch is being set up. *)
RetransmitPending ==
    LET t == TakeAcks(c, ControlSendAckMax)
    IN  /\ c.phase \in {"hard", "tls"}
        /\ c.pending # {}
        /\ c' = t
        /\ Post("server", {Packet(t.key, OpOf(id), id, OnPacket(t, ControlSendAckMax)) : id \in t.pending})
        /\ UNCHANGED <<s, got>>

-----------------------------------------------------------------------------
(* recvPending, as pairs of the epoch a message was sent in and its number. *)
Early(ch) == {b[2] : b \in ch.buf}

(* What the reader does with the message that is next in order: the hard    *)
(* reset starts TLS, the others are fed to it.  To the watcher, which parks *)
(* the message and has ReadAll drain the ones behind it, it is a late push. *)
Deliver(ch) ==
    LET Payload(id) == CHOOSE b \in ch.buf : b[2] = id
        Upto(n)     == [ch EXCEPT !.recv = n, !.buf = {b \in @ : b[2] >= n}]
        Feed(n)     == got \o [i \in 1 .. (n - ch.recv) |-> Payload(ch.recv + i - 1)]
        gap == CHOOSE n \in ch.recv .. (ch.recv + Cardinality(ch.buf)) :
                   n \notin Early(ch) /\ (ch.recv .. (n - 1)) \subseteq Early(ch)
    IN  CASE ch.phase = "hard" ->
               c' = [Upto(ch.recv + 1) EXCEPT !.phase = "tls"] /\ UNCHANGED got
          [] ch.phase \in {"tls", "probe"} ->
               c' = Upto(ch.recv + 1) /\ got' = Feed(ch.recv + 1)
          [] ch.phase = "watch" ->
               c' = [Upto(gap) EXCEPT !.phase = "probe", !.then = "watch"] /\ got' = Feed(gap)

(* The second half of read: acknowledgements are applied, and the message   *)
(* is acknowledged if it is old, delivered if it is next, and kept and      *)
(* acknowledged if it is ahead and fits the window.                         *)
Accept(ch, m) ==
    LET t    == [ch EXCEPT !.pending = @ \ m.acks]
        kept == [WithAck(t, m.id) EXCEPT !.buf = {b \in @ : b[2] # m.id} \cup {<<m.key, m.id>>}]
    IN  CASE m.op = "ack" -> c' = t /\ UNCHANGED got
          [] m.op # "ack" /\ m.id < t.recv -> c' = WithAck(t, m.id) /\ UNCHANGED got
          [] m.op # "ack" /\ m.id = t.recv -> Deliver(kept)
          [] m.op # "ack" /\ m.id > t.recv ->
               /\ UNCHANGED got
               /\ c' = CASE m.id \in Early(t) -> WithAck(t, m.id)
                         [] m.id \notin Early(t) ->
                              IF m.id - t.recv < ReliableCapacity /\ Cardinality(t.buf) < ReliableCapacity
                              THEN kept ELSE t

IsSoftReset(m) == m.op = "reset" /\ m.key > 0
IsNextReset(m) == IsSoftReset(m) /\ m.key = c.key + 1 /\ m.id = 0

(* The server's session is learnt from its hard reset; until that has come  *)
(* everything else is dropped, its acknowledgements too.                    *)
FromServer(m) == c.phase = "hard" => m.op = "reset" /\ m.key = c.key /\ m.id = 0

Reading == c.phase \in {"hard", "tls", "watch", "probe"} /\ c.recv \notin Early(c)

(* Arrives m, and perhaps it will arrive again. *)
Arrive(to, m, again) ==
    net' = IF again THEN net ELSE [net EXCEPT ![to] = @ \ {m}]

\* Mutant: packets of a retiring epoch are not dropped.
ReadAnyEpoch(m, again) ==
    /\ Reading /\ c.phase # "watch"
    /\ Arrive("client", m, again)
    /\ UNCHANGED s
    /\ \/ /\ FromServer(m) /\ IsNextReset(m)
          /\ c' = [c EXCEPT !.reset = IF @ = None THEN m.key ELSE @, !.pending = @ \ m.acks]
          /\ UNCHANGED got
       \/ /\ FromServer(m) /\ ~IsSoftReset(m)
          /\ Accept(c, m)
       \/ /\ ~FromServer(m) \/ (~IsNextReset(m) /\ IsSoftReset(m))
          /\ UNCHANGED <<c, got>>

(* ControlConn.Read: the next soft reset is put aside, the first one that   *)
(* comes; other resets and other epochs are dropped.                        *)
Read(m, again) ==
    /\ Reading /\ c.phase # "watch"
    /\ Arrive("client", m, again)
    /\ UNCHANGED s
    /\ \/ /\ FromServer(m) /\ IsNextReset(m)
          /\ c' = [c EXCEPT !.reset = IF @ = None THEN m.key ELSE @, !.pending = @ \ m.acks]
          /\ UNCHANGED got
       \/ /\ FromServer(m) /\ ~IsSoftReset(m) /\ m.key = c.key
          /\ Accept(c, m)
       \/ /\ ~FromServer(m) \/ (~IsNextReset(m) /\ (IsSoftReset(m) \/ m.key # c.key))
          /\ UNCHANGED <<c, got>>

(* waitForSoftReset, reading: the next soft reset ends the wait. *)
Watch(m, again) ==
    /\ Reading /\ c.phase = "watch" /\ c.reset = None
    /\ Arrive("client", m, again)
    /\ UNCHANGED s
    /\ \/ /\ IsNextReset(m)
          /\ c' = [c EXCEPT !.phase = "probe", !.then = "rekey"]
          /\ UNCHANGED got
       \/ /\ ~IsSoftReset(m) /\ m.key = c.key
          /\ Accept(c, m)
       \/ /\ ~IsNextReset(m) /\ (IsSoftReset(m) \/ m.key # c.key)
          /\ UNCHANGED <<c, got>>

(* read finds what it waits for among the messages that came early. *)
ReadBuffered ==
    /\ c.phase \in {"tls", "watch", "probe"} /\ c.recv \in Early(c)
    /\ c.phase = "watch" => c.reset = None
    /\ Deliver(c)
    /\ UNCHANGED <<s, net>>

(* waitForSoftReset, entered with a reset put aside: one that is not for    *)
(* the next epoch is dropped.                                               *)
TakeReset ==
    /\ c.phase = "watch" /\ c.reset # None
    /\ c' = IF c.reset = c.key + 1
            THEN [c EXCEPT !.reset = None, !.phase = "probe", !.then = "rekey"]
            ELSE [c EXCEPT !.reset = None]
    /\ UNCHANGED <<s, net, got>>

(* The dialogue is over: retransmission stops and the watcher takes over.   *)
Established ==
    /\ c.phase = "tls" /\ Len(got) >= Rounds
    /\ c' = [c EXCEPT !.phase = "watch"]
    /\ UNCHANGED <<s, net, got>>

\* Mutant: the consumed reset is not marked as received.
ProbeEndsUnmarked ==
    /\ c.phase = "probe"
    /\ IF c.then = "watch"
       THEN c' = [c EXCEPT !.phase = "watch", !.then = None] /\ UNCHANGED got
       ELSE /\ c' = [c EXCEPT !.key = @ + 1, !.phase = "adopted", !.then = None, !.sent = 0,
                              !.recv = 0, !.acks = <<0>>, !.lru = <<>>, !.pending = {}, !.buf = {}]
            /\ got' = <<>>
    /\ UNCHANGED <<s, net>>

(* consumeRekeyPush has read the old TLS stream for as long as it would;    *)
(* the watcher waits again, or renegotiate adopts the reset's epoch and     *)
(* queues its acknowledgement.                                              *)
ProbeEnds ==
    /\ c.phase = "probe"
    /\ IF c.then = "watch"
       THEN c' = [c EXCEPT !.phase = "watch", !.then = None] /\ UNCHANGED got
       ELSE /\ c' = [c EXCEPT !.key = @ + 1, !.phase = "adopted", !.then = None, !.sent = 0,
                              !.recv = 1, !.acks = <<0>>, !.lru = <<>>, !.pending = {}, !.buf = {}]
            /\ got' = <<>>
    /\ UNCHANGED <<s, net>>

SendSoftReset ==
    /\ c.phase = "adopted"
    /\ Send(c, {})
    /\ UNCHANGED <<s, got>>

-----------------------------------------------------------------------------
(* The server.  It answers the client's messages, may push, and may start   *)
(* a new epoch once its part of the dialogue of this one is acknowledged.   *)
ServerPacket(t, id) == Packet(t.key, OpOf(id), id, 0 .. (t.recv - 1))

ServerSend(t) ==
    /\ s' = [t EXCEPT !.sent = @ + 1, !.pending = @ \cup {t.sent}]
    /\ Post("client", {ServerPacket(t, t.sent)})
    /\ UNCHANGED <<c, got>>

ServerReply == s.sent <= Rounds /\ s.recv > s.sent /\ ServerSend(s)
ServerPush  == s.sent \in (Rounds + 1) .. (Rounds + MaxPush[s.key]) /\ ServerSend(s)

ServerReset ==
    /\ s.sent > Rounds /\ s.key < MaxEpoch
    /\ s.pending \cap (0 .. Rounds) = {}
    /\ ServerSend([key |-> s.key + 1, sent |-> 0, recv |-> 0, pending |-> {}])

ServerRetransmit(id) ==
    /\ id \in s.pending
    /\ Post("client", {ServerPacket(s, id)})
    /\ UNCHANGED <<c, s, got>>

ServerAck ==
    /\ s.recv > 0
    /\ Post("client", {Packet(s.key, "ack", None, 0 .. (s.recv - 1))})
    /\ UNCHANGED <<c, s, got>>

ServerRead(m, again) ==
    /\ Arrive("server", m, again)
    /\ s' = IF m.key # s.key THEN s
            ELSE [s EXCEPT !.pending = @ \ m.acks,
                           !.recv = IF m.op # "ack" /\ m.id = @ THEN @ + 1 ELSE @]
    /\ UNCHANGED <<c, got>>

Lose(to, m) ==
    /\ net' = [net EXCEPT ![to] = @ \ {m}]
    /\ UNCHANGED <<c, s, got>>

-----------------------------------------------------------------------------
Next ==
    \/ Write \/ SendAck \/ RetransmitPending
    \/ ReadBuffered \/ TakeReset \/ Established \/ ProbeEnds \/ SendSoftReset
    \/ ServerReply \/ ServerPush \/ ServerReset \/ ServerAck
    \/ \E id \in s.pending : ServerRetransmit(id)
    \/ \E m \in net["client"], again \in BOOLEAN : Read(m, again) \/ Watch(m, again)
    \/ \E m \in net["server"], again \in BOOLEAN : ServerRead(m, again)
    \/ \E e \in Ends : \E m \in net[e] : Lose(e, m)

Spec == Init /\ [][Next]_vars

(* A datagram with number id goes out and is read, in either direction. *)
ClientSends(id) == (RetransmitPending \/ SendAck) /\ \E m \in net'["server"] : m.id = id
ServerReads(id) == \E m \in net["server"] : m.id = id /\ ServerRead(m, FALSE)
ServerSends == \E id \in 0 .. Rounds : ServerRetransmit(id) /\ net' # net
ClientReads == \E m \in net["client"] : m.id # None /\ (Read(m, FALSE) \/ Watch(m, FALSE))
Clears(e) == \E m \in net[e] : Lose(e, m)

(* The client's goroutines run and the probe of the old stream has a        *)
(* deadline; the ticker retransmits.  The network does not clog, and a      *)
(* datagram sent again and again gets through again and again.              *)
Fairness ==
    /\ WF_vars(Write) /\ WF_vars(SendSoftReset) /\ WF_vars(Established)
    /\ WF_vars(ReadBuffered) /\ WF_vars(TakeReset) /\ WF_vars(ProbeEnds)
    /\ WF_vars(ServerReply)
    /\ \A e \in Ends : WF_vars(Clears(e))
    /\ \A id \in 0 .. Rounds : SF_vars(ClientSends(id)) /\ SF_vars(ServerReads(id))
    /\ SF_vars(ServerSends) /\ SF_vars(ClientReads)

LiveSpec == Spec /\ Fairness

-----------------------------------------------------------------------------
(* The control channel is reliable.  TLS is fed the server's messages of    *)
(* the current epoch, each once, in order and without a gap, through        *)
(* reordering, duplicates, the watcher's detour and the change of epoch.    *)
(* And a message either end no longer retransmits has been accepted by the  *)
(* other in the same epoch: acknowledgements of one epoch, however late,    *)
(* never settle a message of another.                                       *)
ControlReliable ==
    /\ \A i \in DOMAIN got : got[i] = <<c.key, i>>
    /\ c.key = s.key =>
         /\ \A id \in 0 .. (c.sent - 1) : id \notin c.pending => id < s.recv
         /\ \A id \in 0 .. (s.sent - 1) : id \notin s.pending => id < c.recv \/ id \in Early(c)
    /\ c.key # s.key => s.key = c.key + 1 /\ s.pending = {0}

(* The server's soft reset is dropped, not acknowledged, when it comes      *)
(* again in the epoch it started.  It need not be: once the client's own    *)
(* reset has arrived, so has the acknowledgement.                           *)
ResetIsAcked == s.key > 0 /\ s.recv > 0 => 0 \notin s.pending

(* Every rekey the server asks for completes, whatever is lost on the way   *)
(* and wherever the reset finds the client.                                 *)
RekeyCompletes ==
    \A e \in 1 .. MaxEpoch :
        s.key = e ~> (c.key > e \/ (c.key = e /\ c.phase \in {"watch", "probe"}))
=============================================================================
