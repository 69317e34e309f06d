----------------------------- MODULE PacketSender -----------------------------
(***************************************************************************)
(* The UDP path of the tunnel for ONE source (one NAT key): the ingress    *)
(* queue and its worker (tunnel/tunnel.go), the sender that queues the     *)
(* packets of the source until its outbound is dialled, and the NAT table  *)
(* entry that leads to the sender (tunnel/connection.go, component/nat).   *)
(*                                                                         *)
(* A sender is served by two goroutines.  The first dials and then runs    *)
(* Process; the second, started by a successful dial, is handleUDPToLocal. *)
(* Whichever ends the sender closes it and deletes the entry BY KEY.       *)
(*                                                                         *)
(* A packet is a pooled buffer: Drop hands it back, so it may come again.  *)
(* Addresses, the destination NAT and the sniffing wrapper are left out.   *)
(***************************************************************************)
EXTENDS Naturals, Integers, Sequences, FiniteSets, SequencesExt

CONSTANTS
    Packets,        \* the pooled packet buffers
    Senders,        \* the packetSender objects, reused once unreachable
    None,           \* no packet, no sender
    IngressCap,     \* queueCapacity
    SenderCap       \* senderCapacity

ASSUME SenderAssumption ==
    /\ IngressCap \in Nat \ {0}
    /\ SenderCap \in Nat \ {0}
    /\ None \notin Packets \cup Senders

VARIABLES
    drops,      \* how often a packet was dropped since it arrived
    stamped,    \* the packets whose queuedAt the sender has set
    ingress,    \* the channel of udpQueues this source hashes to
    hand,       \* the packet processUDP is handling
    dest,       \* the sender handleUDPConn got for it
    table,      \* natTable's entry for the key
    closed,     \* packetSender.closed, and its ctx being done
    ch,         \* packetSender.ch
    delay,      \* maxQueueDelay: -1 not known, 0 no expiry, 1 some expiry
    dialer,     \* where the goroutine that dials and runs Process is
    busy,       \* the packet that goroutine is processing
    reader,     \* where the handleUDPToLocal goroutine is
    open        \* the outbound PacketConn is open

vars == <<drops, stamped, ingress, hand, dest, table,
          closed, ch, delay, dialer, busy, reader, open>>

queueVars  == <<ingress, hand, dest>>
senderVars == <<closed, ch, delay, dialer, busy, reader, open>>

DialerPc == {"off", "dial", "close", "drain", "delete", "process", "loop",
             "check", "resolve", "write"}
ReaderPc == {"off", "read", "close", "drain", "shut", "delete"}

(* Every variable has its type. *)
TypeOK ==
    /\ drops \in [Packets -> 0..2]
    /\ stamped \subseteq Packets
    /\ ingress \in Seq(Packets) /\ Len(ingress) <= IngressCap
    /\ hand \in Packets \cup {None}
    /\ dest \in Senders \cup {None}
    /\ table \in Senders \cup {None}
    /\ closed \in [Senders -> BOOLEAN]
    /\ ch \in [Senders -> Seq(Packets)]
    /\ \A s \in Senders : Len(ch[s]) <= SenderCap
    /\ delay \in [Senders -> -1..1]
    /\ dialer \in [Senders -> DialerPc]
    /\ busy \in [Senders -> Packets \cup {None}]
    /\ reader \in [Senders -> ReaderPc]
    /\ open \in [Senders -> BOOLEAN]

Init ==
    /\ drops = [p \in Packets |-> 1]        \* in the pool
    /\ stamped = {}
    /\ ingress = <<>> /\ hand = None /\ dest = None
    /\ table = None
    /\ closed = [s \in Senders |-> FALSE]
    /\ ch = [s \in Senders |-> <<>>]
    /\ delay = [s \in Senders |-> -1]
    /\ dialer = [s \in Senders |-> "off"]
    /\ busy = [s \in Senders |-> None]
    /\ reader = [s \in Senders |-> "off"]
    /\ open = [s \in Senders |-> FALSE]

-----------------------------------------------------------------------------
(* Where packets and senders are. *)

Queued(s) == ToSet(ch[s])

Held == ToSet(ingress) \cup ({hand} \ {None})
          \cup UNION {Queued(s) \cup ({busy[s]} \ {None}) : s \in Senders}

(* No goroutine, table entry or worker can reach the sender. *)
Unreachable(s) ==
    /\ dialer[s] = "off" /\ reader[s] = "off"
    /\ table # s /\ dest # s

(* packet.Drop(): the buffer goes back to the pool. *)
Drop(p) ==
    /\ drops' = [drops EXCEPT ![p] = IF @ < 2 THEN @ + 1 ELSE 2]
    /\ stamped' = stamped \ {p}

-----------------------------------------------------------------------------
(* The ingress queue and its worker. *)

(* HandleUDPPacket: a listener read a packet into a pooled buffer. *)
Arrive(p) ==
    /\ drops[p] > 0 /\ p \notin Held
    /\ IF Len(ingress) < IngressCap
       THEN /\ ingress' = Append(ingress, p)
            /\ drops' = [drops EXCEPT ![p] = 0]
       ELSE /\ drops' = [drops EXCEPT ![p] = 1]     \* UDPIngressQueueFull
            /\ UNCHANGED ingress
    /\ UNCHANGED <<stamped, hand, dest, table, senderVars>>

(* processUDP receives the next packet. *)
WorkerTake ==
    /\ hand = None /\ ingress # <<>>
    /\ hand' = Head(ingress) /\ ingress' = Tail(ingress)
    /\ UNCHANGED <<drops, stamped, dest, table, senderVars>>

(* handleUDPConn turns the packet away before it looks for a sender. *)
WorkerRefuse ==
    /\ hand # None /\ dest = None
    /\ Drop(hand) /\ hand' = None
    /\ UNCHANGED <<ingress, dest, table, senderVars>>

(* GetOrCreate finds the entry of the key ... *)
WorkerLoad ==
    /\ hand # None /\ dest = None /\ table # None
    /\ dest' = table
    /\ UNCHANGED <<drops, stamped, ingress, hand, table, senderVars>>

\* Mutant: a new sender takes the policy to be "no expiry" until it is known.
WorkerCreateUnstamped(s) ==
    /\ hand # None /\ dest = None /\ table = None
    /\ Unreachable(s)
    /\ table' = s /\ dest' = s
    /\ closed' = [closed EXCEPT ![s] = FALSE]
    /\ ch' = [ch EXCEPT ![s] = <<>>]
    /\ delay' = [delay EXCEPT ![s] = 0]
    /\ dialer' = [dialer EXCEPT ![s] = "dial"]
    /\ UNCHANGED <<drops, stamped, ingress, hand, busy, reader, open>>

(* ... or stores a new sender, whose dialling goroutine is started. *)
WorkerCreate(s) ==
    /\ hand # None /\ dest = None /\ table = None
    /\ Unreachable(s)
    /\ table' = s /\ dest' = s
    /\ closed' = [closed EXCEPT ![s] = FALSE]
    /\ ch' = [ch EXCEPT ![s] = <<>>]
    /\ delay' = [delay EXCEPT ![s] = -1]
    /\ dialer' = [dialer EXCEPT ![s] = "dial"]
    /\ UNCHANGED <<drops, stamped, ingress, hand, busy, reader, open>>

\* Mutants: Send does not look at closed; a packet that finds the channel
\* full is forgotten instead of dropped.
SendUnchecked ==
    /\ dest # None
    /\ hand' = None /\ dest' = None
    /\ IF Len(ch[dest]) >= SenderCap
       THEN Drop(hand) /\ UNCHANGED ch
       ELSE /\ ch' = [ch EXCEPT ![dest] = Append(@, hand)]
            /\ stamped' = IF delay[dest] # 0 THEN stamped \cup {hand} ELSE stamped
            /\ UNCHANGED drops
    /\ UNCHANGED <<ingress, table, closed, delay, dialer, busy, reader, open>>

SendForgets ==
    /\ dest # None
    /\ hand' = None /\ dest' = None
    /\ IF closed[dest] \/ Len(ch[dest]) >= SenderCap
       THEN UNCHANGED <<drops, stamped>> /\ UNCHANGED ch
       ELSE /\ ch' = [ch EXCEPT ![dest] = Append(@, hand)]
            /\ stamped' = IF delay[dest] # 0 THEN stamped \cup {hand} ELSE stamped
            /\ UNCHANGED drops
    /\ UNCHANGED <<ingress, table, closed, delay, dialer, busy, reader, open>>

(* packetSender.Send: admission under queueMutex, never blocking; with *)
(* diagnostics off, as by default.                                     *)
Send ==
    /\ dest # None
    /\ hand' = None /\ dest' = None
    /\ IF closed[dest] \/ Len(ch[dest]) >= SenderCap
       THEN Drop(hand) /\ UNCHANGED ch
       ELSE /\ ch' = [ch EXCEPT ![dest] = Append(@, hand)]
            /\ stamped' = IF delay[dest] # 0 THEN stamped \cup {hand} ELSE stamped
            /\ UNCHANGED drops
    /\ UNCHANGED <<ingress, table, closed, delay, dialer, busy, reader, open>>

-----------------------------------------------------------------------------
(* packetSender.Close, by the goroutine that ends the sender. *)

(* The locked part: no admission after it, and ctx is done. *)
CloseSender(s) == closed' = [closed EXCEPT ![s] = TRUE]

(* One round of dropAll: a packet is dropped, or the channel is empty. *)
DrainOne(s) ==
    /\ ch[s] # <<>>
    /\ Drop(Head(ch[s]))
    /\ ch' = [ch EXCEPT ![s] = Tail(@)]

(* natTable.Delete(key): by key, whoever's entry it is. *)
DeleteEntry == table' = None

-----------------------------------------------------------------------------
(* The goroutine that dials and then runs Process. *)

DialFails(s) ==
    /\ dialer[s] = "dial"
    /\ dialer' = [dialer EXCEPT ![s] = "close"]
    /\ UNCHANGED <<drops, stamped, queueVars, table, closed, ch, delay, busy, reader, open>>

(* The dial succeeds and starts handleUDPToLocal before Process runs. *)
DialSucceeds(s) ==
    /\ dialer[s] = "dial"
    /\ dialer' = [dialer EXCEPT ![s] = "process"]
    /\ reader' = [reader EXCEPT ![s] = "read"]
    /\ open' = [open EXCEPT ![s] = TRUE]
    /\ UNCHANGED <<drops, stamped, queueVars, table, closed, ch, delay, busy>>

DialerClose(s) ==
    /\ dialer[s] = "close"
    /\ CloseSender(s)
    /\ dialer' = [dialer EXCEPT ![s] = "drain"]
    /\ UNCHANGED <<drops, stamped, queueVars, table, ch, delay, busy, reader, open>>

DialerDrain(s) ==
    /\ dialer[s] = "drain"
    /\ \/ DrainOne(s) /\ UNCHANGED dialer
       \/ /\ ch[s] = <<>>
          /\ dialer' = [dialer EXCEPT ![s] = "delete"]
          /\ UNCHANGED <<drops, stamped, ch>>
    /\ UNCHANGED <<queueVars, table, closed, delay, busy, reader, open>>

DialerDelete(s) ==
    /\ dialer[s] = "delete"
    /\ DeleteEntry
    /\ dialer' = [dialer EXCEPT ![s] = "off"]
    /\ UNCHANGED <<drops, stamped, queueVars, closed, ch, delay, busy, reader, open>>

(* Process learns the queue policy of the outbound. *)
ProcessStart(s) ==
    /\ dialer[s] = "process"
    /\ \E d \in {0, 1} : delay' = [delay EXCEPT ![s] = d]
    /\ dialer' = [dialer EXCEPT ![s] = "loop"]
    /\ UNCHANGED <<drops, stamped, queueVars, table, closed, ch, busy, reader, open>>

\* Mutant: Process, too, deletes the entry when it ends.
ProcessStopDeletes(s) ==
    /\ dialer[s] = "loop" /\ closed[s]
    /\ DeleteEntry
    /\ dialer' = [dialer EXCEPT ![s] = "off"]
    /\ UNCHANGED <<drops, stamped, queueVars, closed, ch, delay, busy, reader, open>>

(* The select of Process: either ready case may be taken. *)
ProcessStop(s) ==
    /\ dialer[s] = "loop" /\ closed[s]
    /\ dialer' = [dialer EXCEPT ![s] = "off"]
    /\ UNCHANGED <<drops, stamped, queueVars, table, closed, ch, delay, busy, reader, open>>

ProcessReceive(s) ==
    /\ dialer[s] = "loop" /\ ch[s] # <<>>
    /\ busy' = [busy EXCEPT ![s] = Head(ch[s])]
    /\ ch' = [ch EXCEPT ![s] = Tail(@)]
    /\ dialer' = [dialer EXCEPT ![s] = "check"]
    /\ UNCHANGED <<drops, stamped, queueVars, table, closed, delay, reader, open>>

(* Age is left open: a stamped packet may be past the delay at any check. *)
MayExpire(s) == delay[s] > 0 /\ busy[s] \in stamped

(* The deferred packet.Drop() of processPacket. *)
FinishPacket(s) ==
    /\ Drop(busy[s])
    /\ busy' = [busy EXCEPT ![s] = None]
    /\ dialer' = [dialer EXCEPT ![s] = "loop"]

(* The first check of processPacket, before the address is looked up. *)
ProcessCheck(s) ==
    /\ dialer[s] = "check"
    /\ \/ (closed[s] \/ MayExpire(s)) /\ FinishPacket(s)
       \/ /\ ~closed[s]
          /\ dialer' = [dialer EXCEPT ![s] = "resolve"]
          /\ UNCHANGED <<drops, stamped, busy>>
    /\ UNCHANGED <<queueVars, table, closed, ch, delay, reader, open>>

(* The address is known or was resolved, and the second check follows; *)
(* a resolution that failed ends the packet.                           *)
ProcessResolve(s) ==
    /\ dialer[s] = "resolve"
    /\ \/ FinishPacket(s)
       \/ /\ ~closed[s]
          /\ dialer' = [dialer EXCEPT ![s] = "write"]
          /\ UNCHANGED <<drops, stamped, busy>>
    /\ UNCHANGED <<queueVars, table, closed, ch, delay, reader, open>>

(* handleUDPToRemote returned, with an error or without. *)
ProcessWrite(s) ==
    /\ dialer[s] = "write"
    /\ FinishPacket(s)
    /\ UNCHANGED <<queueVars, table, closed, ch, delay, reader, open>>

-----------------------------------------------------------------------------
(* handleUDPToLocal: its loop ends on a read or write-back error, or when *)
(* udpTimeout passes without a packet; then its deferred function runs.   *)

ReaderEnds(s) ==
    /\ reader[s] = "read"
    /\ reader' = [reader EXCEPT ![s] = "close"]
    /\ UNCHANGED <<drops, stamped, queueVars, table, closed, ch, delay, dialer, busy, open>>

ReaderClose(s) ==
    /\ reader[s] = "close"
    /\ CloseSender(s)
    /\ reader' = [reader EXCEPT ![s] = "drain"]
    /\ UNCHANGED <<drops, stamped, queueVars, table, ch, delay, dialer, busy, open>>

ReaderDrain(s) ==
    /\ reader[s] = "drain"
    /\ \/ DrainOne(s) /\ UNCHANGED reader
       \/ /\ ch[s] = <<>>
          /\ reader' = [reader EXCEPT ![s] = "shut"]
          /\ UNCHANGED <<drops, stamped, ch>>
    /\ UNCHANGED <<queueVars, table, closed, delay, dialer, busy, open>>

ReaderShut(s) ==
    /\ reader[s] = "shut"
    /\ open' = [open EXCEPT ![s] = FALSE]
    /\ reader' = [reader EXCEPT ![s] = "delete"]
    /\ UNCHANGED <<drops, stamped, queueVars, table, closed, ch, delay, dialer, busy>>

ReaderDelete(s) ==
    /\ reader[s] = "delete"
    /\ DeleteEntry
    /\ reader' = [reader EXCEPT ![s] = "off"]
    /\ UNCHANGED <<drops, stamped, queueVars, closed, ch, delay, dialer, busy, open>>

-----------------------------------------------------------------------------
Worker == WorkerTake \/ WorkerRefuse \/ WorkerLoad \/ Send
            \/ \E s \in Senders : WorkerCreate(s)

Dial(s) == DialFails(s) \/ DialSucceeds(s)

Dialer(s) ==
    \/ Dial(s) \/ DialerClose(s) \/ DialerDrain(s) \/ DialerDelete(s)
    \/ ProcessStart(s) \/ ProcessStop(s) \/ ProcessReceive(s)
    \/ ProcessCheck(s) \/ ProcessResolve(s) \/ ProcessWrite(s)

(* What handleUDPToLocal does once its loop has ended. *)
ReaderCleanup(s) ==
    ReaderClose(s) \/ ReaderDrain(s) \/ ReaderShut(s) \/ ReaderDelete(s)

Next ==
    \/ \E p \in Packets : Arrive(p)
    \/ Worker
    \/ \E s \in Senders : Dialer(s) \/ ReaderEnds(s) \/ ReaderCleanup(s)

(* Goroutines that can run do run: the worker, the dialling goroutine (the *)
(* dial has a timeout) and the cleanup of the reader.  Nothing makes       *)
(* packets arrive or the reader's loop end.                                *)
Fairness ==
    /\ WF_vars(Worker)
    /\ \A s \in Senders : WF_vars(Dialer(s)) /\ WF_vars(ReaderCleanup(s))

Spec == Init /\ [][Next]_vars /\ Fairness

-----------------------------------------------------------------------------
(* Properties. *)

(* How many queues, channels and goroutines hold the packet. *)
Holders(p) ==
    Cardinality({i \in DOMAIN ingress : ingress[i] = p})
      + Cardinality({x \in {hand} : x = p})
      + Cardinality({x \in Senders \X (1..SenderCap) :
                        x[2] <= Len(ch[x[1]]) /\ ch[x[1]][x[2]] = p})
      + Cardinality({s \in Senders : busy[s] = p})

(* A packet that arrived is held in exactly one place until it is dropped, *)
(* and is dropped exactly once: whatever the order of Send, Close, dropAll *)
(* and Process, no buffer goes back to the pool twice or while in use.     *)
DroppedOnce == \A p \in Packets : drops[p] + Holders(p) = 1

(* The entry of the key is the sender whose goroutines have yet to delete *)
(* it.  Delete(key) therefore never removes the entry of a successor, and *)
(* a source never has two senders in use.                                 *)
OwnEntry ==
    \A s \in Senders :
        (table = s) <=> \/ dialer[s] \in {"dial", "close", "drain", "delete"}
                        \/ reader[s] # "off"

(* A packet queued before its outbound was known can still expire when the *)
(* outbound turns out to limit the queueing delay.                         *)
ExpiryCovers ==
    \A s \in Senders : delay[s] = 1 =>
        Queued(s) \cup ({busy[s]} \ {None}) \subseteq stamped

(* Every packet the ingress queue accepted is dropped in the end: none is *)
(* stranded in the channel of a sender nobody serves.  And a closed sender *)
(* is cleared away: its outbound is closed and the key is free for a new   *)
(* one, so the source is not stuck with a dead sender.                     *)
NothingStranded ==
    /\ \A p \in Packets : []<>(drops[p] # 0)
    /\ \A s \in Senders : []<>~(closed[s] /\ (table = s \/ open[s]))

=============================================================================
