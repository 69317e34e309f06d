-------------------------- MODULE PacketSenderProofs --------------------------
(***************************************************************************)
(* For any number of packets and senders and any queue capacities: the NAT *)
(* entry of a key belongs to the sender whose goroutines are to delete it, *)
(* every packet is held in one place until it is dropped, once, and what a *)
(* sender with a queue delay holds can expire.                             *)
(***************************************************************************)
EXTENDS PacketSender, FiniteSetTheorems, TLAPS

\* A leaf that names no prover is for SMT. The limit is generous: most leaves
\* take well under a second of it.
USE SMTT(120)

Dialling == {"dial", "close", "drain", "delete"}

(* The goroutine that dials deletes the entry only when it did not start *)
(* the reader, and the reader is the only one to do so when it did.      *)
OneDeleter == \A s \in Senders : dialer[s] \in Dialling => reader[s] = "off"

(* OwnEntry alone is not inductive: a sender with two goroutines bound to *)
(* delete would leave the second one to delete a successor's entry.       *)
EntryInv ==
    /\ dialer \in [Senders -> DialerPc]
    /\ reader \in [Senders -> ReaderPc]
    /\ table \in Senders \cup {None}
    /\ OwnEntry
    /\ OneDeleter

(* At the start there is no entry and no goroutine. *)
LEMMA EntryInit == Init => EntryInv
  BY SenderAssumption DEF Init, EntryInv, OwnEntry, OneDeleter, Dialling, DialerPc, ReaderPc

(* The worker creates a sender only where there is no entry. *)
LEMMA CreateKeepsEntry ==
  ASSUME EntryInv, NEW s \in Senders, WorkerCreate(s)
  PROVE  EntryInv'
  BY SenderAssumption
  DEF EntryInv, OwnEntry, OneDeleter, Dialling, DialerPc, ReaderPc, WorkerCreate, Unreachable

(* A step of the goroutine that dials and runs Process. *)
LEMMA DialerKeepsEntry ==
  ASSUME EntryInv, NEW s \in Senders, Dialer(s)
  PROVE  EntryInv'
<1> USE SenderAssumption DEF EntryInv, OwnEntry, OneDeleter, Dialling, DialerPc, ReaderPc
<1>1. CASE DialFails(s)
  BY <1>1 DEF DialFails
<1>2. CASE DialSucceeds(s)
  BY <1>2 DEF DialSucceeds
<1>3. CASE DialerClose(s)
  BY <1>3 DEF DialerClose
<1>4. CASE DialerDrain(s)
  BY <1>4 DEF DialerDrain
<1>5. CASE DialerDelete(s)
  BY <1>5 DEF DialerDelete, DeleteEntry
<1>6. CASE ProcessStart(s)
  BY <1>6 DEF ProcessStart
<1>7. CASE ProcessStop(s)
  BY <1>7 DEF ProcessStop
<1>8. CASE ProcessReceive(s)
  BY <1>8 DEF ProcessReceive
<1>9. CASE ProcessCheck(s)
  BY <1>9 DEF ProcessCheck, FinishPacket
<1>10. CASE ProcessResolve(s)
  BY <1>10 DEF ProcessResolve, FinishPacket
<1>11. CASE ProcessWrite(s)
  BY <1>11 DEF ProcessWrite, FinishPacket
<1> QED
  BY <1>1, <1>2, <1>3, <1>4, <1>5, <1>6, <1>7, <1>8, <1>9, <1>10, <1>11 DEF Dialer, Dial

(* A step of handleUDPToLocal. *)
LEMMA ReaderKeepsEntry ==
  ASSUME EntryInv, NEW s \in Senders, ReaderEnds(s) \/ ReaderCleanup(s)
  PROVE  EntryInv'
<1> USE SenderAssumption DEF EntryInv, OwnEntry, OneDeleter, Dialling, DialerPc, ReaderPc
<1>1. CASE ReaderEnds(s)
  BY <1>1 DEF ReaderEnds
<1>2. CASE ReaderClose(s)
  BY <1>2 DEF ReaderClose
<1>3. CASE ReaderDrain(s)
  BY <1>3 DEF ReaderDrain
<1>4. CASE ReaderShut(s)
  BY <1>4 DEF ReaderShut
<1>5. CASE ReaderDelete(s)
  BY <1>5 DEF ReaderDelete, DeleteEntry
<1> QED
  BY <1>1, <1>2, <1>3, <1>4, <1>5 DEF ReaderCleanup

(* Every step keeps the invariant. *)
LEMMA EntryStep == EntryInv /\ [Next]_vars => EntryInv'
<1> SUFFICES ASSUME EntryInv, [Next]_vars PROVE EntryInv'
  OBVIOUS
<1>1. CASE UNCHANGED <<table, dialer, reader>>
  BY <1>1 DEF EntryInv, OwnEntry, OneDeleter
<1>2. CASE UNCHANGED vars
  BY <1>1, <1>2 DEF vars
<1>3. ASSUME NEW p \in Packets, Arrive(p) PROVE EntryInv'
  BY <1>1, <1>3 DEF Arrive, senderVars
<1>4. CASE WorkerTake \/ WorkerRefuse \/ WorkerLoad \/ Send
  BY <1>1, <1>4 DEF WorkerTake, WorkerRefuse, WorkerLoad, Send, senderVars
<1>5. ASSUME NEW s \in Senders, WorkerCreate(s) PROVE EntryInv'
  BY <1>5, CreateKeepsEntry
<1>6. ASSUME NEW s \in Senders, Dialer(s) PROVE EntryInv'
  BY <1>6, DialerKeepsEntry
<1>7. ASSUME NEW s \in Senders, ReaderEnds(s) \/ ReaderCleanup(s) PROVE EntryInv'
  BY <1>7, ReaderKeepsEntry
<1> QED
  BY <1>2, <1>3, <1>4, <1>5, <1>6, <1>7 DEF Next, Worker

-----------------------------------------------------------------------------
(* Packets. *)

Injective(q) == \A i, j \in 1..Len(q) : q[i] = q[j] => i = j

PacketTypes ==
    /\ drops \in [Packets -> {0, 1}]
    /\ stamped \subseteq Packets
    /\ ingress \in Seq(Packets)
    /\ hand \in Packets \cup {None}
    /\ dest \in Senders \cup {None}
    /\ closed \in [Senders -> BOOLEAN]
    /\ ch \in [Senders -> Seq(Packets)]
    /\ \A s \in Senders : Len(ch[s]) <= SenderCap
    /\ delay \in [Senders -> {-1, 0, 1}]
    /\ busy \in [Senders -> Packets \cup {None}]

(* No packet lies in two places. *)
Apart ==
    /\ Injective(ingress) /\ \A s \in Senders : Injective(ch[s])
    /\ hand \notin ToSet(ingress)
    /\ \A s \in Senders :
         /\ hand \notin Queued(s)
         /\ busy[s] \notin ToSet(ingress)
         /\ busy[s] = hand => hand = None
         /\ \A p \in ToSet(ingress) : p \notin Queued(s)
    /\ \A s, t \in Senders :
         /\ busy[t] \notin Queued(s)
         /\ s # t => /\ \A p \in Queued(s) : p \notin Queued(t)
                     /\ busy[s] = busy[t] => busy[s] = None

IsHeld(p) ==
    \/ p \in ToSet(ingress) \/ p = hand
    \/ \E s \in Senders : p \in Queued(s) \/ p = busy[s]

(* A packet is in the pool exactly when nobody holds it. *)
Accounted == \A p \in Packets : drops[p] = 1 <=> ~IsHeld(p)

(* processPacket has a packet in hand, Process between packets has none; a *)
(* worker that has found the sender has the packet to send.                *)
InHand ==
    /\ \A s \in Senders : busy[s] # None <=> dialer[s] \in {"check", "resolve", "write"}
    /\ dest # None => hand # None

(* Nobody is going to empty the channel any more. *)
Drained(s) ==
    \/ reader[s] \in {"shut", "delete"} \/ dialer[s] = "delete"
    \/ reader[s] = "off" /\ dialer[s] \notin {"dial", "close", "drain"}

(* A sender is closed before its channel is drained; the channel then stays *)
(* empty, as a worker that still knows the sender finds it closed.          *)
DrainInv == \A s \in Senders :
    /\ dialer[s] \in {"drain", "delete"} \/ reader[s] \in {"drain", "shut", "delete"} => closed[s]
    /\ Drained(s) => ch[s] = <<>> /\ (dest = s => closed[s])

(* What a sender holds is stamped unless its outbound is known not to limit *)
(* the delay, which Process finds out before it takes the first packet.     *)
StampInv == \A s \in Senders :
    /\ delay[s] # 0 => Queued(s) \cup ({busy[s]} \ {None}) \subseteq stamped
    /\ dialer[s] \in {"dial", "process"} => delay[s] = -1

(* DroppedOnce is not inductive: a sender that is created anew empties its  *)
(* channel, and a packet lost there would be in no place.  Nor is           *)
(* ExpiryCovers: a drop takes back the stamp of a packet, which another     *)
(* sender must not hold.                                                    *)
PacketInv ==
    /\ PacketTypes /\ Apart /\ Accounted /\ InHand /\ DrainInv /\ StampInv

(* Receiving from a channel. *)
LEMMA TailFacts ==
  ASSUME NEW q \in Seq(Packets), q # <<>>, Injective(q)
  PROVE  /\ Head(q) \in Packets /\ Head(q) \in ToSet(q)
         /\ Tail(q) \in Seq(Packets) /\ Len(Tail(q)) <= Len(q)
         /\ Injective(Tail(q))
         /\ ToSet(Tail(q)) = ToSet(q) \ {Head(q)}
<1>1. /\ Len(q) \in Nat /\ Len(q) > 0 /\ Head(q) = q[1] /\ q[1] \in Packets
      /\ Tail(q) \in Seq(Packets) /\ Len(Tail(q)) = Len(q) - 1
      /\ \A i \in 1..Len(Tail(q)) : Tail(q)[i] = q[i + 1]
  OBVIOUS
<1>2. Injective(Tail(q))
  BY <1>1 DEF Injective
<1>3. ToSet(q) = {q[i] : i \in 1..Len(q)} /\ ToSet(Tail(q)) = {Tail(q)[i] : i \in 1..Len(Tail(q))}
  <2>1. DOMAIN q = 1..Len(q) /\ DOMAIN Tail(q) = 1..Len(Tail(q))
    OBVIOUS
  <2> QED
    BY <2>1, ZenonT(120) DEF ToSet
<1>4. ASSUME NEW x \in ToSet(Tail(q)) PROVE x \in ToSet(q) \ {Head(q)}
  <2>1. PICK i \in 1..Len(Tail(q)) : x = q[i + 1]
    BY <1>1, <1>3, <1>4, ZenonT(120)
  <2>2. i + 1 \in 1..Len(q) /\ i + 1 # 1
    BY <1>1
  <2> QED
    BY <1>1, <1>3, <2>1, <2>2 DEF Injective
<1>5. ASSUME NEW x \in ToSet(q) \ {Head(q)} PROVE x \in ToSet(Tail(q))
  <2>1. PICK i \in 1..Len(q) : x = q[i] /\ i # 1
    BY <1>1, <1>3, <1>5, ZenonT(120)
  <2>2. i - 1 \in 1..Len(Tail(q)) /\ Tail(q)[i - 1] = x
    BY <1>1, <2>1
  <2> QED
    BY <1>3, <2>2, ZenonT(120)
<1> QED
  BY <1>1, <1>2, <1>3, <1>4, <1>5

(* Sending to a channel. *)
LEMMA AppendFacts ==
  ASSUME NEW q \in Seq(Packets), NEW p \in Packets, p \notin ToSet(q), Injective(q)
  PROVE  /\ Append(q, p) \in Seq(Packets) /\ Len(Append(q, p)) = Len(q) + 1
         /\ Injective(Append(q, p))
         /\ ToSet(Append(q, p)) = ToSet(q) \cup {p}
<1> DEFINE a == Append(q, p)
<1>1. /\ Len(q) \in Nat /\ a \in Seq(Packets) /\ Len(a) = Len(q) + 1 /\ a[Len(q) + 1] = p
      /\ \A i \in 1..Len(q) : a[i] = q[i]
  OBVIOUS
<1>2. ToSet(q) = {q[i] : i \in 1..Len(q)} /\ ToSet(a) = {a[i] : i \in 1..Len(a)}
  <2>1. DOMAIN q = 1..Len(q) /\ DOMAIN a = 1..Len(a)
    OBVIOUS
  <2> QED
    BY <2>1, ZenonT(120) DEF ToSet
<1> HIDE DEF a
<1>3. Injective(a)
  BY <1>1, <1>2 DEF Injective
<1>4. ASSUME NEW x \in ToSet(a) PROVE x \in ToSet(q) \cup {p}
  <2>1. PICK i \in 1..Len(a) : x = a[i]
    BY <1>2, <1>4
  <2> QED
    BY <1>1, <1>2, <2>1
<1>5. ASSUME NEW x \in ToSet(q) \cup {p} PROVE x \in ToSet(a)
  <2>1. CASE x = p
    BY <1>1, <1>2, <2>1
  <2>2. CASE x \in ToSet(q)
    <3>1. PICK i \in 1..Len(q) : x = q[i]
      BY <1>2, <2>2, ZenonT(120)
    <3> QED
      BY <1>1, <1>2, <3>1
  <2> QED
    BY <1>5, <2>1, <2>2, ZenonT(120)
<1> QED
  BY <1>1, <1>3, <1>4, <1>5, ZenonT(120) DEF a

(* A channel holds packets. *)
LEMMA ElementFacts ==
  ASSUME NEW q \in Seq(Packets) PROVE ToSet(q) \subseteq Packets /\ None \notin ToSet(q)
BY SenderAssumption DEF ToSet

(* An empty channel. *)
LEMMA EmptyFacts ==
  /\ <<>> \in Seq(Packets) /\ Len(<<>>) = 0 /\ Injective(<<>>) /\ ToSet(<<>>) = {}
BY DEF ToSet, Injective

PlaceInv == PacketTypes /\ Apart /\ Accounted

(* Steps that move no packet. *)
LEMMA NothingMoves ==
  ASSUME PlaceInv, PacketTypes', UNCHANGED <<drops, ingress, hand, ch, busy>>
  PROVE  PlaceInv'
BY DEF PlaceInv, Apart, Accounted, IsHeld, Queued

(* Drop of a packet that somebody holds. *)
LEMMA DropFacts ==
  ASSUME PlaceInv, NEW p \in Packets, IsHeld(p), Drop(p)
  PROVE  /\ drops' \in [Packets -> {0, 1}] /\ drops'[p] = 1
         /\ \A q \in Packets : q # p => drops'[q] = drops[q]
         /\ stamped' = stamped \ {p} /\ stamped' \subseteq Packets
<1>1. drops \in [Packets -> {0, 1}] /\ drops[p] = 0 /\ stamped \subseteq Packets
  BY DEF PlaceInv, PacketTypes, Accounted
<1> QED
  BY <1>1 DEF Drop

(* HandleUDPPacket queues a packet or gives it up. *)
LEMMA ArriveMoves ==
  ASSUME PlaceInv, NEW p \in Packets, Arrive(p)
  PROVE  PlaceInv'
<1>1. ~IsHeld(p)
  BY DEF Arrive, Held, IsHeld, Queued, PlaceInv, Accounted, PacketTypes
<1>2. drops[p] = 1 /\ p # hand /\ p \notin ToSet(ingress)
  BY <1>1 DEF PlaceInv, PacketTypes, Accounted, IsHeld
<1>3. CASE Len(ingress) < IngressCap
  <2>1. ingress' = Append(ingress, p) /\ drops' = [drops EXCEPT ![p] = 0]
    BY <1>3 DEF Arrive
  <2>2. /\ ingress' \in Seq(Packets) /\ Injective(ingress')
        /\ ToSet(ingress') = ToSet(ingress) \cup {p}
    BY <1>2, <2>1, AppendFacts, ZenonT(120) DEF PlaceInv, PacketTypes, Apart
  <2>3. UNCHANGED <<hand, ch, busy>>
    BY DEF Arrive, senderVars
  <2>4. PacketTypes'
    BY <2>1, <2>2 DEF PlaceInv, PacketTypes, Arrive, senderVars
  <2>5. Apart'
    BY <1>1, <1>2, <2>2, <2>3 DEF PlaceInv, PacketTypes, Apart, IsHeld, Queued
  <2>6. Accounted'
    BY <2>1, <2>2, <2>3 DEF PlaceInv, PacketTypes, Accounted, IsHeld, Queued
  <2> QED
    BY <2>4, <2>5, <2>6, ZenonT(120) DEF PlaceInv
<1>4. CASE ~(Len(ingress) < IngressCap)
  <2>1. drops' = drops /\ ingress' = ingress
    BY <1>2, <1>4, ZenonT(120) DEF Arrive, PlaceInv, PacketTypes
  <2>2. PacketTypes' /\ UNCHANGED <<drops, ingress, hand, ch, busy>>
    BY <2>1 DEF PlaceInv, PacketTypes, Arrive, senderVars
  <2> QED
    BY <2>2, NothingMoves
<1> QED
  BY <1>3, <1>4, ZenonT(120)

(* processUDP takes the oldest packet into its hand. *)
LEMMA TakeMoves ==
  ASSUME PlaceInv, WorkerTake
  PROVE  PlaceInv'
<1>1. /\ ingress # <<>> /\ hand = None /\ hand' = Head(ingress) /\ ingress' = Tail(ingress)
      /\ UNCHANGED <<drops, ch, busy>>
  BY DEF WorkerTake, senderVars
<1>2. /\ hand' \in Packets /\ hand' \in ToSet(ingress)
      /\ ingress' \in Seq(Packets) /\ Injective(ingress')
      /\ ToSet(ingress') = ToSet(ingress) \ {hand'}
  BY <1>1, TailFacts, ZenonT(120) DEF PlaceInv, PacketTypes, Apart
<1>3. PacketTypes'
  BY <1>2 DEF PlaceInv, PacketTypes, WorkerTake, senderVars
<1>4. Apart'
  BY <1>1, <1>2, SenderAssumption DEF PlaceInv, PacketTypes, Apart, Queued
<1>5. Accounted'
  BY <1>1, <1>2, SenderAssumption, ZenonT(120) DEF PlaceInv, PacketTypes, Accounted, IsHeld, Queued
<1> QED
  BY <1>3, <1>4, <1>5, ZenonT(120) DEF PlaceInv

(* The packet in the worker's hand is dropped. *)
LEMMA HandDropped ==
  ASSUME PlaceInv, hand # None, Drop(hand), hand' = None, PacketTypes',
         UNCHANGED <<ingress, ch, busy>>
  PROVE  PlaceInv'
<1>1. hand \in Packets /\ IsHeld(hand)
  BY DEF PlaceInv, PacketTypes, IsHeld
<1>2. drops'[hand] = 1 /\ \A q \in Packets : q # hand => drops'[q] = drops[q]
  BY <1>1, DropFacts, ZenonT(120)
<1>3. /\ None \notin ToSet(ingress)
      /\ \A s \in Senders : None \notin ToSet(ch[s])
  BY ElementFacts, ZenonT(120) DEF PlaceInv, PacketTypes
<1>5. Apart'
  BY <1>3 DEF PlaceInv, Apart, Queued
<1>4. Accounted'
  BY <1>1, <1>2, SenderAssumption DEF PlaceInv, Apart, Accounted, IsHeld, Queued
<1> QED
  BY <1>4, <1>5, ZenonT(120) DEF PlaceInv

(* It is sent to the channel of a sender. *)
LEMMA HandQueued ==
  ASSUME PlaceInv, hand # None, NEW s \in Senders, hand' = None, PacketTypes',
         ch' = [ch EXCEPT ![s] = Append(ch[s], hand)],
         UNCHANGED <<drops, ingress, busy>>
  PROVE  PlaceInv'
<1>1. hand \in Packets /\ hand \notin ToSet(ch[s]) /\ ch[s] \in Seq(Packets) /\ Injective(ch[s])
  BY DEF PlaceInv, PacketTypes, Apart, Queued
<1>2. /\ Injective(ch'[s]) /\ ToSet(ch'[s]) = ToSet(ch[s]) \cup {hand}
      /\ \A t \in Senders : t # s => ch'[t] = ch[t]
  BY <1>1, AppendFacts, ZenonT(120) DEF PlaceInv, PacketTypes
<1>3. /\ None \notin ToSet(ingress)
      /\ \A t \in Senders : None \notin ToSet(ch[t])
  BY ElementFacts DEF PlaceInv, PacketTypes
<1>4. None \notin ToSet(ch'[s])
  BY <1>2, <1>3, ZenonT(120)
<1>5. Apart'
  BY <1>1, <1>2, <1>3, <1>4 DEF PlaceInv, Apart, Queued
<1>6. Accounted'
  BY <1>1, <1>2, SenderAssumption DEF PlaceInv, Accounted, IsHeld, Queued
<1> QED
  BY <1>5, <1>6, ZenonT(120) DEF PlaceInv

(* The oldest packet of a channel is dropped by dropAll. *)
LEMMA HeadDropped ==
  ASSUME PlaceInv, NEW s \in Senders, DrainOne(s), PacketTypes',
         UNCHANGED <<ingress, hand, busy>>
  PROVE  PlaceInv'
<1> DEFINE p == Head(ch[s])
<1>1. /\ ch[s] # <<>> /\ Drop(p) /\ ch' = [ch EXCEPT ![s] = Tail(ch[s])]
      /\ ch[s] \in Seq(Packets) /\ Injective(ch[s])
  BY DEF DrainOne, PlaceInv, PacketTypes, Apart
<1>2. /\ p \in Packets /\ p \in ToSet(ch[s])
      /\ Injective(ch'[s]) /\ ToSet(ch'[s]) = ToSet(ch[s]) \ {p}
      /\ \A t \in Senders : t # s => ch'[t] = ch[t]
  BY <1>1, TailFacts, ZenonT(120) DEF PlaceInv, PacketTypes
<1> HIDE DEF p
<1>3. IsHeld(p)
  BY <1>2, ZenonT(120) DEF IsHeld, Queued
<1>4. drops'[p] = 1 /\ \A q \in Packets : q # p => drops'[q] = drops[q]
  BY <1>1, <1>2, <1>3, DropFacts, ZenonT(120)
<1>5. Apart'
  BY <1>2 DEF PlaceInv, Apart, Queued
<1>6. Accounted'
  BY <1>2, <1>4 DEF PlaceInv, Apart, Accounted, IsHeld, Queued
<1> QED
  BY <1>5, <1>6, ZenonT(120) DEF PlaceInv

(* Process takes it. *)
LEMMA HeadTaken ==
  ASSUME PlaceInv, NEW s \in Senders, busy[s] = None, ch[s] # <<>>, PacketTypes',
         busy' = [busy EXCEPT ![s] = Head(ch[s])], ch' = [ch EXCEPT ![s] = Tail(ch[s])],
         UNCHANGED <<drops, ingress, hand>>
  PROVE  PlaceInv'
<1> DEFINE p == Head(ch[s])
<1>1. ch[s] \in Seq(Packets) /\ Injective(ch[s])
  BY DEF PlaceInv, PacketTypes, Apart
<1>2. /\ p \in Packets /\ p \in ToSet(ch[s])
      /\ Injective(ch'[s]) /\ ToSet(ch'[s]) = ToSet(ch[s]) \ {p}
      /\ \A t \in Senders : t # s => ch'[t] = ch[t]
  BY <1>1, TailFacts DEF PlaceInv, PacketTypes
<1>3. busy'[s] = p /\ \A t \in Senders : t # s => busy'[t] = busy[t]
  BY DEF PlaceInv, PacketTypes
<1> HIDE DEF p
<1>4. Apart'
  <2>1. p # None /\ p # hand /\ p \notin ToSet(ingress) /\ \A t \in Senders : p # busy[t]
    BY <1>2, SenderAssumption, ZenonT(120) DEF PlaceInv, Apart, Queued
  <2>2. \A t \in Senders : t # s => p \notin ToSet(ch[t])
    BY <1>2, ZenonT(120) DEF PlaceInv, Apart, Queued
  <2>3. /\ Injective(ingress') /\ \A t \in Senders : Injective(ch'[t])
        /\ hand' \notin ToSet(ingress')
    BY <1>2 DEF PlaceInv, Apart
  <2>4. ASSUME NEW t \in Senders
        PROVE  /\ hand' \notin ToSet(ch'[t]) /\ busy'[t] \notin ToSet(ingress')
               /\ busy'[t] = hand' => hand' = None
               /\ \A q \in ToSet(ingress') : q \notin ToSet(ch'[t])
    BY <1>2, <1>3, <2>1 DEF PlaceInv, Apart, Queued
  <2>5. ASSUME NEW t \in Senders, NEW u \in Senders
        PROVE  /\ busy'[u] \notin ToSet(ch'[t])
               /\ t # u => /\ \A q \in ToSet(ch'[t]) : q \notin ToSet(ch'[u])
                           /\ busy'[t] = busy'[u] => busy'[t] = None
    BY <1>2, <1>3, <2>1, <2>2 DEF PlaceInv, Apart, Queued
  <2> QED
    BY <2>3, <2>4, <2>5, ZenonT(120) DEF Apart, Queued
<1>5. ASSUME NEW q \in Packets PROVE IsHeld(q)' <=> IsHeld(q)
  BY <1>2, <1>3, SenderAssumption, ZenonT(120) DEF IsHeld, Queued
<1>6. Accounted'
  BY <1>5 DEF PlaceInv, Accounted
<1> QED
  BY <1>4, <1>6, ZenonT(120) DEF PlaceInv

(* processPacket drops the packet it was given. *)
LEMMA BusyDropped ==
  ASSUME PlaceInv, NEW s \in Senders, busy[s] # None, Drop(busy[s]), PacketTypes',
         busy' = [busy EXCEPT ![s] = None], UNCHANGED <<ingress, hand, ch>>
  PROVE  PlaceInv'
<1> DEFINE p == busy[s]
<1>1. p \in Packets /\ IsHeld(p)
  BY DEF PlaceInv, PacketTypes, IsHeld
<1>2. drops'[p] = 1 /\ \A q \in Packets : q # p => drops'[q] = drops[q]
  BY <1>1, DropFacts, ZenonT(120)
<1>3. busy'[s] = None /\ \A t \in Senders : t # s => busy'[t] = busy[t]
  BY DEF PlaceInv, PacketTypes
<1>4. /\ None \notin ToSet(ingress)
      /\ \A t \in Senders : None \notin ToSet(ch[t])
  BY ElementFacts DEF PlaceInv, PacketTypes
<1>5. Apart'
  BY <1>3, <1>4 DEF PlaceInv, Apart, Queued
<1>6. Accounted'
  BY <1>1, <1>2, <1>3, SenderAssumption DEF PlaceInv, Apart, Accounted, IsHeld, Queued
<1> QED
  BY <1>5, <1>6, ZenonT(120) DEF PlaceInv

(* The inductive invariant. *)
SenderInv == EntryInv /\ PacketInv

(* The worker takes a packet, turns it away, or finds its sender. *)
LEMMA WorkerStep ==
  ASSUME SenderInv, WorkerTake \/ WorkerRefuse \/ WorkerLoad
  PROVE  PacketInv'
<1>1. CASE WorkerTake
  <2>1. PlaceInv'
    BY <1>1, TakeMoves, ZenonT(120) DEF SenderInv, PacketInv, PlaceInv
  <2>2. UNCHANGED <<dialer, reader, closed, ch, delay, busy, stamped, dest>>
    BY <1>1 DEF WorkerTake, senderVars
  <2>3. dest = None
    BY <1>1, ZenonT(120) DEF WorkerTake, SenderInv, PacketInv, InHand
  <2>4. InHand' /\ DrainInv' /\ StampInv'
    BY <2>2, <2>3, ZenonT(120) DEF SenderInv, PacketInv, InHand, DrainInv, Drained, StampInv, Queued
  <2> QED
    BY <2>1, <2>4, ZenonT(120) DEF PacketInv, PlaceInv
<1>2. CASE WorkerRefuse
  <2>1. hand \in Packets /\ hand # None /\ IsHeld(hand) /\ Drop(hand) /\ dest = None
    BY <1>2, ZenonT(120) DEF WorkerRefuse, SenderInv, PacketInv, PacketTypes, IsHeld
  <2>2. UNCHANGED <<ingress, dest, closed, ch, delay, dialer, busy, reader>> /\ hand' = None
    BY <1>2 DEF WorkerRefuse, senderVars
  <2>3. drops' \in [Packets -> {0, 1}] /\ stamped' = stamped \ {hand} /\ stamped' \subseteq Packets
    BY <2>1, DropFacts DEF SenderInv, PacketInv, PlaceInv
  <2>4. PacketTypes'
    BY <2>2, <2>3, ZenonT(120) DEF SenderInv, PacketInv, PacketTypes
  <2>5. PlaceInv'
    BY <2>1, <2>2, <2>4, HandDropped DEF SenderInv, PacketInv, PlaceInv
  <2>6. StampInv'
    BY <2>1, <2>2, <2>3 DEF SenderInv, PacketInv, Apart, StampInv, Queued
  <2>7. InHand' /\ DrainInv'
    BY <2>1, <2>2, ZenonT(120) DEF SenderInv, PacketInv, InHand, DrainInv, Drained
  <2> QED
    BY <2>5, <2>6, <2>7 DEF PacketInv, PlaceInv
<1>3. CASE WorkerLoad
  <2>1. UNCHANGED <<drops, stamped, ingress, hand, closed, ch, delay, dialer, busy, reader>>
    BY <1>3 DEF WorkerLoad, senderVars
  <2>2. table \in Senders /\ dest' = table /\ hand # None
    BY <1>3, ZenonT(120) DEF WorkerLoad, SenderInv, EntryInv
  <2>3. PacketTypes'
    BY <2>1, <2>2 DEF SenderInv, PacketInv, PacketTypes
  <2>4. PlaceInv'
    BY <2>1, <2>3, NothingMoves, ZenonT(120) DEF SenderInv, PacketInv, PlaceInv
  <2>5. Drained(table) => closed[table]
    BY <2>2 DEF SenderInv, EntryInv, OwnEntry, PacketInv, DrainInv, Drained
  <2>6. DrainInv'
    BY <2>1, <2>2, <2>5, ZenonT(120) DEF SenderInv, PacketInv, DrainInv, Drained
  <2>7. InHand' /\ StampInv'
    BY <2>1, <2>2 DEF SenderInv, PacketInv, InHand, StampInv, Queued
  <2> QED
    BY <2>4, <2>6, <2>7 DEF PacketInv, PlaceInv
<1> QED
  BY <1>1, <1>2, <1>3, ZenonT(120)

(* GetOrCreate stores a sender that was never used or has been emptied. *)
LEMMA CreateStep ==
  ASSUME SenderInv, NEW s \in Senders, WorkerCreate(s)
  PROVE  PacketInv'
<1>1. /\ dialer[s] = "off" /\ reader[s] = "off" /\ dest' = s /\ hand # None
      /\ closed' = [closed EXCEPT ![s] = FALSE] /\ delay' = [delay EXCEPT ![s] = -1]
      /\ dialer' = [dialer EXCEPT ![s] = "dial"] /\ ch' = [ch EXCEPT ![s] = <<>>]
      /\ UNCHANGED <<drops, stamped, ingress, hand, busy, reader>>
  BY ZenonT(120) DEF WorkerCreate, Unreachable
<1>2. ch[s] = <<>> /\ busy[s] = None
  BY <1>1, ZenonT(120) DEF SenderInv, PacketInv, DrainInv, Drained, InHand
<1>3. ch' = ch
  BY <1>1, <1>2 DEF SenderInv, PacketInv, PacketTypes
<1>4. dialer'[s] = "dial" /\ \A t \in Senders : t # s => dialer'[t] = dialer[t]
  BY <1>1, ZenonT(120) DEF SenderInv, EntryInv
<1>5. /\ closed'[s] = FALSE /\ delay'[s] = -1
      /\ \A t \in Senders : t # s => closed'[t] = closed[t] /\ delay'[t] = delay[t]
  BY <1>1 DEF SenderInv, PacketInv, PacketTypes
<1>6. PacketTypes'
  BY <1>1, <1>3, ZenonT(120) DEF SenderInv, PacketInv, PacketTypes
<1>7. PlaceInv'
  BY <1>1, <1>3, <1>6, NothingMoves DEF SenderInv, PacketInv, PlaceInv
<1>8. InHand'
  BY <1>1, <1>2, <1>4 DEF SenderInv, PacketInv, InHand
<1>9. DrainInv'
  BY <1>1, <1>3, <1>4, <1>5, SenderAssumption DEF SenderInv, PacketInv, DrainInv, Drained
<1>10. StampInv'
  BY <1>1, <1>2, <1>3, <1>4, <1>5, EmptyFacts DEF SenderInv, PacketInv, StampInv, Queued
<1> QED
  BY <1>7, <1>8, <1>9, <1>10, ZenonT(120) DEF PacketInv, PlaceInv

(* packetSender.Send: a closed or full sender drops the packet. *)
LEMMA SendStep ==
  ASSUME SenderInv, Send
  PROVE  PacketInv'
<1>1. /\ dest \in Senders /\ dest # None /\ hand # None /\ hand \in Packets /\ IsHeld(hand)
      /\ hand' = None /\ dest' = None
      /\ UNCHANGED <<ingress, closed, delay, dialer, busy, reader>>
  BY DEF Send, SenderInv, PacketInv, PacketTypes, InHand, IsHeld
<1>2. InHand'
  BY <1>1 DEF SenderInv, PacketInv, InHand
<1>3. CASE closed[dest] \/ Len(ch[dest]) >= SenderCap
  <2>1. Drop(hand) /\ ch' = ch
    BY <1>3 DEF Send
  <2>2. drops' \in [Packets -> {0, 1}] /\ stamped' = stamped \ {hand} /\ stamped' \subseteq Packets
    BY <1>1, <2>1, DropFacts, ZenonT(120) DEF SenderInv, PacketInv, PlaceInv
  <2>3. PacketTypes'
    BY <1>1, <2>1, <2>2 DEF SenderInv, PacketInv, PacketTypes
  <2>4. PlaceInv'
    BY <1>1, <2>1, <2>3, HandDropped, ZenonT(120) DEF SenderInv, PacketInv, PlaceInv
  <2>5. StampInv'
    BY <1>1, <2>1, <2>2 DEF SenderInv, PacketInv, Apart, StampInv, Queued
  <2>6. DrainInv'
    BY <1>1, <2>1, SenderAssumption, ZenonT(120) DEF SenderInv, PacketInv, DrainInv, Drained
  <2> QED
    BY <1>2, <2>4, <2>5, <2>6 DEF PacketInv, PlaceInv
<1>4. CASE ~(closed[dest] \/ Len(ch[dest]) >= SenderCap)
  <2>1. /\ ch' = [ch EXCEPT ![dest] = Append(ch[dest], hand)] /\ drops' = drops
        /\ stamped' = IF delay[dest] # 0 THEN stamped \cup {hand} ELSE stamped
    BY <1>4, ZenonT(120) DEF Send
  <2>2. /\ ch[dest] \in Seq(Packets) /\ Injective(ch[dest]) /\ hand \notin ToSet(ch[dest])
        /\ Len(ch[dest]) < SenderCap /\ Len(ch[dest]) \in Nat
    BY <1>1, <1>4, SenderAssumption DEF SenderInv, PacketInv, PacketTypes, Apart, Queued
  <2>3. /\ ch' \in [Senders -> Seq(Packets)] /\ Len(ch'[dest]) <= SenderCap
        /\ ToSet(ch'[dest]) = ToSet(ch[dest]) \cup {hand}
        /\ \A t \in Senders : t # dest => ch'[t] = ch[t]
    BY <1>1, <2>1, <2>2, AppendFacts, SenderAssumption DEF SenderInv, PacketInv, PacketTypes
  <2>4. PacketTypes'
    BY <1>1, <2>1, <2>3, ZenonT(120) DEF SenderInv, PacketInv, PacketTypes
  <2>5. PlaceInv'
    BY <1>1, <2>1, <2>4, HandQueued, ZenonT(120) DEF SenderInv, PacketInv, PlaceInv
  <2>6. ~Drained(dest)
    BY <1>1, <1>4, ZenonT(120) DEF SenderInv, PacketInv, DrainInv
  <2>7. DrainInv'
    BY <1>1, <2>3, <2>6, SenderAssumption, ZenonT(120) DEF SenderInv, PacketInv, DrainInv, Drained
  <2>8. StampInv'
    BY <1>1, <2>1, <2>3 DEF SenderInv, PacketInv, StampInv, Queued
  <2> QED
    BY <1>2, <2>5, <2>7, <2>8 DEF PacketInv, PlaceInv
<1> QED
  BY <1>3, <1>4, ZenonT(120)

(* Goroutines of a sender that move no packet. *)
LEMMA QuietSender ==
  ASSUME SenderInv, UNCHANGED <<drops, stamped, queueVars, ch, busy>>,
         closed' \in [Senders -> BOOLEAN], delay' \in [Senders -> {-1, 0, 1}],
         InHand', DrainInv', StampInv'
  PROVE  PacketInv'
<1>1. PacketTypes' /\ UNCHANGED <<drops, ingress, hand, ch, busy>>
  BY DEF SenderInv, PacketInv, PacketTypes, queueVars
<1>2. PlaceInv'
  BY <1>1, NothingMoves DEF SenderInv, PacketInv, PlaceInv
<1> QED
  BY <1>2 DEF PacketInv, PlaceInv

(* dropAll takes a packet out of the channel of a closed sender. *)
LEMMA DrainStep ==
  ASSUME SenderInv, NEW s \in Senders, DrainOne(s),
         UNCHANGED <<queueVars, closed, delay, dialer, busy, reader>>
  PROVE  PacketInv'
<1> DEFINE p == Head(ch[s])
<1>1. /\ ch[s] # <<>> /\ Drop(p) /\ ch' = [ch EXCEPT ![s] = Tail(ch[s])]
      /\ ch[s] \in Seq(Packets) /\ Injective(ch[s])
      /\ UNCHANGED <<ingress, hand, dest>>
  BY DEF DrainOne, SenderInv, PacketInv, PacketTypes, Apart, queueVars
<1>2. /\ p \in Packets /\ p \in ToSet(ch[s]) /\ ch' \in [Senders -> Seq(Packets)]
      /\ ToSet(ch'[s]) = ToSet(ch[s]) \ {p} /\ Len(ch'[s]) <= Len(ch[s])
      /\ \A t \in Senders : t # s => ch'[t] = ch[t]
  BY <1>1, TailFacts, ZenonT(120) DEF SenderInv, PacketInv, PacketTypes
<1> HIDE DEF p
<1>3. IsHeld(p)
  BY <1>2 DEF IsHeld, Queued
<1>4. drops' \in [Packets -> {0, 1}] /\ stamped' = stamped \ {p} /\ stamped' \subseteq Packets
  BY <1>1, <1>2, <1>3, DropFacts DEF SenderInv, PacketInv, PlaceInv
<1>5. \A t \in Senders : Len(ch[t]) \in Nat /\ Len(ch'[t]) \in Nat /\ Len(ch[t]) <= SenderCap
  BY <1>2 DEF SenderInv, PacketInv, PacketTypes
<1>6. ASSUME NEW t \in Senders PROVE Len(ch'[t]) <= SenderCap
  <2>1. Len(ch'[t]) <= Len(ch[t])
    BY <1>2, <1>5
  <2> QED
    BY <1>5, <2>1, SenderAssumption
<1>7. PacketTypes'
  BY <1>1, <1>2, <1>4, <1>6, ZenonT(120) DEF SenderInv, PacketInv, PacketTypes
<1>8. PlaceInv'
  BY <1>1, <1>7, HeadDropped DEF SenderInv, PacketInv, PlaceInv
<1>9. InHand'
  BY <1>1 DEF SenderInv, PacketInv, InHand
<1>10. ~Drained(s)
  BY <1>1, ZenonT(120) DEF SenderInv, PacketInv, DrainInv
<1>11. DrainInv'
  BY <1>1, <1>2, <1>10, ZenonT(120) DEF SenderInv, PacketInv, DrainInv, Drained
<1>12. \A t \in Senders : p # busy[t] /\ (t # s => p \notin ToSet(ch[t]))
  BY <1>2, ZenonT(120) DEF SenderInv, PacketInv, Apart, Queued
<1>13. StampInv'
  BY <1>2, <1>4, <1>12 DEF SenderInv, PacketInv, StampInv, Queued
<1> QED
  BY <1>8, <1>9, <1>11, <1>13 DEF PacketInv, PlaceInv

(* A step of the goroutine that dials: its way to the end of a sender. *)
LEMMA DialStep ==
  ASSUME SenderInv, NEW s \in Senders,
         Dial(s) \/ DialerClose(s) \/ DialerDrain(s) \/ DialerDelete(s)
  PROVE  PacketInv'
<1>1. CASE DialFails(s)
  <2>1. /\ dialer[s] = "dial" /\ dialer' = [dialer EXCEPT ![s] = "close"]
        /\ UNCHANGED <<drops, stamped, queueVars, closed, ch, delay, busy, reader>>
    BY <1>1 DEF DialFails
  <2>2. dialer'[s] = "close" /\ \A t \in Senders : t # s => dialer'[t] = dialer[t]
    BY <2>1, ZenonT(120) DEF SenderInv, EntryInv
  <2>3. InHand' /\ DrainInv' /\ StampInv'
    <3>1. InHand'  BY <2>1, <2>2 DEF SenderInv, PacketInv, InHand, queueVars
    <3>2. DrainInv'
      BY <2>1, <2>2 DEF SenderInv, PacketInv, DrainInv, Drained, queueVars
    <3>3. StampInv'
      BY <2>1, <2>2 DEF SenderInv, PacketInv, StampInv, Queued
    <3> QED  BY <3>1, <3>2, <3>3
  <2> QED
    BY <2>1, <2>3, QuietSender DEF SenderInv, PacketInv, PacketTypes
<1>2. CASE DialSucceeds(s)
  <2>1. /\ dialer[s] = "dial" /\ dialer' = [dialer EXCEPT ![s] = "process"]
        /\ reader' = [reader EXCEPT ![s] = "read"]
        /\ UNCHANGED <<drops, stamped, queueVars, closed, ch, delay, busy>>
    BY <1>2 DEF DialSucceeds
  <2>2. /\ dialer'[s] = "process" /\ \A t \in Senders : t # s => dialer'[t] = dialer[t]
        /\ reader'[s] = "read" /\ \A t \in Senders : t # s => reader'[t] = reader[t]
    BY <2>1, ZenonT(120) DEF SenderInv, EntryInv
  <2>3. InHand' /\ DrainInv' /\ StampInv'
    <3>1. InHand'  BY <2>1, <2>2 DEF SenderInv, PacketInv, InHand, queueVars
    <3>2. DrainInv'
      BY <2>1, <2>2 DEF SenderInv, PacketInv, DrainInv, Drained, queueVars
    <3>3. StampInv'
      BY <2>1, <2>2 DEF SenderInv, PacketInv, StampInv, Queued
    <3> QED  BY <3>1, <3>2, <3>3
  <2> QED
    BY <2>1, <2>3, QuietSender, ZenonT(120) DEF SenderInv, PacketInv, PacketTypes
<1>3. CASE DialerClose(s)
  <2>1. /\ dialer[s] = "close" /\ dialer' = [dialer EXCEPT ![s] = "drain"]
        /\ closed' = [closed EXCEPT ![s] = TRUE]
        /\ UNCHANGED <<drops, stamped, queueVars, ch, delay, busy, reader>>
    BY <1>3, ZenonT(120) DEF DialerClose, CloseSender
  <2>2. /\ dialer'[s] = "drain" /\ \A t \in Senders : t # s => dialer'[t] = dialer[t]
        /\ closed' \in [Senders -> BOOLEAN]
        /\ closed'[s] /\ \A t \in Senders : t # s => closed'[t] = closed[t]
    BY <2>1 DEF SenderInv, EntryInv, PacketInv, PacketTypes
  <2>3. InHand' /\ DrainInv' /\ StampInv'
    BY <2>1, <2>2, ZenonT(120)
    DEF SenderInv, PacketInv, InHand, DrainInv, Drained, StampInv, Queued, queueVars
  <2> QED
    BY <2>1, <2>2, <2>3, QuietSender, ZenonT(120) DEF SenderInv, PacketInv, PacketTypes
<1>4. CASE DialerDrain(s)
  <2>1. CASE DrainOne(s) /\ UNCHANGED dialer
    <3>1. UNCHANGED <<queueVars, closed, delay, dialer, busy, reader>>
      BY <1>4, <2>1, ZenonT(120) DEF DialerDrain
    <3> QED  BY <2>1, <3>1, DrainStep, ZenonT(120)
  <2>2. CASE ch[s] = <<>> /\ dialer' = [dialer EXCEPT ![s] = "delete"]
               /\ UNCHANGED <<drops, stamped, ch>>
    <3>1. /\ dialer[s] = "drain"
          /\ UNCHANGED <<drops, stamped, queueVars, closed, ch, delay, busy, reader>>
      BY <1>4, <2>2, ZenonT(120) DEF DialerDrain
    <3>2. dialer'[s] = "delete" /\ \A t \in Senders : t # s => dialer'[t] = dialer[t]
      BY <2>2 DEF SenderInv, EntryInv
    <3>3. InHand' /\ DrainInv' /\ StampInv'
      BY <2>2, <3>1, <3>2, ZenonT(120)
      DEF SenderInv, PacketInv, InHand, DrainInv, Drained, StampInv, Queued, queueVars
    <3> QED
      BY <3>1, <3>3, QuietSender, ZenonT(120) DEF SenderInv, PacketInv, PacketTypes
  <2> QED
    BY <1>4, <2>1, <2>2, ZenonT(120) DEF DialerDrain
<1>5. CASE DialerDelete(s)
  <2>1. /\ dialer[s] = "delete" /\ dialer' = [dialer EXCEPT ![s] = "off"]
        /\ UNCHANGED <<drops, stamped, queueVars, closed, ch, delay, busy, reader>>
    BY <1>5, ZenonT(120) DEF DialerDelete
  <2>2. dialer'[s] = "off" /\ \A t \in Senders : t # s => dialer'[t] = dialer[t]
    BY <2>1 DEF SenderInv, EntryInv
  <2>3. InHand' /\ DrainInv' /\ StampInv'
    BY <2>1, <2>2, ZenonT(120)
    DEF SenderInv, PacketInv, InHand, DrainInv, Drained, StampInv, Queued, queueVars
  <2> QED
    BY <2>1, <2>3, QuietSender DEF SenderInv, PacketInv, PacketTypes
<1> QED
  BY <1>1, <1>2, <1>3, <1>4, <1>5 DEF Dial

(* processPacket ends with its packet. *)
LEMMA FinishStep ==
  ASSUME SenderInv, NEW s \in Senders, dialer[s] \in {"check", "resolve", "write"},
         FinishPacket(s), UNCHANGED <<queueVars, closed, ch, delay, reader>>
  PROVE  PacketInv'
<1> DEFINE p == busy[s]
<1>1. /\ p \in Packets /\ p # None /\ IsHeld(p) /\ Drop(p)
      /\ busy' = [busy EXCEPT ![s] = None] /\ dialer' = [dialer EXCEPT ![s] = "loop"]
      /\ UNCHANGED <<ingress, hand, dest>>
  BY DEF FinishPacket, SenderInv, PacketInv, PacketTypes, InHand, IsHeld, queueVars
<1>2. /\ dialer'[s] = "loop" /\ \A t \in Senders : t # s => dialer'[t] = dialer[t]
      /\ busy'[s] = None /\ \A t \in Senders : t # s => busy'[t] = busy[t]
  BY <1>1, ZenonT(120) DEF SenderInv, EntryInv, PacketInv, PacketTypes
<1>3. drops' \in [Packets -> {0, 1}] /\ stamped' = stamped \ {p} /\ stamped' \subseteq Packets
  BY <1>1, DropFacts, ZenonT(120) DEF SenderInv, PacketInv, PlaceInv
<1>4. PacketTypes'
  BY <1>1, <1>3 DEF SenderInv, PacketInv, PacketTypes
<1>5. PlaceInv'
  BY <1>1, <1>4, BusyDropped, ZenonT(120) DEF SenderInv, PacketInv, PlaceInv
<1>6. InHand'
  BY <1>1, <1>2 DEF SenderInv, PacketInv, InHand
<1>7. DrainInv'
  BY <1>1, <1>2, ZenonT(120) DEF SenderInv, PacketInv, DrainInv, Drained
<1>8. \A t \in Senders : p \notin ToSet(ch[t]) /\ (t # s => p # busy[t])
  BY <1>1 DEF SenderInv, PacketInv, Apart, Queued
<1>9. StampInv'
  BY <1>2, <1>3, <1>8, ZenonT(120) DEF SenderInv, PacketInv, StampInv, Queued
<1> QED
  BY <1>5, <1>6, <1>7, <1>9 DEF PacketInv, PlaceInv

(* A step of Process. *)
LEMMA ProcessStep ==
  ASSUME SenderInv, NEW s \in Senders,
         \/ ProcessStart(s) \/ ProcessStop(s) \/ ProcessReceive(s)
         \/ ProcessCheck(s) \/ ProcessResolve(s) \/ ProcessWrite(s)
  PROVE  PacketInv'
<1>1. CASE ProcessStart(s)
  <2>1. /\ dialer[s] = "process" /\ dialer' = [dialer EXCEPT ![s] = "loop"]
        /\ UNCHANGED <<drops, stamped, queueVars, closed, ch, busy, reader>>
    BY <1>1 DEF ProcessStart
  <2>2. PICK d \in {0, 1} : delay' = [delay EXCEPT ![s] = d]
    BY <1>1, ZenonT(120) DEF ProcessStart
  <2>3. dialer'[s] = "loop" /\ \A t \in Senders : t # s => dialer'[t] = dialer[t]
    BY <2>1 DEF SenderInv, EntryInv
  <2>4. /\ delay' \in [Senders -> {-1, 0, 1}] /\ delay[s] = -1
        /\ \A t \in Senders : t # s => delay'[t] = delay[t]
    BY <2>1, <2>2, ZenonT(120) DEF SenderInv, PacketInv, PacketTypes, StampInv
  <2>5. InHand' /\ DrainInv'
    BY <2>1, <2>3 DEF SenderInv, PacketInv, InHand, DrainInv, Drained, queueVars
  <2>6. delay[s] # 0
    BY <2>4
  <2>7. StampInv'
    BY <2>1, <2>3, <2>4, <2>6 DEF SenderInv, PacketInv, StampInv, Queued
  <2> QED
    BY <2>1, <2>4, <2>5, <2>7, QuietSender DEF SenderInv, PacketInv, PacketTypes
<1>2. CASE ProcessStop(s)
  <2>1. /\ dialer[s] = "loop" /\ dialer' = [dialer EXCEPT ![s] = "off"]
        /\ UNCHANGED <<drops, stamped, queueVars, closed, ch, delay, busy, reader>>
    BY <1>2 DEF ProcessStop
  <2>2. /\ dialer'[s] = "off" /\ \A t \in Senders : t # s => dialer'[t] = dialer[t]
    BY <2>1, ZenonT(120) DEF SenderInv, EntryInv
  <2>3. InHand' /\ DrainInv' /\ StampInv'
    BY <2>1, <2>2, ZenonT(120)
    DEF SenderInv, PacketInv, InHand, DrainInv, Drained, StampInv, Queued, queueVars
  <2> QED
    BY <2>1, <2>2, <2>3, QuietSender DEF SenderInv, PacketInv, PacketTypes
<1>3. CASE ProcessReceive(s)
  <2> DEFINE p == Head(ch[s])
  <2>1. /\ dialer[s] = "loop" /\ ch[s] # <<>> /\ dialer' = [dialer EXCEPT ![s] = "check"]
        /\ busy' = [busy EXCEPT ![s] = p] /\ ch' = [ch EXCEPT ![s] = Tail(ch[s])]
        /\ UNCHANGED <<drops, stamped, ingress, hand, dest, closed, delay, reader>>
    BY <1>3 DEF ProcessReceive, queueVars
  <2>2. /\ busy[s] = None /\ ch[s] \in Seq(Packets) /\ Injective(ch[s])
    BY <2>1, ZenonT(120) DEF SenderInv, PacketInv, InHand, PacketTypes, Apart
  <2>3. /\ p \in Packets /\ p \in ToSet(ch[s]) /\ ch' \in [Senders -> Seq(Packets)]
        /\ ToSet(ch'[s]) = ToSet(ch[s]) \ {p} /\ Len(ch'[s]) <= Len(ch[s])
        /\ \A t \in Senders : t # s => ch'[t] = ch[t]
    BY <2>1, <2>2, TailFacts DEF SenderInv, PacketInv, PacketTypes
  <2> HIDE DEF p
  <2>4. /\ dialer'[s] = "check" /\ \A t \in Senders : t # s => dialer'[t] = dialer[t]
        /\ busy'[s] = p /\ \A t \in Senders : t # s => busy'[t] = busy[t]
        /\ busy' \in [Senders -> Packets \cup {None}]
    BY <2>1, <2>3, ZenonT(120) DEF SenderInv, EntryInv, PacketInv, PacketTypes
  <2>5. ASSUME NEW t \in Senders PROVE Len(ch'[t]) <= SenderCap
    <3>1. Len(ch[t]) \in Nat /\ Len(ch'[t]) \in Nat /\ Len(ch[t]) <= SenderCap
      BY <2>3 DEF SenderInv, PacketInv, PacketTypes
    <3>2. Len(ch'[t]) <= Len(ch[t])
      BY <2>3, <3>1
    <3> QED
      BY <3>1, <3>2, SenderAssumption
  <2>6. PacketTypes'
    BY <2>1, <2>3, <2>4, <2>5, ZenonT(120) DEF SenderInv, PacketInv, PacketTypes
  <2>7. PlaceInv'
    BY <2>1, <2>2, <2>6, HeadTaken, ZenonT(120) DEF SenderInv, PacketInv, PlaceInv, p
  <2>8. p # None
    BY <2>3, SenderAssumption, ZenonT(120)
  <2>9. InHand'
    BY <2>1, <2>4, <2>8 DEF SenderInv, PacketInv, InHand
  <2>10. ~Drained(s)
    BY <2>1, ZenonT(120) DEF SenderInv, PacketInv, DrainInv
  <2>11. DrainInv'
    <3>1. ASSUME NEW t \in Senders, t # s
          PROVE  /\ dialer'[t] \in {"drain", "delete"} \/ reader'[t] \in {"drain", "shut", "delete"}
                      => closed'[t]
                 /\ Drained(t)' => ch'[t] = <<>> /\ (dest' = t => closed'[t])
      BY <2>1, <2>3, <2>4, <3>1, ZenonT(120) DEF SenderInv, PacketInv, DrainInv, Drained
    <3>2. ~Drained(s)'
      BY <2>1, <2>4, <2>10 DEF Drained
    <3>3. dialer'[s] \in {"drain", "delete"} \/ reader'[s] \in {"drain", "shut", "delete"}
            => closed'[s]
      BY <2>1, <2>4 DEF SenderInv, PacketInv, DrainInv
    <3> QED  BY <3>1, <3>2, <3>3, ZenonT(120) DEF DrainInv
  <2>12. StampInv'
    BY <2>1, <2>3, <2>4 DEF SenderInv, PacketInv, StampInv, Queued
  <2> QED
    BY <2>7, <2>9, <2>11, <2>12 DEF PacketInv, PlaceInv
<1>4. ASSUME NEW l \in {"resolve", "write"}, dialer[s] \in {"check", "resolve"},
             dialer' = [dialer EXCEPT ![s] = l],
             UNCHANGED <<drops, stamped, queueVars, closed, ch, delay, busy, reader>>
      PROVE  PacketInv'
  <2>1. dialer'[s] = l /\ \A t \in Senders : t # s => dialer'[t] = dialer[t]
    BY <1>4 DEF SenderInv, EntryInv
  <2>2. InHand' /\ DrainInv' /\ StampInv'
    BY <1>4, <2>1, ZenonT(120)
    DEF SenderInv, PacketInv, InHand, DrainInv, Drained, StampInv, Queued, queueVars
  <2> QED
    BY <1>4, <2>2, QuietSender, ZenonT(120) DEF SenderInv, PacketInv, PacketTypes
<1>5. CASE ProcessCheck(s)
  <2>1. /\ dialer[s] = "check" /\ UNCHANGED <<queueVars, closed, ch, delay, reader>>
        /\ \/ FinishPacket(s)
           \/ dialer' = [dialer EXCEPT ![s] = "resolve"] /\ UNCHANGED <<drops, stamped, busy>>
    BY <1>5 DEF ProcessCheck
  <2> QED
    BY <1>4, <2>1, FinishStep, ZenonT(120)
<1>6. CASE ProcessResolve(s)
  <2>1. /\ dialer[s] = "resolve" /\ UNCHANGED <<queueVars, closed, ch, delay, reader>>
        /\ \/ FinishPacket(s)
           \/ dialer' = [dialer EXCEPT ![s] = "write"] /\ UNCHANGED <<drops, stamped, busy>>
    BY <1>6 DEF ProcessResolve
  <2> QED
    BY <1>4, <2>1, FinishStep
<1>7. CASE ProcessWrite(s)
  BY <1>7, FinishStep DEF ProcessWrite
<1> QED
  BY <1>1, <1>2, <1>3, <1>5, <1>6, <1>7

(* A step of handleUDPToLocal: the end of its loop and what follows. *)
LEMMA ReaderStep ==
  ASSUME SenderInv, NEW s \in Senders, ReaderEnds(s) \/ ReaderCleanup(s)
  PROVE  PacketInv'
<1>1. CASE ReaderEnds(s)
  <2>1. /\ reader[s] = "read" /\ reader' = [reader EXCEPT ![s] = "close"]
        /\ UNCHANGED <<drops, stamped, queueVars, closed, ch, delay, dialer, busy>>
    BY <1>1 DEF ReaderEnds
  <2>2. /\ reader'[s] = "close" /\ \A t \in Senders : t # s => reader'[t] = reader[t]
    BY <2>1 DEF SenderInv, EntryInv
  <2>3. InHand' /\ DrainInv' /\ StampInv'
    BY <2>1, <2>2, ZenonT(120)
    DEF SenderInv, PacketInv, InHand, DrainInv, Drained, StampInv, Queued, queueVars
  <2> QED
    BY <2>1, <2>2, <2>3, QuietSender DEF SenderInv, PacketInv, PacketTypes
<1>2. CASE ReaderClose(s)
  <2>1. /\ reader[s] = "close" /\ reader' = [reader EXCEPT ![s] = "drain"]
        /\ closed' = [closed EXCEPT ![s] = TRUE]
        /\ UNCHANGED <<drops, stamped, queueVars, ch, delay, dialer, busy>>
    BY <1>2 DEF ReaderClose, CloseSender
  <2>2. /\ reader'[s] = "drain" /\ \A t \in Senders : t # s => reader'[t] = reader[t]
        /\ closed' \in [Senders -> BOOLEAN]
        /\ closed'[s] /\ \A t \in Senders : t # s => closed'[t] = closed[t]
    BY <2>1, ZenonT(120) DEF SenderInv, EntryInv, PacketInv, PacketTypes
  <2>3. InHand' /\ DrainInv' /\ StampInv'
    <3>1. InHand'  BY <2>1, <2>2 DEF SenderInv, PacketInv, InHand, queueVars
    <3>2. DrainInv'
      BY <2>1, <2>2 DEF SenderInv, PacketInv, DrainInv, Drained, queueVars
    <3>3. StampInv'
      BY <2>1, <2>2 DEF SenderInv, PacketInv, StampInv, Queued
    <3> QED  BY <3>1, <3>2, <3>3
  <2> QED
    BY <2>1, <2>2, <2>3, QuietSender, ZenonT(120) DEF SenderInv, PacketInv, PacketTypes
<1>3. CASE ReaderDrain(s)
  <2>1. CASE DrainOne(s) /\ UNCHANGED reader
    BY <1>3, <2>1, DrainStep, ZenonT(120) DEF ReaderDrain
  <2>2. CASE ch[s] = <<>> /\ reader' = [reader EXCEPT ![s] = "shut"]
               /\ UNCHANGED <<drops, stamped, ch>>
    <3>1. /\ reader[s] = "drain"
          /\ UNCHANGED <<drops, stamped, queueVars, closed, ch, delay, dialer, busy>>
      BY <1>3, <2>2, ZenonT(120) DEF ReaderDrain
    <3>2. reader'[s] = "shut" /\ \A t \in Senders : t # s => reader'[t] = reader[t]
      BY <2>2 DEF SenderInv, EntryInv
    <3>3. InHand' /\ DrainInv' /\ StampInv'
      BY <2>2, <3>1, <3>2, ZenonT(120)
      DEF SenderInv, PacketInv, InHand, DrainInv, Drained, StampInv, Queued, queueVars
    <3> QED
      BY <3>1, <3>3, QuietSender DEF SenderInv, PacketInv, PacketTypes
  <2> QED
    BY <1>3, <2>1, <2>2, ZenonT(120) DEF ReaderDrain
<1>4. CASE ReaderShut(s)
  <2>1. /\ reader[s] = "shut" /\ reader' = [reader EXCEPT ![s] = "delete"]
        /\ UNCHANGED <<drops, stamped, queueVars, closed, ch, delay, dialer, busy>>
    BY <1>4 DEF ReaderShut
  <2>2. /\ reader'[s] = "delete" /\ \A t \in Senders : t # s => reader'[t] = reader[t]
    BY <2>1, ZenonT(120) DEF SenderInv, EntryInv
  <2>3. InHand' /\ DrainInv' /\ StampInv'
    BY <2>1, <2>2, ZenonT(120)
    DEF SenderInv, PacketInv, InHand, DrainInv, Drained, StampInv, Queued, queueVars
  <2> QED
    BY <2>1, <2>2, <2>3, QuietSender DEF SenderInv, PacketInv, PacketTypes
<1>5. CASE ReaderDelete(s)
  <2>1. /\ reader[s] = "delete" /\ reader' = [reader EXCEPT ![s] = "off"]
        /\ UNCHANGED <<drops, stamped, queueVars, closed, ch, delay, dialer, busy>>
    BY <1>5, ZenonT(120) DEF ReaderDelete
  <2>2. /\ reader'[s] = "off" /\ \A t \in Senders : t # s => reader'[t] = reader[t]
    BY <2>1 DEF SenderInv, EntryInv
  <2>3. InHand' /\ DrainInv' /\ StampInv'
    BY <2>1, <2>2, ZenonT(120)
    DEF SenderInv, PacketInv, InHand, DrainInv, Drained, StampInv, Queued, queueVars
  <2> QED
    BY <2>1, <2>2, <2>3, QuietSender DEF SenderInv, PacketInv, PacketTypes
<1> QED
  BY <1>1, <1>2, <1>3, <1>4, <1>5 DEF ReaderCleanup

(* A packet arrives, or nothing happens. *)
LEMMA ArriveStep ==
  ASSUME SenderInv, (\E p \in Packets : Arrive(p)) \/ UNCHANGED vars
  PROVE  PacketInv'
<1>1. ASSUME NEW p \in Packets, Arrive(p) PROVE PacketInv'
  <2>1. PlaceInv'
    BY <1>1, ArriveMoves, ZenonT(120) DEF SenderInv, PacketInv, PlaceInv
  <2>2. UNCHANGED <<stamped, hand, dest, closed, ch, delay, dialer, busy, reader>>
    BY <1>1 DEF Arrive, senderVars
  <2>3. InHand' /\ DrainInv' /\ StampInv'
    BY <2>2, ZenonT(120) DEF SenderInv, PacketInv, InHand, DrainInv, Drained, StampInv, Queued
  <2> QED
    BY <2>1, <2>3 DEF PacketInv, PlaceInv
<1>2. CASE UNCHANGED vars
  <2>1. /\ UNCHANGED <<drops, stamped, queueVars, closed, ch, delay, dialer, busy, reader>>
    BY <1>2, ZenonT(120) DEF vars, queueVars
  <2>2. InHand' /\ DrainInv' /\ StampInv'
    BY <2>1, ZenonT(120) DEF SenderInv, PacketInv, InHand, DrainInv, Drained, StampInv, Queued, queueVars
  <2> QED
    BY <2>1, <2>2, QuietSender DEF SenderInv, PacketInv, PacketTypes
<1> QED
  BY <1>1, <1>2, ZenonT(120)

(* At the start every packet is in the pool. *)
LEMMA PacketInit == Init => PacketInv
<1> SUFFICES ASSUME Init PROVE PacketInv
  BY ZenonT(120)
<1>1. /\ ingress = <<>> /\ hand = None /\ dest = None
      /\ \A s \in Senders : ch[s] = <<>> /\ busy[s] = None
      /\ \A s \in Senders : dialer[s] = "off" /\ reader[s] = "off" /\ delay[s] = -1
      /\ \A p \in Packets : drops[p] = 1
  BY DEF Init
<1>2. PacketTypes
  BY <1>1, EmptyFacts, SenderAssumption DEF Init, PacketTypes
<1>3. Apart
  BY <1>1, EmptyFacts, ZenonT(120) DEF Apart, Queued
<1>4. Accounted
  BY <1>1, EmptyFacts, SenderAssumption, ZenonT(120) DEF Accounted, IsHeld, Queued
<1>5. InHand /\ DrainInv
  BY <1>1, SenderAssumption, ZenonT(120) DEF InHand, DrainInv, Drained
<1>6. StampInv
  BY <1>1, EmptyFacts DEF StampInv, Queued
<1> QED
  BY <1>2, <1>3, <1>4, <1>5, <1>6 DEF PacketInv

(* Every step keeps the invariant. *)
LEMMA SenderStep == SenderInv /\ [Next]_vars => SenderInv'
<1> SUFFICES ASSUME SenderInv, [Next]_vars PROVE SenderInv'
  OBVIOUS
<1>1. EntryInv'
  BY EntryStep DEF SenderInv
<1>2. PacketInv'
  BY ArriveStep, WorkerStep, CreateStep, SendStep, DialStep, ProcessStep, ReaderStep, ZenonT(120)
  DEF Next, Worker, Dialer
<1> QED
  BY <1>1, <1>2, ZenonT(120) DEF SenderInv

(* A packet has one holder or none: each of the four counts of Holders is   *)
(* that of a singleton or of the empty set.                                 *)
LEMMA OneHolder ==
  ASSUME PacketInv, NEW p \in Packets
  PROVE  drops[p] + Holders(p) = 1
<1> DEFINE A == {i \in DOMAIN ingress : ingress[i] = p}
           B == {x \in {hand} : x = p}
           C == {x \in Senders \X (1..SenderCap) : x[2] <= Len(ch[x[1]]) /\ ch[x[1]][x[2]] = p}
           D == {s \in Senders : busy[s] = p}
<1>1. Holders(p) = Cardinality(A) + Cardinality(B) + Cardinality(C) + Cardinality(D)
  BY ZenonT(120) DEF Holders
<1>2. /\ p # None /\ ingress \in Seq(Packets) /\ Injective(ingress)
      /\ \A s \in Senders : ch[s] \in Seq(Packets) /\ Injective(ch[s]) /\ Len(ch[s]) <= SenderCap
      /\ drops[p] \in {0, 1} /\ (drops[p] = 1 <=> ~IsHeld(p))
  BY SenderAssumption DEF PacketInv, PacketTypes, Apart, Accounted
<1>3. \/ A = {} /\ p \notin ToSet(ingress)
      \/ (\E i : A = {i}) /\ p \in ToSet(ingress)
  <2>1. DOMAIN ingress = 1..Len(ingress)
    BY <1>2
  <2>2. p \in ToSet(ingress) <=> \E i \in DOMAIN ingress : ingress[i] = p
    BY ZenonT(120) DEF ToSet
  <2>3. ASSUME NEW i \in A, NEW j \in A PROVE i = j
    BY <1>2, <2>1, ZenonT(120) DEF Injective
  <2>4. A = {} \/ \E i \in A : A = {i}
    BY <2>3, ZenonT(120)
  <2>5. A = {} <=> p \notin ToSet(ingress)
    BY <2>2, ZenonT(120)
  <2> QED
    BY <2>4, <2>5, ZenonT(120)
<1>4. (B = {} /\ p # hand) \/ ((\E x : B = {x}) /\ p = hand)
  OBVIOUS
<1>5. \/ C = {} /\ \A s \in Senders : p \notin Queued(s)
      \/ (\E x : C = {x}) /\ \E s \in Senders : p \in Queued(s)
  <2>1. ASSUME NEW s \in Senders
        PROVE  p \in Queued(s) <=> \E i \in 1..SenderCap : <<s, i>> \in C
    <3>1. DOMAIN ch[s] = 1..Len(ch[s]) /\ Len(ch[s]) \in Nat /\ Len(ch[s]) <= SenderCap
      BY <1>2
    <3>2. p \in Queued(s) <=> \E i \in DOMAIN ch[s] : ch[s][i] = p
      BY ZenonT(120) DEF ToSet, Queued
    <3>3. \A i : i \in 1..Len(ch[s]) <=> i \in 1..SenderCap /\ i <= Len(ch[s])
      BY <3>1, SenderAssumption
    <3> QED
      BY <3>1, <3>2, <3>3, ZenonT(120)
  <2>2. ASSUME NEW x \in C, NEW y \in C PROVE x = y
    <3>1. PICK s \in Senders, i \in 1..SenderCap : x = <<s, i>> /\ i <= Len(ch[s]) /\ ch[s][i] = p
      BY <2>2
    <3>2. PICK t \in Senders, j \in 1..SenderCap : y = <<t, j>> /\ j <= Len(ch[t]) /\ ch[t][j] = p
      BY <2>2
    <3>3. p \in Queued(s) /\ p \in Queued(t)
      BY <2>1, <3>1, <3>2, ZenonT(120)
    <3>4. s = t
      BY <3>3 DEF PacketInv, Apart
    <3>5. i \in 1..Len(ch[s]) /\ j \in 1..Len(ch[s])
      BY <1>2, <3>1, <3>2, <3>4
    <3>6. i = j
      BY <1>2, <3>1, <3>2, <3>4, <3>5 DEF Injective
    <3> QED
      BY <3>1, <3>2, <3>4, <3>6, ZenonT(120)
  <2>3. CASE C = {}
    BY <2>1, <2>3, ZenonT(120)
  <2>4. CASE C # {}
    <3>1. PICK x \in C : TRUE
      BY <2>4, ZenonT(120)
    <3>2. C = {x}
      BY <2>2, <3>1, ZenonT(120)
    <3>3. PICK s \in Senders, i \in 1..SenderCap : x = <<s, i>>
      BY <3>1
    <3> QED
      BY <2>1, <3>1, <3>2, <3>3, ZenonT(120)
  <2> QED
    BY <2>3, <2>4, ZenonT(120)
<1>6. \/ D = {} /\ \A s \in Senders : p # busy[s]
      \/ (\E x : D = {x}) /\ \E s \in Senders : p = busy[s]
  <2>1. ASSUME NEW s \in D, NEW t \in D PROVE s = t
    BY <1>2, ZenonT(120) DEF PacketInv, Apart
  <2>2. D = {} \/ \E s \in D : D = {s}
    BY <2>1, ZenonT(120)
  <2>3. D = {} <=> \A s \in Senders : p # busy[s]
    BY ZenonT(120)
  <2> QED
    BY <2>2, <2>3, ZenonT(120)
<1> HIDE DEF A, B, C, D
<1>7. \A S : (S = {} => Cardinality(S) = 0) /\ ((\E x : S = {x}) => Cardinality(S) = 1)
  BY FS_EmptySet, FS_Singleton, ZenonT(120)
<1>8. /\ Cardinality(A) = IF p \in ToSet(ingress) THEN 1 ELSE 0
      /\ Cardinality(B) = IF p = hand THEN 1 ELSE 0
      /\ Cardinality(C) = IF \E s \in Senders : p \in Queued(s) THEN 1 ELSE 0
      /\ Cardinality(D) = IF \E s \in Senders : p = busy[s] THEN 1 ELSE 0
  BY <1>3, <1>4, <1>5, <1>6, <1>7, ZenonT(120)
<1>9. /\ ~(p \in ToSet(ingress) /\ p = hand)
      /\ ~(p \in ToSet(ingress) /\ \E s \in Senders : p \in Queued(s))
      /\ ~(p \in ToSet(ingress) /\ \E s \in Senders : p = busy[s])
      /\ ~(p = hand /\ \E s \in Senders : p \in Queued(s))
      /\ ~(p = hand /\ \E s \in Senders : p = busy[s])
      /\ ~((\E s \in Senders : p \in Queued(s)) /\ \E s \in Senders : p = busy[s])
  BY <1>2, ZenonT(120) DEF PacketInv, Apart
<1>10. IsHeld(p) <=>
          \/ p \in ToSet(ingress) \/ p = hand
          \/ \E s \in Senders : p \in Queued(s)
          \/ \E s \in Senders : p = busy[s]
  BY DEF IsHeld
<1>11. Holders(p) = IF IsHeld(p) THEN 1 ELSE 0
  BY <1>1, <1>8, <1>9, <1>10
<1> QED
  BY <1>2, <1>11

-----------------------------------------------------------------------------
(* The theorems. *)

(* natTable.Delete(key) never removes the entry of a successor: the entry *)
(* of the key is always the one sender whose goroutines have yet to       *)
(* delete it, however many senders the source has had.                    *)
THEOREM EntryIsOwn == Spec => []OwnEntry
<1>1. EntryInv => OwnEntry
  BY DEF EntryInv
<1> QED
  BY EntryInit, EntryStep, <1>1, PTL DEF Spec

(* Send, Close, dropAll and Process hand every packet back to the pool      *)
(* exactly once and never while somebody holds it, for any number of        *)
(* packets and senders and any capacities.                                  *)
THEOREM DroppedOnceHolds == Spec => []DroppedOnce
<1>1. Init => SenderInv
  BY EntryInit, PacketInit DEF SenderInv
<1>2. SenderInv => DroppedOnce
  BY OneHolder, ZenonT(120) DEF SenderInv, DroppedOnce
<1> QED
  BY <1>1, <1>2, SenderStep, PTL DEF Spec

(* A packet that was queued before Process knew that its outbound limits    *)
(* the queueing delay has the stamp by which it expires.                    *)
THEOREM ExpiryCoversHolds == Spec => []ExpiryCovers
<1>1. Init => SenderInv
  BY EntryInit, PacketInit DEF SenderInv
<1>2. SenderInv => ExpiryCovers
  BY DEF SenderInv, PacketInv, StampInv, ExpiryCovers
<1> QED
  BY <1>1, <1>2, SenderStep, PTL DEF Spec
=============================================================================
