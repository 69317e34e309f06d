----------------------------- MODULE MkcpProofs -----------------------------
(***************************************************************************)
(* For any number of segments, any windows and any number of datagrams     *)
(* under way, lost, repeated and reordered: what the client's window has   *)
(* let go of is at the server, and a clean end of stream is complete.      *)
(***************************************************************************)
EXTENDS Mkcp, NaturalsInduction, WellFoundedInduction, TLAPS

\* A leaf that names no prover is for SMT. The limit is generous: most leaves
\* take well under a second of it.
USE SMTT(120)

Conn == [state : States, sendNext : Nat, firstUnacked : Nat, sendWindow : SUBSET Nat,
         recvNext : Nat, recvCache : SUBSET Nat, ackList : SUBSET Nat, read : Nat,
         eof : BOOLEAN]

DataMsg == [type : {"data"}, number : Nat, sendingNext : Nat, close : BOOLEAN]
AckMsg  == [type : {"ack"}, numbers : SUBSET Nat, receivingNext : Nat, close : BOOLEAN]
CmdMsg  == [type : {"cmd"}, terminate : BOOLEAN, receivingNext : Nat, sendingNext : Nat,
            close : BOOLEAN]
Msg     == DataMsg \cup AckMsg \cup CmdMsg
IsBye(m) == m.type = "cmd" /\ m.terminate

(* The receiver.  What it has: everything before recvNext and the segments  *)
(* it keeps for later, which lie inside its window and leave a gap.         *)
Has(c, n) == n < c.recvNext \/ n \in c.recvCache
WindowOK(c) ==
    \A n \in c.recvCache : c.recvNext < n /\ n < c.recvNext + RecvWindow

Typed ==
    /\ ep \in [Ends -> Conn]
    /\ \A e \in Ends : WindowOK(ep[e])
    /\ net \in [Ends -> SUBSET Msg]
    /\ sessions \in Nat
    /\ cut \in BOOLEAN

-----------------------------------------------------------------------------
(* The operators of the module, on one Conn. *)

\* A set of numbers that is not empty has its least element.
LEMMA MinNat ==
  ASSUME NEW S \in SUBSET Nat, S # {}
  PROVE  Min(S) \in S /\ \A y \in S : Min(S) <= y
<1> DEFINE R == OpToRel(<, Nat)
<1>1. IsWellFoundedOn(R, Nat)  BY NatLessThanWellFounded, ZenonT(120)
<1>2. \A x, y \in Nat : ~(<<y, x>> \in R) => x <= y  BY DEF OpToRel
<1> HIDE DEF R
<1>3. PICK x \in S : \A y \in S : ~(<<y, x>> \in R)  BY <1>1, WFMin, ZenonT(120)
<1>4. \A y \in S : x <= y  BY <1>2, <1>3, ZenonT(120)
<1> QED  BY <1>4, ZenonT(120) DEF Min

\* What an operator that is about one direction leaves of the other.
SameReceiver(c, d) ==
    /\ d.recvNext = c.recvNext /\ d.recvCache = c.recvCache
    /\ d.read = c.read /\ d.eof = c.eof
SameSender(c, d) == d.sendNext = c.sendNext /\ d.sendWindow = c.sendWindow

\* setState: leaving a state other than for ReadyToClose gives the window up.
LEMMA SetStateIs ==
  ASSUME NEW c \in Conn, NEW s \in States
  PROVE  LET d == SetState(c, s)
         IN  /\ d \in Conn /\ d.state = s /\ SameReceiver(c, d)
             /\ d.sendNext = c.sendNext /\ d.ackList = c.ackList
             /\ d.sendWindow = IF c.state = s \/ s = "ReadyToClose" THEN c.sendWindow ELSE {}
BY ZenonT(120) DEF SetState, Conn, SameReceiver

\* The close option moves an open end on, and nothing else.
LEMMA HandleOptionIs ==
  ASSUME NEW c \in Conn, NEW close \in BOOLEAN
  PROVE  LET d == HandleOption(c, close)
         IN  /\ d \in Conn /\ SameReceiver(c, d) /\ d.ackList = c.ackList
             /\ d.sendNext = c.sendNext
             /\ ~close => d = c
             /\ d.state # c.state => d.state = IF c.state = "Active" THEN "PeerClosed"
                                                ELSE "Terminating"
             /\ c.state \notin {"Active", "ReadyToClose"} => d.state = c.state
<1>1. {"PeerClosed", "Terminating"} \subseteq States  BY DEF States
<1>2. CASE close /\ c.state = "ReadyToClose"
  BY <1>1, <1>2, SetStateIs DEF HandleOption
<1>3. CASE close /\ c.state = "Active"
  BY <1>1, <1>3, SetStateIs DEF HandleOption
<1>4. CASE ~(close /\ c.state = "ReadyToClose") /\ ~(close /\ c.state = "Active")
  BY <1>4 DEF HandleOption, SameReceiver
<1> QED  BY <1>2, <1>3, <1>4

\* The peer's sendingNext only clears acknowledgements it has seen.
LEMMA ProcessSendingNextIs ==
  ASSUME NEW c \in Conn, NEW next \in Nat
  PROVE  LET d == ProcessSendingNext(c, next)
         IN  /\ d \in Conn /\ SameReceiver(c, d) /\ SameSender(c, d) /\ d.state = c.state
             /\ d.ackList \subseteq c.ackList
BY DEF ProcessSendingNext, Conn, SameReceiver, SameSender

\* findFirstUnacknowledged leaves the window as it is.
LEMMA FindFirstUnackedIs ==
  ASSUME NEW c \in Conn
  PROVE  LET d == FindFirstUnacked(c)
         IN  /\ d \in Conn /\ SameReceiver(c, d) /\ SameSender(c, d) /\ d.state = c.state
             /\ d.ackList = c.ackList
<1> DEFINE u == IF c.sendWindow = {} THEN c.sendNext ELSE Min(c.sendWindow)
<1>1. c.sendWindow \in SUBSET Nat /\ c.sendNext \in Nat  BY DEF Conn
<1>2. u \in Nat  BY <1>1, MinNat
<1>3. FindFirstUnacked(c) = [c EXCEPT !.firstUnacked = u]  BY DEF FindFirstUnacked
<1> HIDE DEF u
<1> QED  BY <1>2, <1>3 DEF Conn, SameReceiver, SameSender

\* The peer's receivingNext takes from the window what lies before it.
LEMMA ProcessReceivingNextIs ==
  ASSUME NEW c \in Conn, NEW next \in Nat
  PROVE  LET d == ProcessReceivingNext(c, next)
         IN  /\ d \in Conn /\ SameReceiver(c, d) /\ d.state = c.state
             /\ d.ackList = c.ackList /\ d.sendNext = c.sendNext
             /\ d.sendWindow = {n \in c.sendWindow : n >= next}
<1> DEFINE e == [c EXCEPT !.sendWindow = {n \in @ : n >= next}]
<1>1. /\ e \in Conn /\ SameReceiver(c, e) /\ e.state = c.state
      /\ e.ackList = c.ackList /\ e.sendNext = c.sendNext
      /\ e.sendWindow = {n \in c.sendWindow : n >= next}
  BY DEF Conn, SameReceiver
<1>2. ProcessReceivingNext(c, next) = FindFirstUnacked(e)  BY DEF ProcessReceivingNext
<1> HIDE DEF e
<1> QED  BY <1>1, <1>2, FindFirstUnackedIs DEF SameReceiver, SameSender

\* Acknowledgements take at most the numbers they name from the window.
LEMMA ProcessAcksIs ==
  ASSUME NEW c \in Conn, NEW nums \in SUBSET Nat
  PROVE  LET d == ProcessAcks(c, nums)
         IN  /\ d \in Conn /\ SameReceiver(c, d) /\ d.state = c.state
             /\ d.ackList = c.ackList /\ d.sendNext = c.sendNext
             /\ d.sendWindow \subseteq c.sendWindow
             /\ c.sendWindow \subseteq d.sendWindow \cup nums
<1> DEFINE valid == {n \in nums \cap c.sendWindow : c.firstUnacked <= n /\ n < c.sendNext}
           e == [c EXCEPT !.sendWindow = @ \ valid]
<1>1. valid \subseteq nums  OBVIOUS
<1>2. ProcessAcks(c, nums) = IF valid = {} THEN c ELSE FindFirstUnacked(e)  BY DEF ProcessAcks
<1> HIDE DEF valid
<1>3. /\ e \in Conn /\ SameReceiver(c, e) /\ e.state = c.state
      /\ e.ackList = c.ackList /\ e.sendNext = c.sendNext
      /\ e.sendWindow = c.sendWindow \ valid
  BY DEF Conn, SameReceiver
<1> HIDE DEF e
<1>4. CASE valid = {}
  BY <1>2, <1>4 DEF SameReceiver
<1>5. CASE valid # {}
  <2> DEFINE d == FindFirstUnacked(e)
  <2>1. ProcessAcks(c, nums) = d  BY <1>2, <1>5
  <2>2. /\ d \in Conn /\ SameReceiver(e, d) /\ SameSender(e, d)
        /\ d.state = e.state /\ d.ackList = e.ackList
    BY <1>3, FindFirstUnackedIs
  <2> HIDE DEF d
  <2>3. SameReceiver(c, d)
    BY <1>3, <2>2 DEF SameReceiver
  <2>4. d.sendNext = c.sendNext /\ d.sendWindow = c.sendWindow \ valid
    BY <1>3, <2>2 DEF SameSender
  <2> QED
    BY <1>1, <1>3, <2>1, <2>2, <2>3, <2>4, ZenonT(120)
<1> QED  BY <1>4, <1>5

\* d has what c has, and no other segments than those of new.
Takes(c, d, new) ==
    /\ c.recvNext <= d.recvNext
    /\ \A n \in Nat : Has(c, n) => Has(d, n)
    /\ \A n \in Nat : Has(d, n) => Has(c, n) \/ n \in new

\* Moving segments from the cache to the reader loses and invents none.
LEMMA DeliverIs ==
  ASSUME NEW c \in Conn,
         \A n \in c.recvCache : c.recvNext <= n /\ n < c.recvNext + RecvWindow
  PROVE  LET d == Deliver(c)
         IN  /\ d \in Conn /\ SameSender(c, d) /\ d.state = c.state
             /\ d.ackList = c.ackList /\ d.read = c.read /\ d.eof = c.eof
             /\ WindowOK(d)
             /\ Takes(c, d, {})
<1> DEFINE gaps == {n \in c.recvNext .. (c.recvNext + RecvWindow) : n \notin c.recvCache}
           next == Min(gaps)
           d == [c EXCEPT !.recvNext = next, !.recvCache = {n \in @ : n >= next}]
<1>1. c.recvNext \in Nat /\ c.recvCache \in SUBSET Nat /\ RecvWindow \in Nat
  BY KcpAssumption DEF Conn
<1>2. gaps \in SUBSET Nat /\ c.recvNext + RecvWindow \in gaps  BY <1>1
<1>3. /\ next \in Nat /\ c.recvNext <= next /\ next \notin c.recvCache
      /\ \A n \in Nat : c.recvNext <= n /\ n < next => n \in c.recvCache
  <2>1. next \in gaps /\ \A y \in gaps : next <= y  BY <1>2, MinNat, ZenonT(120)
  <2> HIDE DEF next
  <2> QED  BY <1>1, <2>1
<1>4. Deliver(c) = d  BY DEF Deliver
<1> HIDE DEF next, gaps
<1>5. /\ d \in Conn /\ SameSender(c, d) /\ d.state = c.state
      /\ d.ackList = c.ackList /\ d.read = c.read /\ d.eof = c.eof
      /\ d.recvNext = next /\ d.recvCache = {n \in c.recvCache : n >= next}
  BY <1>1, <1>3, ZenonT(120) DEF Conn, SameSender
<1> HIDE DEF d
<1>6. WindowOK(d)  BY <1>1, <1>3, <1>5 DEF WindowOK
<1>7. Takes(c, d, {})  BY <1>1, <1>3, <1>5 DEF Takes, Has
<1> QED  BY <1>4, <1>5, <1>6, <1>7

-----------------------------------------------------------------------------
(* Input, as the receiver of segments and as their sender. *)

\* The fields of a segment, by its type.
LEMMA MsgFields ==
  ASSUME NEW m \in Msg
  PROVE  /\ m.close \in BOOLEAN
         /\ m.type \in {"data", "ack", "cmd"}
         /\ m.type = "data" => m.number \in Nat /\ m.sendingNext \in Nat
         /\ m.type = "ack" => m.numbers \in SUBSET Nat /\ m.receivingNext \in Nat
         /\ m.type = "cmd" => /\ m.terminate \in BOOLEAN /\ m.receivingNext \in Nat
                              /\ m.sendingNext \in Nat
BY DEF Msg, DataMsg, AckMsg, CmdMsg

\* What Input makes of the receiver; new are the segments m brings.
Receives(c, d, new) ==
    /\ d \in Conn /\ d.read = c.read /\ d.eof = c.eof
    /\ WindowOK(d) /\ Takes(c, d, new)
    /\ \A n \in d.ackList : n \in c.ackList \/ Has(d, n)

\* A data segment adds its own number to what the receiver has.
LEMMA OnDataReceives ==
  ASSUME NEW c \in Conn, WindowOK(c), NEW m \in Msg, m.type = "data"
  PROVE  LET d == OnData(c, m)
         IN  /\ Receives(c, d, {m.number}) /\ d.sendNext = c.sendNext
             /\ d.state = HandleOption(c, m.close).state
             /\ d.sendWindow = HandleOption(c, m.close).sendWindow
<1> DEFINE h == HandleOption(c, m.close)
           p == ProcessSendingNext(h, m.sendingNext)
           fits == p.recvNext <= m.number /\ m.number < p.recvNext + RecvWindow
           k == [p EXCEPT !.ackList = @ \cup {m.number}, !.recvCache = @ \cup {m.number}]
           e == IF fits THEN k ELSE p
           d == Deliver(e)
<1>1. m.close \in BOOLEAN /\ m.number \in Nat /\ m.sendingNext \in Nat  BY MsgFields
<1>2. OnData(c, m) = d  BY DEF OnData
<1>3. h \in Conn /\ SameReceiver(c, h) /\ h.ackList = c.ackList /\ h.sendNext = c.sendNext
  BY <1>1, HandleOptionIs
<1>4. p \in Conn /\ SameReceiver(h, p) /\ SameSender(h, p) /\ p.state = h.state
      /\ p.ackList \subseteq h.ackList
  BY <1>1, <1>3, ProcessSendingNextIs, ZenonT(120)
<1> HIDE DEF h, p
<1>5. /\ k \in Conn /\ k.recvNext = p.recvNext /\ k.read = p.read /\ k.eof = p.eof
      /\ k.state = p.state /\ SameSender(p, k)
      /\ k.ackList = p.ackList \cup {m.number} /\ k.recvCache = p.recvCache \cup {m.number}
  BY <1>1, <1>4, ZenonT(120) DEF Conn, SameSender
<1> HIDE DEF k
<1>6. /\ e \in Conn /\ e.recvNext = c.recvNext /\ e.read = c.read /\ e.eof = c.eof
      /\ e.state = h.state /\ e.sendNext = c.sendNext /\ e.sendWindow = h.sendWindow
      /\ \A n \in e.ackList : n \in c.ackList \/ n \in e.recvCache
      /\ c.recvCache \subseteq e.recvCache /\ e.recvCache \subseteq c.recvCache \cup {m.number}
  BY <1>3, <1>4, <1>5 DEF SameReceiver, SameSender
<1>7. \A n \in e.recvCache : e.recvNext <= n /\ n < e.recvNext + RecvWindow
  <2>1. c.recvNext \in Nat /\ c.recvCache \in SUBSET Nat /\ RecvWindow \in Nat
    BY KcpAssumption DEF Conn
  <2>2. CASE fits
    BY <1>1, <1>3, <1>4, <1>5, <2>1, <2>2 DEF SameReceiver, WindowOK
  <2>3. CASE ~fits
    <3>1. e.recvCache = c.recvCache /\ e.recvNext = c.recvNext  BY <1>3, <1>4, <2>3 DEF SameReceiver
    <3> QED  BY <2>1, <3>1 DEF WindowOK
  <2> QED  BY <2>2, <2>3
<1> HIDE DEF e
<1>8. /\ d \in Conn /\ SameSender(e, d) /\ d.state = e.state
      /\ d.ackList = e.ackList /\ d.read = e.read /\ d.eof = e.eof
      /\ WindowOK(d) /\ Takes(e, d, {})
  BY <1>6, <1>7, DeliverIs
<1> HIDE DEF d
<1>9. Takes(c, d, {m.number})
  BY <1>6, <1>8 DEF Takes, Has
<1>10. \A n \in d.ackList : n \in c.ackList \/ Has(d, n)
  <2>1. d.ackList \in SUBSET Nat  BY <1>8 DEF Conn
  <2> QED  BY <1>6, <1>8, <2>1 DEF Takes, Has
<1> QED  BY <1>2, <1>6, <1>8, <1>9, <1>10 DEF Receives, SameSender, h

\* An operator that leaves the receiver alone takes nothing.
LEMMA SameTakes ==
  ASSUME NEW c \in Conn, NEW d \in Conn, WindowOK(c), SameReceiver(c, d),
         d.ackList \subseteq c.ackList, NEW new
  PROVE  Receives(c, d, new)
<1>1. c.recvNext \in Nat  BY DEF Conn
<1> QED  BY <1>1 DEF Receives, SameReceiver, WindowOK, Takes, Has

\* An ack segment takes from the window only what it acknowledges.
LEMMA OnAckIs ==
  ASSUME NEW c \in Conn, NEW m \in Msg, m.type = "ack"
  PROVE  LET d == OnAck(c, m)
             h == HandleOption(c, m.close)
         IN  /\ d \in Conn /\ SameReceiver(c, d) /\ d.ackList = c.ackList
             /\ d.state = h.state /\ d.sendNext = c.sendNext
             /\ d.sendWindow \subseteq h.sendWindow
             /\ \A n \in h.sendWindow : n \in d.sendWindow \/ n < m.receivingNext \/ n \in m.numbers
<1> DEFINE h == HandleOption(c, m.close)
           p == ProcessReceivingNext(h, m.receivingNext)
           d == ProcessAcks(p, m.numbers)
<1>1. m.close \in BOOLEAN /\ m.numbers \in SUBSET Nat /\ m.receivingNext \in Nat  BY MsgFields
<1>2. OnAck(c, m) = d  BY DEF OnAck
<1>3. h \in Conn /\ SameReceiver(c, h) /\ h.ackList = c.ackList /\ h.sendNext = c.sendNext
  BY <1>1, HandleOptionIs
<1>4. /\ p \in Conn /\ SameReceiver(h, p) /\ p.state = h.state
      /\ p.ackList = h.ackList /\ p.sendNext = h.sendNext
      /\ p.sendWindow = {n \in h.sendWindow : n >= m.receivingNext}
  BY <1>1, <1>3, ProcessReceivingNextIs
<1>5. /\ d \in Conn /\ SameReceiver(p, d) /\ d.state = p.state
      /\ d.ackList = p.ackList /\ d.sendNext = p.sendNext
      /\ d.sendWindow \subseteq p.sendWindow
      /\ p.sendWindow \subseteq d.sendWindow \cup m.numbers
  BY <1>1, <1>4, ProcessAcksIs
<1>6. h.sendWindow \in SUBSET Nat  BY <1>3 DEF Conn
<1> HIDE DEF h, p, d
<1>7. \A n \in h.sendWindow : n \in d.sendWindow \/ n < m.receivingNext \/ n \in m.numbers
  BY <1>1, <1>4, <1>5, <1>6
<1> QED  BY <1>2, <1>3, <1>4, <1>5, <1>7 DEF SameReceiver, h

\* A terminate command moves the state on, as the peer is gone.
LEMMA OnTerminateIs ==
  ASSUME NEW c \in Conn
  PROVE  LET d == OnTerminate(c)
         IN  /\ d \in Conn /\ SameReceiver(c, d) /\ d.ackList = c.ackList
             /\ d.sendNext = c.sendNext
             /\ d.state = CASE c.state \in {"Active", "PeerClosed"} -> "PeerTerminating"
                             [] c.state = "ReadyToClose" -> "Terminating"
                             [] c.state = "Terminating" -> "Terminated"
                             [] OTHER -> c.state
             /\ c.state \notin {"Active", "PeerClosed", "ReadyToClose", "Terminating"} => d = c
             /\ d.sendWindow \subseteq c.sendWindow
<1>1. {"PeerTerminating", "Terminating", "Terminated"} \subseteq States  BY DEF States
<1>2. CASE c.state \in {"Active", "PeerClosed"}
  BY <1>1, <1>2, SetStateIs DEF OnTerminate
<1>3. CASE c.state = "ReadyToClose"
  BY <1>1, <1>3, SetStateIs DEF OnTerminate
<1>4. CASE c.state = "Terminating"
  BY <1>1, <1>4, SetStateIs DEF OnTerminate
<1>5. CASE c.state \notin {"Active", "PeerClosed", "ReadyToClose", "Terminating"}
  BY <1>5 DEF OnTerminate, SameReceiver
<1> QED  BY <1>2, <1>3, <1>4, <1>5

\* A command segment takes from the window what lies before receivingNext.
LEMMA OnCommandIs ==
  ASSUME NEW c \in Conn, NEW m \in Msg, m.type = "cmd"
  PROVE  LET d == OnCommand(c, m)
             h == HandleOption(c, m.close)
             t == IF m.terminate THEN OnTerminate(h) ELSE h
         IN  /\ d \in Conn /\ SameReceiver(c, d) /\ d.ackList \subseteq c.ackList
             /\ d.state = t.state /\ d.sendNext = c.sendNext
             /\ d.sendWindow \subseteq t.sendWindow
             /\ \A n \in t.sendWindow : n \in d.sendWindow \/ n < m.receivingNext
<1> DEFINE h == HandleOption(c, m.close)
           t == IF m.terminate THEN OnTerminate(h) ELSE h
           p == ProcessReceivingNext(t, m.receivingNext)
           d == ProcessSendingNext(p, m.sendingNext)
<1>1. /\ m.close \in BOOLEAN /\ m.terminate \in BOOLEAN
      /\ m.receivingNext \in Nat /\ m.sendingNext \in Nat
  BY MsgFields
<1>2. OnCommand(c, m) = d  BY DEF OnCommand
<1>3. h \in Conn /\ SameReceiver(c, h) /\ h.ackList = c.ackList /\ h.sendNext = c.sendNext
  BY <1>1, HandleOptionIs
<1>4. t \in Conn /\ SameReceiver(h, t) /\ t.ackList = h.ackList /\ t.sendNext = h.sendNext
  BY <1>1, <1>3, OnTerminateIs DEF SameReceiver
<1>5. /\ p \in Conn /\ SameReceiver(t, p) /\ p.state = t.state
      /\ p.ackList = t.ackList /\ p.sendNext = t.sendNext
      /\ p.sendWindow = {n \in t.sendWindow : n >= m.receivingNext}
  BY <1>1, <1>4, ProcessReceivingNextIs, ZenonT(120)
<1>6. d \in Conn /\ SameReceiver(p, d) /\ SameSender(p, d) /\ d.state = p.state
      /\ d.ackList \subseteq p.ackList
  BY <1>1, <1>5, ProcessSendingNextIs, ZenonT(120)
<1>7. t.sendWindow \in SUBSET Nat  BY <1>4 DEF Conn
<1> HIDE DEF t, p, d
<1>8. \A n \in t.sendWindow : n \in d.sendWindow \/ n < m.receivingNext
  BY <1>1, <1>5, <1>6, <1>7 DEF SameSender
<1> QED  BY <1>2, <1>3, <1>4, <1>5, <1>6, <1>8 DEF SameReceiver, SameSender, t, h

\* The segments a datagram brings.
Brings(m) == IF m.type = "data" THEN {m.number} ELSE {}

\* Input at the receiving end.  Only a terminate moves it on, but for the
\* client's close, which an Active server answers with PeerClosed.
LEMMA InputReceives ==
  ASSUME NEW c \in Conn, WindowOK(c), NEW m \in Msg
  PROVE  LET d == Input(c, m)
         IN  /\ Receives(c, d, Brings(m))
             /\ c.state # "ReadyToClose" /\ ~IsBye(m) =>
                    \/ d.state = c.state
                    \/ c.state = "Active" /\ d.state = "PeerClosed"
             /\ c.state \in {"Active", "PeerClosed"} /\ IsBye(m) => d.state = "PeerTerminating"
             /\ c.state = "PeerTerminating" => d.state = c.state
             /\ c.state \in {"Terminating", "Terminated"} =>
                    d.state \in {"Terminating", "Terminated"}
<1> DEFINE h == HandleOption(c, m.close)
<1>1. m.close \in BOOLEAN /\ m.type \in {"data", "ack", "cmd"}  BY MsgFields
<1>2. /\ h \in Conn
      /\ h.state # c.state => h.state = IF c.state = "Active" THEN "PeerClosed" ELSE "Terminating"
      /\ c.state \notin {"Active", "ReadyToClose"} => h.state = c.state
  BY <1>1, HandleOptionIs
<1>3. CASE c.state = "Terminated"
  <2>1. Input(c, m) = c  BY <1>3 DEF Input
  <2> QED  BY <1>3, <2>1, SameTakes DEF SameReceiver
<1>4. CASE c.state # "Terminated" /\ m.type = "data"
  <2>1. Input(c, m) = OnData(c, m)  BY <1>4 DEF Input
  <2> QED  BY <1>2, <1>4, <2>1, OnDataReceives DEF Brings, IsBye
<1>5. CASE c.state # "Terminated" /\ m.type = "ack"
  <2> DEFINE d == OnAck(c, m)
  <2>1. Input(c, m) = d  BY <1>5 DEF Input
  <2>2. d \in Conn /\ SameReceiver(c, d) /\ d.ackList = c.ackList /\ d.state = h.state
    BY <1>5, OnAckIs
  <2> HIDE DEF d, h
  <2>3. Receives(c, d, Brings(m))  BY <2>2, SameTakes
  <2> QED  BY <1>2, <1>5, <2>1, <2>2, <2>3 DEF IsBye
<1>6. CASE c.state # "Terminated" /\ m.type = "cmd"
  <2> DEFINE d == OnCommand(c, m)
             t == IF m.terminate THEN OnTerminate(h) ELSE h
  <2>1. Input(c, m) = d  BY <1>6 DEF Input
  <2>2. d \in Conn /\ SameReceiver(c, d) /\ d.ackList \subseteq c.ackList /\ d.state = t.state
    BY <1>6, OnCommandIs
  <2>3. m.terminate => t.state = CASE h.state \in {"Active", "PeerClosed"} -> "PeerTerminating"
                                   [] h.state = "ReadyToClose" -> "Terminating"
                                   [] h.state = "Terminating" -> "Terminated"
                                   [] OTHER -> h.state
    BY <1>2, OnTerminateIs
  <2>4. ~m.terminate => t.state = h.state  OBVIOUS
  <2> HIDE DEF d, h, t
  <2>5. Receives(c, d, Brings(m))  BY <2>2, SameTakes
  <2> QED  BY <1>2, <1>6, <2>1, <2>2, <2>3, <2>4, <2>5, MsgFields DEF IsBye
<1> QED  BY <1>1, <1>3, <1>4, <1>5, <1>6

\* Input at the sending end, of a datagram without the close option and not a
\* terminate unless the sender is past its window: only what the datagram
\* acknowledges leaves the window.
LEMMA InputSends ==
  ASSUME NEW c \in Conn, WindowOK(c), NEW m \in Msg, ~m.close,
         IsBye(m) => c.state \in {"Terminating", "Terminated"},
         c.state \in {"Terminating", "Terminated"} => c.sendWindow = {}
  PROVE  LET d == Input(c, m)
         IN  /\ d \in Conn /\ d.sendNext = c.sendNext
             /\ \/ d.state = c.state
                \/ c.state = "Terminating" /\ d.state = "Terminated"
             /\ d.sendWindow \subseteq c.sendWindow
             /\ \A n \in c.sendWindow :
                    \/ n \in d.sendWindow
                    \/ m.type = "ack" /\ (n < m.receivingNext \/ n \in m.numbers)
                    \/ m.type = "cmd" /\ n < m.receivingNext
<1> DEFINE h == HandleOption(c, m.close)
<1>1. m.close = FALSE /\ m.type \in {"data", "ack", "cmd"}  BY MsgFields
<1>2. h = c  BY <1>1, HandleOptionIs, ZenonT(120)
<1>3. CASE c.state = "Terminated"
  BY <1>3 DEF Input
<1>4. CASE c.state # "Terminated" /\ m.type = "data"
  <2> DEFINE d == OnData(c, m)
  <2>1. Input(c, m) = d  BY <1>4 DEF Input
  <2>2. Receives(c, d, {m.number}) /\ d.sendNext = c.sendNext
        /\ d.state = h.state /\ d.sendWindow = h.sendWindow
    BY <1>4, OnDataReceives
  <2>3. d \in Conn  BY <2>2 DEF Receives
  <2> HIDE DEF d, h
  <2> QED  BY <1>2, <2>1, <2>2, <2>3
<1>5. CASE c.state # "Terminated" /\ m.type = "ack"
  <2>1. Input(c, m) = OnAck(c, m)  BY <1>5 DEF Input
  <2> QED  BY <1>2, <1>5, <2>1, OnAckIs
<1>6. CASE c.state # "Terminated" /\ m.type = "cmd"
  <2> DEFINE d == OnCommand(c, m)
             t == IF m.terminate THEN OnTerminate(c) ELSE c
  <2>1. Input(c, m) = d  BY <1>6 DEF Input
  <2>2. /\ d \in Conn /\ d.state = t.state /\ d.sendNext = c.sendNext
        /\ d.sendWindow \subseteq t.sendWindow
        /\ \A n \in t.sendWindow : n \in d.sendWindow \/ n < m.receivingNext
    BY <1>2, <1>6, OnCommandIs
  <2>3. CASE m.terminate
    <3>1. c.state = "Terminating" /\ c.sendWindow = {}  BY <1>6, <2>3 DEF IsBye
    <3>2. t.state = "Terminated" /\ t.sendWindow \subseteq c.sendWindow  BY <2>3, <3>1, OnTerminateIs
    <3> HIDE DEF d, t
    <3> QED  BY <1>6, <2>1, <2>2, <3>1, <3>2
  <2>4. CASE ~m.terminate
    <3>1. t = c  BY <2>4
    <3> HIDE DEF d, t
    <3> QED  BY <1>6, <2>1, <2>2, <3>1
  <2> QED  BY <2>3, <2>4
<1> QED  BY <1>1, <1>3, <1>4, <1>5, <1>6

-----------------------------------------------------------------------------
(* Flush. *)

\* The Conn a flush leaves.
Flushed(c, late) ==
    IF late /\ c.state = "Terminating" THEN SetState(FlushState(c, late), "Terminated")
    ELSE FlushState(c, late)

\* flush: an end terminates when its window is empty or time is up.
LEMMA FlushStateIs ==
  ASSUME NEW c \in Conn, NEW late \in BOOLEAN
  PROVE  LET d == FlushState(c, late)
         IN  /\ d \in Conn /\ SameReceiver(c, d) /\ d.ackList = c.ackList
             /\ d.sendNext = c.sendNext /\ d.sendWindow \subseteq c.sendWindow
             /\ d.state = IF \/ c.state = "PeerTerminating" /\ late
                             \/ c.state = "ReadyToClose" /\ (late \/ c.sendWindow = {})
                             \/ c.state = "Active" /\ late /\ c.sendWindow = {}
                          THEN "Terminating"
                          ELSE IF c.state = "Active" /\ late THEN "ReadyToClose" ELSE c.state
             /\ d.state = c.state \/ d.state = "ReadyToClose" => d.sendWindow = c.sendWindow
             /\ d.state = "Terminating" /\ c.state # "Terminating" => d.sendWindow = {}
<1> DEFINE idle == IF late /\ c.state = "Active" THEN SetState(c, "ReadyToClose") ELSE c
           drained == IF idle.state = "ReadyToClose" /\ idle.sendWindow = {}
                      THEN SetState(idle, "Terminating") ELSE idle
           d == IF late /\ c.state \in {"PeerTerminating", "ReadyToClose"}
                THEN SetState(drained, "Terminating") ELSE drained
<1>1. {"ReadyToClose", "Terminating"} \subseteq States  BY DEF States
<1>2. FlushState(c, late) = d  BY DEF FlushState
<1>3. /\ idle \in Conn /\ SameReceiver(c, idle) /\ idle.ackList = c.ackList
      /\ idle.sendNext = c.sendNext /\ idle.sendWindow = c.sendWindow
      /\ idle.state = IF late /\ c.state = "Active" THEN "ReadyToClose" ELSE c.state
  BY <1>1, SetStateIs DEF SameReceiver
<1> HIDE DEF idle
<1>4. /\ drained \in Conn /\ SameReceiver(idle, drained) /\ drained.ackList = idle.ackList
      /\ drained.sendNext = idle.sendNext /\ drained.sendWindow = idle.sendWindow
      /\ drained.state = IF idle.state = "ReadyToClose" /\ idle.sendWindow = {}
                         THEN "Terminating" ELSE idle.state
  <2>1. CASE idle.state = "ReadyToClose" /\ idle.sendWindow = {}
    <3>1. drained = SetState(idle, "Terminating")  BY <2>1
    <3> HIDE DEF drained
    <3> QED  BY <1>1, <1>3, <2>1, <3>1, SetStateIs DEF SameReceiver
  <2>2. CASE ~(idle.state = "ReadyToClose" /\ idle.sendWindow = {})
    <3>1. drained = idle  BY <2>2
    <3> HIDE DEF drained
    <3> QED  BY <1>3, <2>2, <3>1 DEF SameReceiver
  <2> QED  BY <2>1, <2>2
<1> HIDE DEF drained
<1>5. /\ d \in Conn /\ SameReceiver(drained, d) /\ d.ackList = drained.ackList
      /\ d.sendNext = drained.sendNext
      /\ d.state = IF late /\ c.state \in {"PeerTerminating", "ReadyToClose"}
                   THEN "Terminating" ELSE drained.state
      /\ d.sendWindow = IF late /\ c.state \in {"PeerTerminating", "ReadyToClose"}
                            /\ drained.state # "Terminating"
                        THEN {} ELSE drained.sendWindow
  BY <1>1, <1>4, SetStateIs DEF SameReceiver
<1> HIDE DEF d
<1>6. SameReceiver(c, d) /\ d.ackList = c.ackList /\ d.sendNext = c.sendNext
  BY <1>3, <1>4, <1>5 DEF SameReceiver
<1>7. d.sendWindow \subseteq c.sendWindow
  BY <1>3, <1>4, <1>5
<1>8. d.state = IF \/ c.state = "PeerTerminating" /\ late
                   \/ c.state = "ReadyToClose" /\ (late \/ c.sendWindow = {})
                   \/ c.state = "Active" /\ late /\ c.sendWindow = {}
               THEN "Terminating"
               ELSE IF c.state = "Active" /\ late THEN "ReadyToClose" ELSE c.state
  BY <1>3, <1>4, <1>5
<1>9. /\ d.state = c.state \/ d.state = "ReadyToClose" => d.sendWindow = c.sendWindow
      /\ d.state = "Terminating" /\ c.state # "Terminating" => d.sendWindow = {}
  BY <1>3, <1>4, <1>5
<1> QED  BY <1>2, <1>5, <1>6, <1>7, <1>8, <1>9

\* flush, with the end of a Terminating connection.
LEMMA FlushedIs ==
  ASSUME NEW c \in Conn, NEW late \in BOOLEAN
  PROVE  LET d == FlushState(c, late)
             f == Flushed(c, late)
         IN  /\ f \in Conn /\ SameReceiver(c, f) /\ f.ackList = c.ackList
             /\ f.sendNext = c.sendNext
             /\ ~(late /\ c.state = "Terminating") => f = d
             /\ late /\ c.state = "Terminating" => f.state = "Terminated" /\ f.sendWindow = {}
<1> DEFINE d == FlushState(c, late)
<1>1. "Terminated" \in States  BY DEF States
<1>2. /\ d \in Conn /\ SameReceiver(c, d) /\ d.ackList = c.ackList /\ d.sendNext = c.sendNext
      /\ c.state = "Terminating" => d.state = "Terminating"
  BY FlushStateIs
<1> HIDE DEF d
<1>3. CASE late /\ c.state = "Terminating"
  <2>1. Flushed(c, late) = SetState(d, "Terminated")  BY <1>3 DEF Flushed, d
  <2> DEFINE f == SetState(d, "Terminated")
  <2>2. /\ f \in Conn /\ SameReceiver(d, f) /\ f.ackList = d.ackList
        /\ f.sendNext = d.sendNext /\ f.state = "Terminated" /\ f.sendWindow = {}
    BY <1>1, <1>2, <1>3, SetStateIs DEF SameReceiver
  <2> HIDE DEF f
  <2>3. SameReceiver(c, f)  BY <1>2, <2>2 DEF SameReceiver
  <2> QED  BY <1>2, <1>3, <2>1, <2>2, <2>3, ZenonT(120) DEF d, f
<1>4. CASE ~(late /\ c.state = "Terminating")
  <2>1. Flushed(c, late) = d  BY <1>4 DEF Flushed, d
  <2> QED  BY <1>2, <1>4, <2>1 DEF d
<1> QED  BY <1>3, <1>4

\* What a flush may put on the wire.
Out(c, late) ==
    LET d   == FlushState(c, late)
        bye == \/ c.state = "Terminating"
               \/ c.state \in {"Active", "ReadyToClose"} /\ c.sendWindow = {} /\ d.state = "Terminating"
    IN  IF bye THEN {PingSegment(d, TRUE)}
        ELSE {DataSegment(d, n) : n \in d.sendWindow}
             \cup {PingSegment(d, FALSE)}
             \cup (IF d.ackList = {} THEN {} ELSE {AckSegment(d)})

\* What flush may send says no more than the state it is sent from.
LEMMA OutIs ==
  ASSUME NEW c \in Conn, NEW late \in BOOLEAN, NEW m \in Out(c, late)
  PROVE  LET d == FlushState(c, late)
         IN  /\ m \in Msg
             /\ m.close = (d.state = "ReadyToClose")
             /\ m.type = "data" => m.number \in d.sendWindow
             /\ m.type = "ack" => m.numbers = c.ackList
             /\ m.type \in {"ack", "cmd"} => m.receivingNext = c.recvNext
             /\ IsBye(m) => /\ d.state = "Terminating"
                            /\ c.state \in {"Active", "ReadyToClose", "Terminating"}
<1> DEFINE d == FlushState(c, late)
<1>1. /\ d \in Conn /\ SameReceiver(c, d) /\ d.ackList = c.ackList
      /\ c.state = "Terminating" => d.state = "Terminating"
  BY FlushStateIs
<1>2. /\ d.recvNext \in Nat /\ d.ackList \in SUBSET Nat /\ d.firstUnacked \in Nat
      /\ d.sendWindow \in SUBSET Nat /\ d.recvNext = c.recvNext
  BY <1>1 DEF Conn, SameReceiver
<1>3. \/ /\ m = PingSegment(d, TRUE)
         /\ \/ c.state = "Terminating"
            \/ c.state \in {"Active", "ReadyToClose"} /\ c.sendWindow = {} /\ d.state = "Terminating"
      \/ \E n \in d.sendWindow : m = DataSegment(d, n)
      \/ m = PingSegment(d, FALSE)
      \/ m = AckSegment(d)
  BY ZenonT(120) DEF Out
<1> HIDE DEF d
<1>4. CASE /\ m = PingSegment(d, TRUE)
           /\ \/ c.state = "Terminating"
              \/ c.state \in {"Active", "ReadyToClose"} /\ c.sendWindow = {} /\ d.state = "Terminating"
  <2>1. /\ m \in CmdMsg /\ m.type = "cmd" /\ m.close = (d.state = "ReadyToClose")
        /\ m.receivingNext = d.recvNext
    BY <1>2, <1>4 DEF PingSegment, CmdMsg
  <2> QED  BY <1>1, <1>2, <1>4, <2>1, ZenonT(120) DEF Msg, d
<1>5. CASE \E n \in d.sendWindow : m = DataSegment(d, n)
  <2>1. PICK n \in d.sendWindow : m = DataSegment(d, n)  BY <1>5
  <2>2. /\ m \in DataMsg /\ m.type = "data" /\ m.close = (d.state = "ReadyToClose")
        /\ m.number = n
    BY <1>2, <2>1 DEF DataSegment, DataMsg
  <2> QED  BY <2>2 DEF Msg, IsBye, d
<1>6. CASE m = PingSegment(d, FALSE)
  <2>1. /\ m \in CmdMsg /\ m.type = "cmd" /\ m.close = (d.state = "ReadyToClose")
        /\ m.receivingNext = d.recvNext /\ m.terminate = FALSE
    BY <1>2, <1>6 DEF PingSegment, CmdMsg
  <2> QED  BY <1>2, <2>1 DEF Msg, IsBye, d
<1>7. CASE m = AckSegment(d)
  <2>1. /\ m \in AckMsg /\ m.type = "ack" /\ m.close = (d.state = "ReadyToClose")
        /\ m.numbers = d.ackList /\ m.receivingNext = d.recvNext
    BY <1>2, <1>7 DEF AckSegment, AckMsg
  <2> QED  BY <1>1, <1>2, <2>1 DEF Msg, IsBye, d
<1> QED  BY <1>3, <1>4, <1>5, <1>6, <1>7, ZenonT(120)

-----------------------------------------------------------------------------
(* The invariant.  As long as the client's stream has not been given up the  *)
(* server has what the client's window has let go of, nothing under way says *)
(* more than that, and the server ends only after the client has.            *)

Over == {"Terminating", "Terminated"}

ClientOK(C) ==
    /\ C.state \in {"Active", "ReadyToClose"} \cup Over
    /\ \A n \in C.sendWindow : n < C.sendNext
    /\ C.state \in Over => C.sendWindow = {}

ServerOK(S) ==
    /\ S.state \in {"None", "Active", "PeerClosed", "PeerTerminating"} \cup Over
    /\ \A n \in S.ackList : Has(S, n)
    /\ S.read <= S.recvNext

Pair(C, S) ==
    /\ \A n \in Nat : Has(S, n) => n < C.sendNext
    /\ \A n \in Nat : n < C.sendNext => n \in C.sendWindow \/ Has(S, n)
    /\ S.state \in {"PeerTerminating"} \cup Over => C.state \in Over
    /\ S.eof => S.state \in Over /\ S.read = C.sendNext

ToServer(C, m) ==
    /\ m.type = "data" => m.number < C.sendNext
    /\ IsBye(m) => C.state \in Over

ToClient(C, S, m) ==
    /\ ~m.close
    /\ m.type = "ack" => \A n \in m.numbers : Has(S, n)
    /\ m.type \in {"ack", "cmd"} => m.receivingNext <= S.recvNext
    /\ IsBye(m) => C.state \in Over

Safe(C, S, toS, toC) ==
    /\ ClientOK(C) /\ ServerOK(S) /\ Pair(C, S)
    /\ \A m \in toS : ToServer(C, m)
    /\ \A m \in toC : ToClient(C, S, m)

Begun == IF ep[Server].state = "None" THEN ep[Server] = Fresh("None") ELSE sessions > 0

KcpInv ==
    /\ Typed
    /\ ~cut => Safe(ep[Client], ep[Server], net[Server], net[Client]) /\ Begun

-----------------------------------------------------------------------------
(* What a move of one end must respect. *)

\* The client may move on as long as the server has what it lets go of.
LEMMA ClientMoves ==
  ASSUME NEW C \in Conn, NEW D \in Conn, NEW S \in Conn,
         NEW toS \in SUBSET Msg, NEW toC \in SUBSET Msg, Safe(C, S, toS, toC),
         ClientOK(D), C.sendNext <= D.sendNext,
         C.state \in Over => D.state \in Over /\ D.sendNext = C.sendNext,
         \A n \in Nat : n < D.sendNext => n \in D.sendWindow \/ Has(S, n)
  PROVE  Safe(D, S, toS, toC)
<1>1. C.sendNext \in Nat /\ D.sendNext \in Nat  BY DEF Conn
<1>2. Pair(D, S)
  <2>1. \A n \in Nat : Has(S, n) => n < D.sendNext  BY <1>1 DEF Safe, Pair
  <2> QED  BY <2>1 DEF Safe, Pair
<1>3. ASSUME NEW m \in toS  PROVE ToServer(D, m)
  <2>1. ToServer(C, m) /\ (m.type = "data" => m.number \in Nat)
    BY <1>3, MsgFields DEF Safe
  <2> QED  BY <1>1, <2>1 DEF ToServer
<1>4. ASSUME NEW m \in toC  PROVE ToClient(D, S, m)
  BY <1>4 DEF Safe, ToClient
<1> QED  BY <1>2, <1>3, <1>4 DEF Safe

\* The server may take what the client has sent, and end after the client.
LEMMA ServerMoves ==
  ASSUME NEW C \in Conn, NEW S \in Conn, NEW D \in Conn,
         NEW toS \in SUBSET Msg, NEW toC \in SUBSET Msg, Safe(C, S, toS, toC),
         ServerOK(D), NEW new, Takes(S, D, new), \A n \in new : n < C.sendNext,
         D.state \in {"PeerTerminating"} \cup Over => C.state \in Over,
         D.eof => D.state \in Over /\ D.read = C.sendNext
  PROVE  Safe(C, D, toS, toC)
<1>1. S.recvNext \in Nat /\ D.recvNext \in Nat  BY DEF Conn
<1>2. Pair(C, D)
  BY DEF Safe, Pair, Takes
<1>3. ASSUME NEW m \in toC  PROVE ToClient(C, D, m)
  <2>1. /\ ToClient(C, S, m) /\ (m.type = "ack" => m.numbers \in SUBSET Nat)
        /\ m.type \in {"ack", "cmd"} => m.receivingNext \in Nat
    BY <1>3, MsgFields DEF Safe
  <2>2. m.type = "ack" => \A n \in m.numbers : Has(D, n)  BY <2>1 DEF ToClient, Takes
  <2>3. m.type \in {"ack", "cmd"} => m.receivingNext <= D.recvNext
    BY <1>1, <2>1 DEF ToClient, Takes
  <2> QED  BY <2>1, <2>2, <2>3 DEF ToClient
<1> QED  BY <1>2, <1>3 DEF Safe

\* When the client has ended, the server has everything, in order.
LEMMA AllThere ==
  ASSUME NEW C \in Conn, NEW S \in Conn, WindowOK(S), ClientOK(C), Pair(C, S),
         C.state \in Over
  PROVE  S.recvNext = C.sendNext
<1>1. C.sendNext \in Nat /\ S.recvNext \in Nat /\ C.sendWindow = {}
  BY DEF Conn, ClientOK
<1>2. ~(S.recvNext < C.sendNext)
  <2>1. ~Has(S, S.recvNext)  BY <1>1 DEF Has, WindowOK, Conn
  <2> QED  BY <1>1, <2>1 DEF Pair
<1>3. ~(C.sendNext < S.recvNext)
  <2>1. C.sendNext < S.recvNext => Has(S, C.sendNext)  BY DEF Has
  <2> QED  BY <1>1, <2>1 DEF Pair
<1> QED  BY <1>1, <1>2, <1>3

\* A Conn that is replaced.
LEMMA Becomes ==
  ASSUME ep \in [Ends -> Conn], \A f \in Ends : WindowOK(ep[f]),
         NEW e \in Ends, NEW d \in Conn, WindowOK(d), ep' = [ep EXCEPT ![e] = d]
  PROVE  /\ ep' \in [Ends -> Conn] /\ \A f \in Ends : WindowOK(ep'[f])
         /\ ep'[e] = d /\ \A f \in Ends : f # e => ep'[f] = ep[f]
<1>1. ep' \in [Ends -> Conn] /\ ep'[e] = d /\ \A f \in Ends : f # e => ep'[f] = ep[f]
  OBVIOUS
<1>2. ASSUME NEW f \in Ends  PROVE WindowOK(ep'[f])
  <2>1. CASE f = e  BY <1>1, <2>1
  <2>2. CASE f # e  BY <1>1, <2>2
  <2> QED  BY <2>1, <2>2
<1> QED  BY <1>1, <1>2

-----------------------------------------------------------------------------
(* The steps. *)

\* A step of the client alone keeps the invariant if the move is safe.
LEMMA ClientActs ==
  ASSUME KcpInv, NEW d \in Conn, WindowOK(d), ep' = [ep EXCEPT ![Client] = d],
         net' \in [Ends -> SUBSET Msg], sessions' = sessions, cut' \in BOOLEAN,
         ~cut' => ~cut /\ Safe(d, ep[Server], net'[Server], net'[Client])
  PROVE  KcpInv'
<1>1. Client \in Ends /\ Server \in Ends /\ Server # Client  BY DEF Ends, Client, Server
<1>2. /\ ep' \in [Ends -> Conn] /\ \A f \in Ends : WindowOK(ep'[f])
      /\ ep'[Client] = d /\ ep'[Server] = ep[Server]
  BY <1>1, Becomes DEF KcpInv, Typed
<1>3. Typed'  BY <1>2 DEF Typed, KcpInv, WindowOK
<1>4. ~cut => Begun  BY DEF KcpInv
<1> QED  BY <1>2, <1>3, <1>4 DEF KcpInv, Begun

\* A step of the server alone keeps the invariant if the move is safe.
LEMMA ServerActs ==
  ASSUME KcpInv, NEW d \in Conn, WindowOK(d), ep' = [ep EXCEPT ![Server] = d],
         net' \in [Ends -> SUBSET Msg], sessions' \in Nat, cut' \in BOOLEAN,
         ~cut' => /\ d.state # "None" /\ sessions' > 0
                  /\ Safe(ep[Client], d, net'[Server], net'[Client])
  PROVE  KcpInv'
<1>1. Client \in Ends /\ Server \in Ends /\ Server # Client  BY DEF Ends, Client, Server
<1>2. /\ ep' \in [Ends -> Conn] /\ \A f \in Ends : WindowOK(ep'[f])
      /\ ep'[Server] = d /\ ep'[Client] = ep[Client]
  BY <1>1, Becomes DEF KcpInv, Typed
<1>3. Typed'  BY <1>2 DEF Typed, KcpInv, WindowOK
<1> QED  BY <1>2, <1>3 DEF KcpInv, Begun

\* What an end may rely on.
LEMMA Given ==
  ASSUME KcpInv
  PROVE  /\ ep[Client] \in Conn /\ ep[Server] \in Conn
         /\ WindowOK(ep[Client]) /\ WindowOK(ep[Server])
         /\ net \in [Ends -> SUBSET Msg] /\ net[Client] \in SUBSET Msg /\ net[Server] \in SUBSET Msg
         /\ sessions \in Nat /\ cut \in BOOLEAN
         /\ ~cut => /\ Safe(ep[Client], ep[Server], net[Server], net[Client])
                    /\ ep[Server].state # "None" => sessions > 0
BY DEF KcpInv, Typed, Begun, Ends

\* Writing puts one more segment into the window.
LEMMA WrittenIs ==
  ASSUME NEW c \in Conn
  PROVE  LET d == [c EXCEPT !.sendNext = c.sendNext + 1, !.sendWindow = c.sendWindow \cup {c.sendNext}]
         IN  /\ d \in Conn /\ SameReceiver(c, d) /\ d.ackList = c.ackList /\ d.state = c.state
             /\ d.sendNext = c.sendNext + 1 /\ d.sendWindow = c.sendWindow \cup {c.sendNext}
<1> DEFINE n == c.sendNext + 1
           w == c.sendWindow \cup {c.sendNext}
<1>1. n \in Nat /\ w \in SUBSET Nat  BY DEF Conn
<1> HIDE DEF n, w
<1>2. LET d == [c EXCEPT !.sendNext = n, !.sendWindow = w]
      IN  /\ d \in Conn /\ SameReceiver(c, d) /\ d.ackList = c.ackList /\ d.state = c.state
          /\ d.sendNext = n /\ d.sendWindow = w
  BY <1>1, ZenonT(120) DEF Conn, SameReceiver
<1> QED  BY <1>2 DEF n, w

\* Write keeps the invariant: the new segment is in the window.
LEMMA WriteKeeps ==
  ASSUME KcpInv, NEW e \in Ends, Write(e)
  PROVE  KcpInv'
<1> DEFINE c == ep[e]
           d == [c EXCEPT !.sendNext = c.sendNext + 1, !.sendWindow = c.sendWindow \cup {c.sendNext}]
<1>1. c \in Conn /\ WindowOK(c) /\ ep \in [Ends -> Conn]  BY DEF KcpInv, Typed
<1>2. ep' = [ep EXCEPT ![e] = d]  BY <1>1, ZenonT(120) DEF Write, Conn
<1>3. /\ d \in Conn /\ SameReceiver(c, d) /\ d.ackList = c.ackList /\ d.state = c.state
      /\ d.sendNext = c.sendNext + 1 /\ d.sendWindow = c.sendWindow \cup {c.sendNext}
  BY <1>1, WrittenIs, ZenonT(120)
<1>4. c.state = "Active" /\ net' = net /\ sessions' = sessions /\ cut' = cut
  BY DEF Write
<1> HIDE DEF d
<1>5. WindowOK(d)  BY <1>1, <1>3 DEF WindowOK, SameReceiver
<1>6. c.sendNext \in Nat /\ c.recvNext \in Nat  BY <1>1 DEF Conn
<1>7. CASE e = Client
  <2> SUFFICES ASSUME ~cut  PROVE Safe(d, ep[Server], net[Server], net[Client])
    BY <1>2, <1>3, <1>4, <1>5, <1>7, ClientActs, Given, ZenonT(120)
  <2>1. /\ Safe(c, ep[Server], net[Server], net[Client]) /\ ep[Server] \in Conn
        /\ net[Client] \in SUBSET Msg /\ net[Server] \in SUBSET Msg
    BY <1>7, Given
  <2>2. ClientOK(d)
    <3>1. \A n \in d.sendWindow : n \in Nat /\ n < d.sendNext
      BY <1>1, <1>3, <1>6, <2>1 DEF Safe, ClientOK, Conn
    <3> QED  BY <1>3, <1>4, <3>1 DEF ClientOK, Over
  <2>3. c.sendNext <= d.sendNext /\ c.state \notin Over  BY <1>3, <1>4, <1>6 DEF Over
  <2>4. ASSUME NEW n \in Nat, n < d.sendNext  PROVE n \in d.sendWindow \/ Has(ep[Server], n)
    <3>1. n < c.sendNext \/ n = c.sendNext  BY <1>3, <1>6, <2>4
    <3> QED  BY <1>3, <2>1, <3>1 DEF Safe, Pair
  <2> QED  BY <1>1, <1>3, <2>1, <2>2, <2>3, <2>4, ClientMoves
<1>8. CASE e = Server
  <2> SUFFICES ASSUME ~cut
               PROVE  sessions > 0 /\ Safe(ep[Client], d, net[Server], net[Client])
    BY <1>2, <1>3, <1>4, <1>5, <1>8, ServerActs, Given, ZenonT(120)
  <2>1. /\ Safe(ep[Client], c, net[Server], net[Client]) /\ ep[Client] \in Conn
        /\ net[Client] \in SUBSET Msg /\ net[Server] \in SUBSET Msg /\ sessions > 0
    BY <1>4, <1>8, Given
  <2>2. ServerOK(d)  BY <1>3, <2>1 DEF Safe, ServerOK, SameReceiver, Has
  <2>3. Takes(c, d, {})  BY <1>3, <1>6 DEF Takes, SameReceiver, Has
  <2>4. d.eof => d.state \in Over /\ d.read = ep[Client].sendNext
    BY <1>3, <2>1 DEF Safe, Pair, SameReceiver
  <2>5. d.state \notin {"PeerTerminating"} \cup Over  BY <1>3, <1>4 DEF Over
  <2> QED  BY <1>1, <1>3, <2>1, <2>2, <2>3, <2>4, <2>5, ServerMoves
<1> QED  BY <1>7, <1>8 DEF Ends

\* Read moves the application's side of the receiver alone.
LEMMA ReadIs ==
  ASSUME NEW c \in Conn
  PROVE  LET d == [c EXCEPT !.read = c.read + 1]
             f == [c EXCEPT !.eof = TRUE]
         IN  /\ d \in Conn /\ SameSender(c, d) /\ d.state = c.state /\ d.recvNext = c.recvNext
             /\ d.recvCache = c.recvCache /\ d.ackList = c.ackList
             /\ d.read = c.read + 1 /\ d.eof = c.eof
             /\ f \in Conn /\ SameSender(c, f) /\ f.state = c.state /\ f.recvNext = c.recvNext
             /\ f.recvCache = c.recvCache /\ f.ackList = c.ackList
             /\ f.read = c.read /\ f.eof = TRUE
<1> DEFINE n == c.read + 1
<1>1. n \in Nat  BY DEF Conn
<1> HIDE DEF n
<1>2. LET d == [c EXCEPT !.read = n]
      IN  /\ d \in Conn /\ SameSender(c, d) /\ d.state = c.state /\ d.recvNext = c.recvNext
          /\ d.recvCache = c.recvCache /\ d.ackList = c.ackList /\ d.read = n /\ d.eof = c.eof
  BY <1>1 DEF Conn, SameSender
<1>3. LET f == [c EXCEPT !.eof = TRUE]
      IN  /\ f \in Conn /\ SameSender(c, f) /\ f.state = c.state /\ f.recvNext = c.recvNext
          /\ f.recvCache = c.recvCache /\ f.ackList = c.ackList
          /\ f.read = c.read /\ f.eof = TRUE
  BY ZenonT(120) DEF Conn, SameSender
<1> QED  BY <1>2, <1>3 DEF n

\* Read keeps the invariant: EOF comes after everything was read.
LEMMA ReadKeeps ==
  ASSUME KcpInv, NEW e \in Ends, Read(e)
  PROVE  KcpInv'
<1> DEFINE c == ep[e]
<1>1. c \in Conn /\ WindowOK(c) /\ ep \in [Ends -> Conn]  BY DEF KcpInv, Typed
<1>2. PICK d \in Conn :
        /\ ep' = [ep EXCEPT ![e] = d]
        /\ SameSender(c, d) /\ d.state = c.state /\ d.recvNext = c.recvNext
        /\ d.recvCache = c.recvCache /\ d.ackList = c.ackList
        /\ \/ c.read < c.recvNext /\ d.read = c.read + 1 /\ ~c.eof /\ ~d.eof
           \/ c.read = c.recvNext /\ c.state \in Closing /\ d.read = c.read
  <2>1. CASE c.read < c.recvNext /\ ep' = [ep EXCEPT ![e].read = @ + 1]
    <3> DEFINE d == [c EXCEPT !.read = c.read + 1]
    <3>1. ep' = [ep EXCEPT ![e] = d]  BY <1>1, <2>1 DEF Conn
    <3>2. /\ d \in Conn /\ SameSender(c, d) /\ d.state = c.state /\ d.recvNext = c.recvNext
          /\ d.recvCache = c.recvCache /\ d.ackList = c.ackList
          /\ d.read = c.read + 1 /\ d.eof = c.eof
      BY <1>1, ReadIs, ZenonT(120)
    <3>3. ~c.eof  BY DEF Read
    <3> HIDE DEF d
    <3> QED  BY <2>1, <3>1, <3>2, <3>3, ZenonT(120)
  <2>2. CASE /\ c.read = c.recvNext /\ c.state \in Closing
             /\ ep' = [ep EXCEPT ![e].eof = TRUE]
    <3> DEFINE d == [c EXCEPT !.eof = TRUE]
    <3>1. ep' = [ep EXCEPT ![e] = d]  BY <1>1, <2>2 DEF Conn
    <3>2. /\ d \in Conn /\ SameSender(c, d) /\ d.state = c.state /\ d.recvNext = c.recvNext
          /\ d.recvCache = c.recvCache /\ d.ackList = c.ackList /\ d.read = c.read
      BY <1>1, ReadIs, ZenonT(120)
    <3> HIDE DEF d
    <3> QED  BY <2>2, <3>1, <3>2, ZenonT(120)
  <2> QED  BY <2>1, <2>2 DEF Read
<1>3. c.state # "None" /\ net' = net /\ sessions' = sessions /\ cut' = cut
  BY DEF Read
<1>4. WindowOK(d)  BY <1>1, <1>2 DEF WindowOK
<1>5. /\ c.sendNext \in Nat /\ c.recvNext \in Nat /\ c.read \in Nat
      /\ c.sendNext = d.sendNext /\ c.sendWindow = d.sendWindow
  BY <1>1, <1>2, ZenonT(120) DEF Conn, SameSender
<1>6. CASE e = Client
  <2> SUFFICES ASSUME ~cut  PROVE Safe(d, ep[Server], net[Server], net[Client])
    BY <1>2, <1>3, <1>4, <1>6, ClientActs, Given, ZenonT(120)
  <2>1. /\ Safe(c, ep[Server], net[Server], net[Client]) /\ ep[Server] \in Conn
        /\ net[Client] \in SUBSET Msg /\ net[Server] \in SUBSET Msg
    BY <1>6, Given, ZenonT(120)
  <2>2. ClientOK(d)  BY <1>2, <1>5, <2>1 DEF Safe, ClientOK
  <2>3. \A n \in Nat : n < d.sendNext => n \in d.sendWindow \/ Has(ep[Server], n)
    BY <1>5, <2>1 DEF Safe, Pair
  <2> QED  BY <1>1, <1>2, <1>5, <2>1, <2>2, <2>3, ClientMoves
<1>7. CASE e = Server
  <2> SUFFICES ASSUME ~cut
               PROVE  sessions > 0 /\ Safe(ep[Client], d, net[Server], net[Client])
    BY <1>2, <1>3, <1>4, <1>7, ServerActs, Given, ZenonT(120)
  <2>1. /\ Safe(ep[Client], c, net[Server], net[Client]) /\ ep[Client] \in Conn
        /\ net[Client] \in SUBSET Msg /\ net[Server] \in SUBSET Msg /\ sessions > 0
    BY <1>3, <1>7, Given, ZenonT(120)
  <2>2. ServerOK(d)
    <3>1. d.read <= d.recvNext  BY <1>2, <1>5
    <3> QED  BY <1>2, <2>1, <3>1 DEF Safe, ServerOK, Has
  <2>3. Takes(c, d, {})  BY <1>2, <1>5 DEF Takes, Has
  <2>4. d.eof => d.state \in Over /\ d.read = ep[Client].sendNext
    <3>1. CASE c.read < c.recvNext /\ ~d.eof  BY <3>1
    <3>2. CASE c.read = c.recvNext /\ c.state \in Closing /\ d.read = c.read
      <4>1. d.state \in Over  BY <1>2, <2>1, <3>2, ZenonT(120) DEF Safe, ServerOK, Closing, Over
      <4>2. ep[Client].state \in Over  BY <1>2, <2>1, <4>1, ZenonT(120) DEF Safe, Pair
      <4>3. c.recvNext = ep[Client].sendNext  BY <1>1, <2>1, <4>2, AllThere, ZenonT(120) DEF Safe
      <4> QED  BY <3>2, <4>1, <4>3, ZenonT(120)
    <3> QED  BY <1>2, <3>1, <3>2
  <2>5. d.state \in {"PeerTerminating"} \cup Over => ep[Client].state \in Over
    BY <1>2, <2>1 DEF Safe, Pair
  <2> QED  BY <1>1, <1>2, <2>1, <2>2, <2>3, <2>4, <2>5, ServerMoves
<1> QED  BY <1>6, <1>7 DEF Ends

\* Close keeps the invariant, or cuts the conversation.
LEMMA CloseKeeps ==
  ASSUME KcpInv, NEW e \in Ends, Close(e)
  PROVE  KcpInv'
<1> DEFINE c == ep[e]
<1>1. c \in Conn /\ WindowOK(c) /\ ep \in [Ends -> Conn]  BY DEF KcpInv, Typed
<1>2. PICK s \in States :
        /\ ep' = [ep EXCEPT ![e] = SetState(c, s)]
        /\ c.state \in {"Active", "PeerClosed", "PeerTerminating"}
        /\ c.state = "Active" => s = "ReadyToClose"
  <2> DEFINE next == [Active |-> "ReadyToClose", PeerClosed |-> "Terminating",
                      PeerTerminating |-> "Terminated"]
  <2>1. DOMAIN next = {"Active", "PeerClosed", "PeerTerminating"}  OBVIOUS
  <2>2. /\ next["Active"] = "ReadyToClose" /\ next["PeerClosed"] = "Terminating"
        /\ next["PeerTerminating"] = "Terminated"
    OBVIOUS
  <2>3. c.state \in DOMAIN next /\ ep' = [ep EXCEPT ![e] = SetState(c, next[c.state])]
    BY DEF Close, Become
  <2> HIDE DEF next
  <2> QED  BY <2>1, <2>2, <2>3, ZenonT(120) DEF States
<1>3. net' = net /\ sessions' = sessions /\ cut' = (cut \/ e = Server)
  BY DEF Close
<1> DEFINE d == SetState(c, s)
<1>4. /\ d \in Conn /\ SameReceiver(c, d) /\ d.sendNext = c.sendNext /\ d.state = s
      /\ s = "ReadyToClose" => d.sendWindow = c.sendWindow
  BY <1>1, SetStateIs
<1> HIDE DEF d
<1>5. WindowOK(d)  BY <1>1, <1>4, ZenonT(120) DEF WindowOK, SameReceiver
<1>6. CASE e = Client
  <2> SUFFICES ASSUME ~cut  PROVE Safe(d, ep[Server], net[Server], net[Client])
    BY <1>2, <1>3, <1>4, <1>5, <1>6, ClientActs, Given, ZenonT(120) DEF d
  <2>1. /\ Safe(c, ep[Server], net[Server], net[Client]) /\ ep[Server] \in Conn
        /\ net[Client] \in SUBSET Msg /\ net[Server] \in SUBSET Msg
    BY <1>6, Given, ZenonT(120)
  <2>2. c.state = "Active" /\ s = "ReadyToClose"
    BY <1>2, <2>1, ZenonT(120) DEF Safe, ClientOK, Over
  <2>3. ClientOK(d)  BY <1>4, <2>1, <2>2, ZenonT(120) DEF Safe, ClientOK, Over
  <2>4. \A n \in Nat : n < d.sendNext => n \in d.sendWindow \/ Has(ep[Server], n)
    BY <1>4, <2>1, <2>2 DEF Safe, Pair
  <2>5. c.state \notin Over /\ c.sendNext <= d.sendNext  BY <1>1, <1>4, <2>2 DEF Over, Conn
  <2> QED  BY <1>1, <1>4, <2>1, <2>3, <2>4, <2>5, ClientMoves
<1>7. CASE e = Server
  BY <1>2, <1>3, <1>4, <1>5, <1>7, ServerActs, Given, ZenonT(120) DEF d
<1> QED  BY <1>6, <1>7 DEF Ends

\* The client's flush: its window is given up only once it is empty.
LEMMA ClientFlushes ==
  ASSUME NEW C \in Conn, NEW S \in Conn, NEW toS \in SUBSET Msg, NEW toC \in SUBSET Msg,
         Safe(C, S, toS, toC), NEW late \in BOOLEAN,
         ~(late /\ C.state = "ReadyToClose" /\ C.sendWindow # {}),
         NEW sent \in SUBSET Out(C, late)
  PROVE  Safe(Flushed(C, late), S, toS \cup sent, toC)
<1> DEFINE d == FlushState(C, late)
           f == Flushed(C, late)
<1>1. /\ d \in Conn /\ d.sendWindow \subseteq C.sendWindow
      /\ d.state = IF \/ C.state = "PeerTerminating" /\ late
                      \/ C.state = "ReadyToClose" /\ (late \/ C.sendWindow = {})
                      \/ C.state = "Active" /\ late /\ C.sendWindow = {}
                   THEN "Terminating"
                   ELSE IF C.state = "Active" /\ late THEN "ReadyToClose" ELSE C.state
      /\ d.state = C.state \/ d.state = "ReadyToClose" => d.sendWindow = C.sendWindow
      /\ d.state = "Terminating" /\ C.state # "Terminating" => d.sendWindow = {}
  BY FlushStateIs
<1>2. /\ f \in Conn /\ f.sendNext = C.sendNext
      /\ ~(late /\ C.state = "Terminating") => f = d
      /\ late /\ C.state = "Terminating" => f.state = "Terminated" /\ f.sendWindow = {}
  BY FlushedIs, ZenonT(120)
<1>3. \A m \in sent : /\ m \in Msg
                      /\ m.type = "data" => m.number \in d.sendWindow
                      /\ IsBye(m) => d.state = "Terminating"
  BY OutIs, ZenonT(120)
<1> HIDE DEF d, f
<1>4. ClientOK(C) /\ Pair(C, S)  BY ZenonT(120) DEF Safe
<1>5. f.sendWindow = C.sendWindow  BY <1>1, <1>2, <1>4 DEF ClientOK, Over
<1>6. f.state \in {"Active", "ReadyToClose"} \cup Over  BY <1>1, <1>2, <1>4, ZenonT(120) DEF ClientOK, Over
<1>7. /\ f.state \in Over => f.sendWindow = {}
      /\ C.state \in Over => f.state \in Over
      /\ d.state = "Terminating" => f.state \in Over
  BY <1>1, <1>2, <1>4 DEF ClientOK, Over
<1>8. Safe(f, S, toS, toC)
  <2>1. ClientOK(f)  BY <1>2, <1>4, <1>5, <1>6, <1>7, ZenonT(120) DEF ClientOK
  <2>2. \A n \in Nat : n < f.sendNext => n \in f.sendWindow \/ Has(S, n)
    BY <1>2, <1>4, <1>5 DEF Pair
  <2>3. C.sendNext <= f.sendNext  BY <1>2 DEF Conn
  <2> QED  BY <1>2, <1>7, <2>1, <2>2, <2>3, ClientMoves, ZenonT(120)
<1>9. ASSUME NEW m \in sent  PROVE ToServer(f, m)
  <2>1. m.type = "data" => m.number < f.sendNext  BY <1>1, <1>2, <1>3, <1>4 DEF ClientOK
  <2> QED  BY <1>3, <1>7, <2>1, ZenonT(120) DEF ToServer
<1> QED  BY <1>8, <1>9, ZenonT(120) DEF Safe, f

\* The server's flush: an acknowledgement names what the server has.
LEMMA ServerFlushes ==
  ASSUME NEW C \in Conn, NEW S \in Conn, NEW toS \in SUBSET Msg, NEW toC \in SUBSET Msg,
         Safe(C, S, toS, toC), NEW late \in BOOLEAN, ~(late /\ S.state = "Active"),
         S.state # "None", NEW sent \in SUBSET Out(S, late)
  PROVE  /\ Flushed(S, late).state # "None"
         /\ Safe(C, Flushed(S, late), toS, toC \cup sent)
<1> DEFINE d == FlushState(S, late)
           f == Flushed(S, late)
<1>1. /\ d \in Conn
      /\ d.state = IF \/ S.state = "PeerTerminating" /\ late
                      \/ S.state = "ReadyToClose" /\ (late \/ S.sendWindow = {})
                      \/ S.state = "Active" /\ late /\ S.sendWindow = {}
                   THEN "Terminating"
                   ELSE IF S.state = "Active" /\ late THEN "ReadyToClose" ELSE S.state
  BY FlushStateIs
<1>2. /\ f \in Conn /\ SameReceiver(S, f) /\ f.ackList = S.ackList
      /\ ~(late /\ S.state = "Terminating") => f = d
      /\ late /\ S.state = "Terminating" => f.state = "Terminated"
  BY FlushedIs, ZenonT(120)
<1>3. \A m \in sent : /\ m \in Msg /\ m.close = (d.state = "ReadyToClose")
                      /\ m.type = "ack" => m.numbers = S.ackList
                      /\ m.type \in {"ack", "cmd"} => m.receivingNext = S.recvNext
                      /\ IsBye(m) => /\ d.state = "Terminating"
                                     /\ S.state \in {"Active", "ReadyToClose", "Terminating"}
  BY OutIs
<1> HIDE DEF d, f
<1>4. ServerOK(S) /\ Pair(C, S)  BY DEF Safe
<1>5. /\ f.state \in {"Active", "PeerClosed", "PeerTerminating"} \cup Over
      /\ f.state \in {"PeerTerminating"} \cup Over => S.state \in {"PeerTerminating"} \cup Over
      /\ S.state \in Over => f.state \in Over
      /\ d.state # "ReadyToClose"
      /\ d.state = "Terminating" => S.state \in {"PeerTerminating"} \cup Over
  BY <1>1, <1>2, <1>4 DEF ServerOK, Over
<1>6. S.recvNext \in Nat  BY DEF Conn
<1>7. \A n \in Nat : Has(f, n) <=> Has(S, n)  BY <1>2 DEF SameReceiver, Has
<1>8. Safe(C, f, toS, toC)
  <2>1. ServerOK(f)
    <3>1. \A n \in f.ackList : Has(f, n)  BY <1>2, <1>4, <1>7, ZenonT(120) DEF ServerOK, Conn
    <3>2. f.read <= f.recvNext  BY <1>2, <1>4 DEF ServerOK, SameReceiver
    <3> QED  BY <1>5, <3>1, <3>2 DEF ServerOK
  <2>2. Takes(S, f, {})  BY <1>2, <1>6, <1>7 DEF Takes, SameReceiver
  <2>3. f.state \in {"PeerTerminating"} \cup Over => C.state \in Over
    BY <1>4, <1>5, ZenonT(120) DEF Pair
  <2>4. f.eof => f.state \in Over /\ f.read = C.sendNext
    BY <1>2, <1>4, <1>5, ZenonT(120) DEF Pair, SameReceiver
  <2> QED  BY <1>2, <2>1, <2>2, <2>3, <2>4, ServerMoves
<1>9. ASSUME NEW m \in sent  PROVE ToClient(C, f, m)
  <2>1. ~m.close  BY <1>3, <1>5, ZenonT(120)
  <2>2. m.type = "ack" => \A n \in m.numbers : Has(f, n)
    BY <1>3, <1>4, <1>7, ZenonT(120) DEF ServerOK, Conn
  <2>3. m.type \in {"ack", "cmd"} => m.receivingNext <= f.recvNext
    BY <1>2, <1>3, <1>6 DEF SameReceiver
  <2>4. IsBye(m) => C.state \in Over  BY <1>3, <1>4, <1>5 DEF Pair
  <2> QED  BY <2>1, <2>2, <2>3, <2>4 DEF ToClient
<1> QED  BY <1>5, <1>8, <1>9, ZenonT(120) DEF Safe, f, Over

\* Flush keeps the invariant, or a timeout cuts the conversation.
LEMMA FlushKeeps ==
  ASSUME KcpInv, NEW e \in Ends, NEW late \in BOOLEAN, Flush(e, late)
  PROVE  KcpInv'
<1> DEFINE c == ep[e]
           f == Flushed(c, late)
<1>1. c \in Conn /\ WindowOK(c) /\ ep \in [Ends -> Conn]  BY DEF KcpInv, Typed
<1>2. PICK sent \in SUBSET Out(c, late) : net' = [net EXCEPT ![Peer(e)] = @ \cup sent]
  BY ZenonT(120) DEF Flush, Out
<1>3. /\ c.state # "None" /\ sessions' = sessions
      /\ cut' = (cut \/ (late /\ ( \/ e = Server /\ c.state = "Active"
                                   \/ e = Client /\ c.state = "ReadyToClose" /\ c.sendWindow # {})))
      /\ ep' = [ep EXCEPT ![e] = f]
  BY DEF Flush, Flushed, Become
<1>4. f \in Conn /\ SameReceiver(c, f)  BY <1>1, FlushedIs
<1> HIDE DEF f
<1>5. WindowOK(f)  BY <1>1, <1>4 DEF WindowOK, SameReceiver
<1>6. sent \in SUBSET Msg  BY <1>1, OutIs, ZenonT(120)
<1>7. net \in [Ends -> SUBSET Msg] /\ cut \in BOOLEAN /\ cut' \in BOOLEAN
  BY <1>3, Given
<1>8. CASE e = Client
  <2>1. /\ net' \in [Ends -> SUBSET Msg]
        /\ net'[Server] = net[Server] \cup sent /\ net'[Client] = net[Client]
    BY <1>2, <1>6, <1>7, <1>8 DEF Ends, Peer, Client, Server
  <2>2. ASSUME ~cut'  PROVE ~cut /\ Safe(f, ep[Server], net'[Server], net'[Client])
    <3>1. ~cut /\ ~(late /\ c.state = "ReadyToClose" /\ c.sendWindow # {})
      BY <1>3, <1>8, <2>2, ZenonT(120)
    <3>2. /\ Safe(c, ep[Server], net[Server], net[Client]) /\ ep[Server] \in Conn
          /\ net[Client] \in SUBSET Msg /\ net[Server] \in SUBSET Msg
      BY <1>8, <3>1, Given
    <3>3. Safe(Flushed(c, late), ep[Server], net[Server] \cup sent, net[Client])
      BY <1>1, <3>1, <3>2, ClientFlushes, ZenonT(120)
    <3> QED  BY <2>1, <3>1, <3>3 DEF f
  <2> QED  BY <1>3, <1>4, <1>5, <1>7, <1>8, <2>1, <2>2, ClientActs, ZenonT(120)
<1>9. CASE e = Server
  <2>1. /\ net' \in [Ends -> SUBSET Msg]
        /\ net'[Client] = net[Client] \cup sent /\ net'[Server] = net[Server]
    BY <1>2, <1>6, <1>7, <1>9, ZenonT(120) DEF Ends, Peer, Client, Server
  <2>2. ASSUME ~cut'
        PROVE  f.state # "None" /\ sessions' > 0
               /\ Safe(ep[Client], f, net'[Server], net'[Client])
    <3>1. ~cut /\ ~(late /\ c.state = "Active")  BY <1>3, <1>9, <2>2, ZenonT(120)
    <3>2. sessions > 0  BY <1>3, <1>9, <3>1, Given, ZenonT(120)
    <3>3. /\ Safe(ep[Client], c, net[Server], net[Client]) /\ ep[Client] \in Conn
          /\ net[Client] \in SUBSET Msg /\ net[Server] \in SUBSET Msg
      BY <1>9, <3>1, Given
    <3>4. /\ Flushed(c, late).state # "None"
          /\ Safe(ep[Client], Flushed(c, late), net[Server], net[Client] \cup sent)
      BY <1>1, <1>3, <3>1, <3>3, ServerFlushes, ZenonT(120)
    <3> QED  BY <1>3, <2>1, <3>2, <3>4 DEF f
  <2> QED  BY <1>3, <1>4, <1>5, <1>7, <1>9, <2>1, <2>2, ServerActs, Given, ZenonT(120)
<1> QED  BY <1>8, <1>9 DEF Ends

-----------------------------------------------------------------------------
(* The network. *)

\* With fewer datagrams under way the two ends are as safe.
LEMMA Shrinks ==
  ASSUME NEW C, NEW S, NEW toS, NEW toC, Safe(C, S, toS, toC),
         NEW s \in SUBSET toS, NEW t \in SUBSET toC
  PROVE  Safe(C, S, s, t)
BY DEF Safe

\* A datagram goes and nobody takes notice.
LEMMA Vanishes ==
  ASSUME KcpInv, net' \in [Ends -> SUBSET Msg], \A e \in Ends : net'[e] \subseteq net[e],
         UNCHANGED <<ep, sessions, cut>>
  PROVE  KcpInv'
<1>1. Typed'  BY DEF KcpInv, Typed, WindowOK
<1>2. ~cut => Safe(ep[Client], ep[Server], net'[Server], net'[Client])
  BY Shrinks, Given DEF Ends
<1>3. ~cut => Begun'  BY DEF KcpInv, Begun
<1> QED  BY <1>1, <1>2, <1>3, ZenonT(120) DEF KcpInv

\* Losing a datagram keeps the invariant.
LEMMA LoseKeeps ==
  ASSUME KcpInv, NEW e \in Ends, NEW m \in net[e], Lose(e, m)
  PROVE  KcpInv'
<1>1. net \in [Ends -> SUBSET Msg]  BY Given
<1>2. net' = [net EXCEPT ![e] = @ \ {m}] /\ UNCHANGED <<ep, sessions, cut>>  BY DEF Lose
<1>3. net' \in [Ends -> SUBSET Msg] /\ \A f \in Ends : net'[f] \subseteq net[f]
  BY <1>1, <1>2, ZenonT(120)
<1> QED  BY <1>2, <1>3, Vanishes

\* The client takes a datagram in.
LEMMA ClientTakes ==
  ASSUME NEW C \in Conn, WindowOK(C), NEW S \in Conn,
         NEW toS \in SUBSET Msg, NEW toC \in SUBSET Msg, Safe(C, S, toS, toC), NEW m \in toC
  PROVE  Safe(Input(C, m), S, toS, toC)
<1> DEFINE d == Input(C, m)
<1>1. ClientOK(C) /\ Pair(C, S) /\ ToClient(C, S, m) /\ m \in Msg  BY ZenonT(120) DEF Safe
<1>2. /\ d \in Conn /\ d.sendNext = C.sendNext
      /\ d.state = C.state \/ (C.state = "Terminating" /\ d.state = "Terminated")
      /\ d.sendWindow \subseteq C.sendWindow
      /\ \A n \in C.sendWindow :
             \/ n \in d.sendWindow
             \/ m.type = "ack" /\ (n < m.receivingNext \/ n \in m.numbers)
             \/ m.type = "cmd" /\ n < m.receivingNext
  BY <1>1, InputSends, ZenonT(120) DEF ToClient, ClientOK, Over
<1> HIDE DEF d
<1>3. ClientOK(d)  BY <1>1, <1>2 DEF ClientOK, Over
<1>4. C.state \in Over => d.state \in Over  BY <1>2 DEF Over
<1>5. C.sendNext <= d.sendNext  BY <1>2 DEF Conn
<1>6. ASSUME NEW n \in Nat, n < d.sendNext  PROVE n \in d.sendWindow \/ Has(S, n)
  <2>1. n \in C.sendWindow \/ Has(S, n)  BY <1>1, <1>2, <1>6, ZenonT(120) DEF Pair
  <2>2. /\ m.type = "ack" => \A k \in m.numbers : Has(S, k)
        /\ m.type \in {"ack", "cmd"} => m.receivingNext \in Nat /\ m.receivingNext <= S.recvNext
    BY <1>1, MsgFields DEF ToClient
  <2>3. S.recvNext \in Nat  BY DEF Conn
  <2>4. m.type \in {"ack", "cmd"} /\ n < m.receivingNext => Has(S, n)
    BY <2>2, <2>3 DEF Has
  <2> QED  BY <1>2, <2>1, <2>2, <2>4, ZenonT(120)
<1> QED  BY <1>2, <1>3, <1>4, <1>5, <1>6, ClientMoves DEF d

\* The server takes a datagram in.
LEMMA ServerTakes ==
  ASSUME NEW C \in Conn, NEW S \in Conn, WindowOK(S), S.state # "None",
         NEW toS \in SUBSET Msg, NEW toC \in SUBSET Msg, Safe(C, S, toS, toC), NEW m \in toS
  PROVE  Input(S, m).state # "None" /\ Safe(C, Input(S, m), toS, toC)
<1> DEFINE d == Input(S, m)
<1>1. ServerOK(S) /\ Pair(C, S) /\ ToServer(C, m) /\ m \in Msg  BY DEF Safe
<1>2. /\ Receives(S, d, Brings(m))
      /\ S.state # "ReadyToClose" /\ ~IsBye(m) =>
             d.state = S.state \/ (S.state = "Active" /\ d.state = "PeerClosed")
      /\ S.state \in {"Active", "PeerClosed"} /\ IsBye(m) => d.state = "PeerTerminating"
      /\ S.state = "PeerTerminating" => d.state = S.state
      /\ S.state \in {"Terminating", "Terminated"} => d.state \in {"Terminating", "Terminated"}
  BY <1>1, InputReceives
<1> HIDE DEF d
<1>3. d \in Conn /\ d.read = S.read /\ d.eof = S.eof /\ Takes(S, d, Brings(m))
  BY <1>2, ZenonT(120) DEF Receives
<1>4. /\ d.state \in {"Active", "PeerClosed", "PeerTerminating"} \cup Over
      /\ d.state \in {"PeerTerminating"} \cup Over =>
             S.state \in {"PeerTerminating"} \cup Over \/ IsBye(m)
      /\ S.state \in Over => d.state \in Over
  BY <1>1, <1>2, ZenonT(120) DEF ServerOK, Over
<1>5. ServerOK(d)
  <2>1. \A n \in d.ackList : Has(d, n)
    BY <1>1, <1>2, <1>3 DEF ServerOK, Receives, Takes, Conn
  <2>2. d.read <= d.recvNext
    BY <1>1, <1>3 DEF ServerOK, Takes, Conn
  <2> QED  BY <1>4, <2>1, <2>2 DEF ServerOK
<1>6. \A n \in Brings(m) : n < C.sendNext  BY <1>1 DEF Brings, ToServer
<1>7. d.state \in {"PeerTerminating"} \cup Over => C.state \in Over
  BY <1>1, <1>4 DEF Pair, ToServer
<1>8. d.eof => d.state \in Over /\ d.read = C.sendNext
  BY <1>1, <1>3, <1>4 DEF Pair
<1>9. Safe(C, d, toS, toC)  BY <1>3, <1>5, <1>6, <1>7, <1>8, ServerMoves
<1> QED  BY <1>4, <1>9 DEF d, Over

\* A new connection has nothing sent and nothing received.
LEMMA FreshIs ==
  ASSUME NEW s \in States
  PROVE  LET d == Fresh(s)
         IN  /\ d \in Conn /\ d.state = s /\ d.recvNext = 0 /\ d.recvCache = {} /\ d.ackList = {}
             /\ d.read = 0 /\ d.eof = FALSE /\ d.sendNext = 0 /\ d.sendWindow = {}
             /\ WindowOK(d)
<1>1. /\ Fresh(s).state = s /\ Fresh(s).recvNext = 0 /\ Fresh(s).recvCache = {}
      /\ Fresh(s).ackList = {} /\ Fresh(s).read = 0 /\ Fresh(s).eof = FALSE
      /\ Fresh(s).sendNext = 0 /\ Fresh(s).sendWindow = {}
  BY DEF Fresh
<1>2. Fresh(s) \in Conn  BY DEF Fresh, Conn
<1> QED  BY <1>1, <1>2 DEF WindowOK

\* The listener's first session starts where no session was.
LEMMA FirstSession ==
  ASSUME NEW C \in Conn, NEW toS \in SUBSET Msg, NEW toC \in SUBSET Msg,
         Safe(C, Fresh("None"), toS, toC)
  PROVE  Safe(C, Fresh("Active"), toS, toC)
<1> DEFINE S == Fresh("None")
           D == Fresh("Active")
<1>1. /\ S \in Conn /\ S.recvNext = 0 /\ S.recvCache = {}
      /\ D \in Conn /\ D.recvNext = 0 /\ D.recvCache = {} /\ D.ackList = {}
      /\ D.read = 0 /\ D.eof = FALSE /\ D.state = "Active"
  BY FreshIs, ZenonT(120) DEF States
<1> HIDE DEF S, D
<1>2. ServerOK(D)  BY <1>1 DEF ServerOK
<1>3. Takes(S, D, {})  BY <1>1 DEF Takes, Has
<1>4. D.state \notin {"PeerTerminating"} \cup Over  BY <1>1 DEF Over
<1> QED  BY <1>1, <1>2, <1>3, <1>4, ServerMoves DEF S, D

\* Taking a datagram in, for the first time or again, keeps the invariant.
LEMMA ReceiveKeeps ==
  ASSUME KcpInv, NEW e \in Ends, NEW m \in net[e], NEW again \in BOOLEAN, Receive(e, m, again)
  PROVE  KcpInv'
<1> DEFINE known == ep[e].state # "None" /\ ~(e = Server /\ ep[e].state = "Terminated")
           c == IF known THEN ep[e] ELSE Fresh("Active")
           d == Input(c, m)
<1>1. net \in [Ends -> SUBSET Msg] /\ ep[e] \in Conn /\ WindowOK(ep[e])
  BY DEF KcpInv, Typed
<1>2. m \in Msg  BY <1>1
<1>3. /\ net' \in [Ends -> SUBSET Msg]
      /\ net'[Client] \subseteq net[Client] /\ net'[Server] \subseteq net[Server]
  <2>1. net' = IF again THEN net ELSE [net EXCEPT ![e] = @ \ {m}]  BY DEF Receive
  <2> QED  BY <1>1, <2>1 DEF Ends
<1>4. c \in Conn /\ WindowOK(c) /\ c.state # "None"
  <2>1. CASE known  BY <1>1, <2>1
  <2>2. CASE ~known
    <3>1. c = Fresh("Active")  BY <2>2
    <3> HIDE DEF c
    <3> QED  BY <3>1, FreshIs DEF States
  <2> QED  BY <2>1, <2>2
<1>5. /\ e = Server /\ ~known =>
             \/ UNCHANGED <<ep, sessions, cut>>
             \/ /\ sessions' = sessions + 1 /\ cut' = (cut \/ sessions > 0)
                /\ ep' = [ep EXCEPT ![e] = d]
      /\ ~(e = Server /\ ~known) => ep' = [ep EXCEPT ![e] = d] /\ UNCHANGED <<sessions, cut>>
  BY DEF Receive, Become
<1>6. known => c = ep[e]  OBVIOUS
<1>7. ~known => c = Fresh("Active")  OBVIOUS
<1> HIDE DEF c
<1>8. d \in Conn /\ WindowOK(d)  BY <1>2, <1>4, InputReceives DEF Receives
<1> HIDE DEF d
<1>9. CASE e = Client
  <2>1. ASSUME ~cut  PROVE Safe(d, ep[Server], net'[Server], net'[Client])
    <3>1. /\ Safe(ep[Client], ep[Server], net[Server], net[Client]) /\ ep[Server] \in Conn
          /\ net[Client] \in SUBSET Msg /\ net[Server] \in SUBSET Msg
      BY <2>1, Given
    <3>2. known  BY <1>9, <3>1 DEF Safe, ClientOK, Over, Client, Server
    <3>3. Safe(Input(c, m), ep[Server], net[Server], net[Client])
      BY <1>4, <1>6, <1>9, <3>1, <3>2, ClientTakes
    <3> QED  BY <1>3, <3>3, Shrinks DEF d
  <2>2. ep' = [ep EXCEPT ![Client] = d] /\ sessions' = sessions /\ cut' = cut /\ cut \in BOOLEAN
    BY <1>5, <1>9, Given DEF Client, Server
  <2> QED  BY <1>3, <1>8, <2>1, <2>2, ClientActs, ZenonT(120)
<1>10. CASE e = Server /\ UNCHANGED <<ep, sessions, cut>>
  BY <1>3, <1>10, Vanishes DEF Ends
<1>11. CASE /\ e = Server /\ ep' = [ep EXCEPT ![e] = d]
            /\ \/ known /\ UNCHANGED <<sessions, cut>>
               \/ ~known /\ sessions' = sessions + 1 /\ cut' = (cut \/ sessions > 0)
  <2>1. sessions \in Nat /\ cut \in BOOLEAN /\ net[Client] \in SUBSET Msg /\ net[Server] \in SUBSET Msg
        /\ ep[Client] \in Conn
    BY Given
  <2>2. sessions' \in Nat /\ cut' \in BOOLEAN
    <3>1. sessions' = sessions \/ sessions' = sessions + 1  BY <1>11
    <3>2. cut' = cut \/ cut' = (cut \/ sessions > 0)  BY <1>11
    <3>3. cut' \in BOOLEAN  BY <2>1, <3>2, ZenonT(120)
    <3> QED  BY <2>1, <3>1, <3>3
  <2>3. ASSUME ~cut'
        PROVE  d.state # "None" /\ sessions' > 0 /\ Safe(ep[Client], d, net'[Server], net'[Client])
    <3>1. ~cut  BY <1>11, <2>1, <2>3
    <3>2. Safe(ep[Client], ep[Server], net[Server], net[Client])  BY <3>1, Given
    <3>3. sessions' > 0  BY <1>11, <2>1, <3>1, Given
    <3>4. Safe(ep[Client], c, net[Server], net[Client])
      <4>1. CASE known  BY <1>6, <1>11, <3>2, <4>1, ZenonT(120)
      <4>2. CASE ~known
        <5>1. ~(sessions > 0)  BY <1>11, <2>1, <2>3, <4>2, ZenonT(120)
        <5>2. ep[Server] = Fresh("None")  BY <3>1, <5>1 DEF KcpInv, Begun
        <5> QED  BY <1>7, <2>1, <3>2, <4>2, <5>2, FirstSession
      <4> QED  BY <4>1, <4>2
    <3>5. d.state # "None" /\ Safe(ep[Client], d, net[Server], net[Client])
      BY <1>4, <1>11, <2>1, <3>4, ServerTakes, ZenonT(120) DEF d
    <3> QED  BY <1>3, <3>3, <3>5, Shrinks
  <2> QED  BY <1>3, <1>8, <1>11, <2>2, <2>3, ServerActs, ZenonT(120)
<1> QED  BY <1>5, <1>9, <1>10, <1>11 DEF Ends

\* Closing the listener keeps the invariant: a session under way is cut.
LEMMA ListenerCloseKeeps ==
  ASSUME KcpInv, ListenerClose
  PROVE  KcpInv'
<1> DEFINE c == ep[Server]
           d == IF c.state = "None" THEN c ELSE SetState(c, "Terminated")
<1>1. c \in Conn /\ WindowOK(c) /\ net \in [Ends -> SUBSET Msg] /\ ep \in [Ends -> Conn]
  BY Given DEF KcpInv, Typed
<1>2. ep' = [ep EXCEPT ![Server] = d] /\ cut' = TRUE /\ sessions' = MaxSessions /\ net' = net
  BY <1>1 DEF ListenerClose, Ends
<1>3. d \in Conn /\ SameReceiver(c, d)
  BY <1>1, SetStateIs DEF SameReceiver, States
<1> HIDE DEF d
<1>4. WindowOK(d)  BY <1>1, <1>3 DEF WindowOK, SameReceiver
<1> QED  BY <1>1, <1>2, <1>3, <1>4, ServerActs, KcpAssumption, ZenonT(120)

-----------------------------------------------------------------------------
(* The theorems. *)

\* The invariant holds at the start.
LEMMA KcpInit == Init => KcpInv
<1> SUFFICES ASSUME Init  PROVE KcpInv  OBVIOUS
<1>1. /\ ep = [e \in Ends |-> Fresh(IF e = Client THEN "Active" ELSE "None")]
      /\ net = [e \in Ends |-> {}] /\ sessions = 0 /\ cut = FALSE
  BY DEF Init
<1>2. ep[Client] = Fresh("Active") /\ ep[Server] = Fresh("None")
  BY <1>1 DEF Ends, Client, Server
<1>3. /\ ep[Client] \in Conn /\ WindowOK(ep[Client]) /\ ep[Client].state = "Active"
      /\ ep[Client].sendNext = 0 /\ ep[Client].sendWindow = {}
  BY <1>2, FreshIs DEF States
<1>4. /\ ep[Server] \in Conn /\ WindowOK(ep[Server]) /\ ep[Server].state = "None"
      /\ ep[Server].recvNext = 0 /\ ep[Server].recvCache = {} /\ ep[Server].ackList = {}
      /\ ep[Server].read = 0 /\ ep[Server].eof = FALSE
  BY <1>2, FreshIs, ZenonT(120) DEF States
<1>5. Typed
  <2>1. ep \in [Ends -> Conn]  BY <1>1, <1>3, <1>4 DEF Ends
  <2>2. net \in [Ends -> SUBSET Msg]  BY <1>1
  <2> QED  BY <1>1, <1>3, <1>4, <2>1, <2>2, ZenonT(120) DEF Typed, Ends
<1>6. Pair(ep[Client], ep[Server])
  BY <1>3, <1>4 DEF Pair, Has, Over
<1>7. ClientOK(ep[Client]) /\ ServerOK(ep[Server])
  BY <1>3, <1>4 DEF ClientOK, ServerOK, Over
<1>8. net[Client] = {} /\ net[Server] = {}  BY <1>1 DEF Ends
<1> QED  BY <1>2, <1>4, <1>5, <1>6, <1>7, <1>8, ZenonT(120) DEF KcpInv, Safe, Begun

\* Every step keeps the invariant.
LEMMA KcpStep == KcpInv /\ [Next]_vars => KcpInv'
<1> SUFFICES ASSUME KcpInv, [Next]_vars  PROVE KcpInv'  OBVIOUS
<1>1. CASE ListenerClose  BY <1>1, ListenerCloseKeeps
<1>2. ASSUME NEW e \in Ends, Write(e)  PROVE KcpInv'  BY <1>2, WriteKeeps
<1>3. ASSUME NEW e \in Ends, Read(e)  PROVE KcpInv'  BY <1>3, ReadKeeps
<1>4. ASSUME NEW e \in Ends, Close(e)  PROVE KcpInv'  BY <1>4, CloseKeeps
<1>5. ASSUME NEW e \in Ends, NEW late \in BOOLEAN, Flush(e, late)  PROVE KcpInv'
  BY <1>5, FlushKeeps
<1>6. ASSUME NEW e \in Ends, NEW m \in net[e], Lose(e, m)  PROVE KcpInv'
  BY <1>6, LoseKeeps
<1>7. ASSUME NEW e \in Ends, NEW m \in net[e], NEW again \in BOOLEAN, Receive(e, m, again)
      PROVE  KcpInv'
  BY <1>7, ReceiveKeeps
<1>8. CASE UNCHANGED vars
  BY <1>8 DEF vars, KcpInv, Typed, WindowOK, Begun
<1> QED  BY <1>1, <1>2, <1>3, <1>4, <1>5, <1>6, <1>7, <1>8 DEF Next

\* The invariant holds in every reachable state.
LEMMA KcpInvHolds == Spec => []KcpInv
BY KcpInit, KcpStep, PTL DEF Spec

(* However datagrams are lost, repeated and reordered, a segment that left  *)
(* the client's window while the client had not given it up is at the       *)
(* server, in the buffer the application reads or waiting for a gap to fill. *)
THEOREM AckedIsReceivedHolds == Spec => []AckedIsReceived
<1>1. KcpInv => AckedIsReceived
  <2> SUFFICES ASSUME KcpInv, ~cut, NEW n \in 0 .. (ep[Client].sendNext - 1)
               PROVE  \/ n \in ep[Client].sendWindow
                      \/ n < ep[Server].recvNext
                      \/ n \in ep[Server].recvCache
    BY DEF AckedIsReceived
  <2>1. Pair(ep[Client], ep[Server])  BY Given DEF Safe
  <2>2. ep[Client].sendNext \in Nat  BY Given DEF Conn
  <2>3. n \in Nat /\ n < ep[Client].sendNext  BY <2>2
  <2> QED  BY <2>1, <2>3 DEF Pair, Has
<1> QED  BY <1>1, KcpInvHolds, PTL

(* A server that reads EOF, having neither closed itself nor lost the       *)
(* client to a timeout or to a second session, has read everything the      *)
(* client wrote: Terminate overtakes no data, because the client says it    *)
(* only once its window is empty.                                           *)
THEOREM CleanEofHolds == Spec => []CleanEof
<1>1. KcpInv => CleanEof  BY Given DEF CleanEof, Safe, Pair
<1> QED  BY <1>1, KcpInvHolds, PTL
=============================================================================
