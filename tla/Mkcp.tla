-------------------------------- MODULE Mkcp --------------------------------
(***************************************************************************)
(* transport/mkcp: the reliable conversation between a dialled Conn (the   *)
(* client) and the Conn a Listener makes for it (the server), over a       *)
(* network that loses, duplicates and reorders datagrams.  A segment is    *)
(* its number; segments are written one to a datagram.  Which segments and *)
(* timers are due is left open: a flush may retransmit any part of its     *)
(* window, and any timeout of the state it is in may have run out.  Round  *)
(* trip times, the congestion window and the pacing they decide are left   *)
(* out for that reason.  Numbers do not wrap: that takes 2^32 segments.    *)
(***************************************************************************)
EXTENDS Integers, FiniteSets, FiniteSetsExt

CONSTANTS
    Items,          \* per end: how many segments its application writes
    SendBuf,        \* sendingBufferSize, in segments
    RecvWindow,     \* receivingInFlightSize
    MaxInFlight,    \* bound, per end: datagrams under way to it
    MaxSessions     \* bound: sessions the listener makes for one client

Client == "client"
Server == "server"
Ends   == {Client, Server}
Peer(e) == IF e = Client THEN Server ELSE Client

ASSUME KcpAssumption ==
    /\ Items \in [Ends -> Nat]
    /\ RecvWindow \in Nat \ {0}
    /\ MaxSessions \in Nat

VARIABLES
    ep,         \* per end: its Conn
    net,        \* per end: the datagrams on their way to it
    sessions,   \* how many sessions the listener has made
    cut         \* history: the client's stream was given up before its end

vars == <<ep, net, sessions, cut>>

States == {"None", "Active", "ReadyToClose", "PeerClosed", "Terminating",
           "PeerTerminating", "Terminated"}
Closing == {"ReadyToClose", "Terminating", "Terminated"}    \* Read returns EOF

Fresh(s) == [state |-> s, sendNext |-> 0, firstUnacked |-> 0, sendWindow |-> {},
             recvNext |-> 0, recvCache |-> {}, ackList |-> {}, read |-> 0, eof |-> FALSE]

TypeOK ==
    /\ \A e \in Ends :
         LET nums == 0 .. Max({Items[f] : f \in Ends})
         IN  /\ ep[e].state \in States
             /\ {ep[e].sendNext, ep[e].firstUnacked, ep[e].recvNext, ep[e].read} \subseteq nums
             /\ ep[e].sendWindow \cup ep[e].recvCache \cup ep[e].ackList \subseteq nums
             /\ Cardinality(net[e]) <= MaxInFlight[e]
    /\ sessions \in 0 .. MaxSessions
    /\ cut \in BOOLEAN

Init ==
    /\ ep = [e \in Ends |-> Fresh(IF e = Client THEN "Active" ELSE "None")]
    /\ net = [e \in Ends |-> {}]
    /\ sessions = 0
    /\ cut = FALSE

-----------------------------------------------------------------------------
(* setStateLocked: every state but ReadyToClose throws the window away. *)
SetState(c, s) ==
    IF c.state = s THEN c
    ELSE [c EXCEPT !.state = s, !.sendWindow = IF s = "ReadyToClose" THEN @ ELSE {}]

(* handleOptionLocked *)
HandleOption(c, close) ==
    IF close /\ c.state = "ReadyToClose" THEN SetState(c, "Terminating")
    ELSE IF close /\ c.state = "Active" THEN SetState(c, "PeerClosed")
    ELSE c

(* Mutant: anything the peer sends clears the acknowledgements. *)
ProcessSendingNextAll(c, next) == [c EXCEPT !.ackList = {}]

(* processSendingNextLocked: the peer knows of everything before next. *)
ProcessSendingNext(c, next) == [c EXCEPT !.ackList = {n \in @ : n >= next}]

(* findFirstUnackedLocked *)
FindFirstUnacked(c) ==
    [c EXCEPT !.firstUnacked = IF c.sendWindow = {} THEN c.sendNext ELSE Min(c.sendWindow)]

(* Mutant: the segment the peer expects next counts as received. *)
ProcessReceivingNextToo(c, next) ==
    FindFirstUnacked([c EXCEPT !.sendWindow = {n \in @ : n > next}])

(* processReceivingNextLocked: the peer has everything before next. *)
ProcessReceivingNext(c, next) ==
    FindFirstUnacked([c EXCEPT !.sendWindow = {n \in @ : n >= next}])

(* processAckLocked for each number of the list: only what lies between the *)
(* first unacknowledged and the next segment can leave the window.          *)
ProcessAcks(c, nums) ==
    LET valid == {n \in nums \cap c.sendWindow : c.firstUnacked <= n /\ n < c.sendNext}
    IN  IF valid = {} THEN c ELSE FindFirstUnacked([c EXCEPT !.sendWindow = @ \ valid])

(* deliverLocked: what is contiguous with recvNext goes to readBuf. *)
Deliver(c) ==
    LET next == Min({n \in c.recvNext .. (c.recvNext + RecvWindow) : n \notin c.recvCache})
    IN  [c EXCEPT !.recvNext = next, !.recvCache = {n \in @ : n >= next}]

(* Input of a data segment. *)
OnData(c, m) ==
    LET d == ProcessSendingNext(HandleOption(c, m.close), m.sendingNext)
    IN  Deliver(IF d.recvNext <= m.number /\ m.number < d.recvNext + RecvWindow
                THEN [d EXCEPT !.ackList = @ \cup {m.number}, !.recvCache = @ \cup {m.number}]
                ELSE d)

(* Input of an acknowledgement. *)
OnAck(c, m) ==
    ProcessAcks(ProcessReceivingNext(HandleOption(c, m.close), m.receivingNext), m.numbers)

(* Input of a ping or a terminate. *)
OnTerminate(c) ==
    IF c.state \in {"Active", "PeerClosed"} THEN SetState(c, "PeerTerminating")
    ELSE IF c.state = "ReadyToClose" THEN SetState(c, "Terminating")
    ELSE IF c.state = "Terminating" THEN SetState(c, "Terminated")
    ELSE c

OnCommand(c, m) ==
    LET d == HandleOption(c, m.close)
    IN  ProcessSendingNext(
            ProcessReceivingNext(IF m.terminate THEN OnTerminate(d) ELSE d, m.receivingNext),
            m.sendingNext)

Input(c, m) ==
    IF c.state = "Terminated" THEN c
    ELSE CASE m.type = "data" -> OnData(c, m)
           [] m.type = "ack"  -> OnAck(c, m)
           [] m.type = "cmd"  -> OnCommand(c, m)

-----------------------------------------------------------------------------
(* The segments a Conn in state c can write. *)
DataSegment(c, n) ==
    [type |-> "data", number |-> n, sendingNext |-> c.firstUnacked,
     close |-> c.state = "ReadyToClose"]
AckSegment(c) ==
    [type |-> "ack", numbers |-> c.ackList, receivingNext |-> c.recvNext,
     close |-> c.state = "ReadyToClose"]
PingSegment(c, terminate) ==
    [type |-> "cmd", terminate |-> terminate, receivingNext |-> c.recvNext,
     sendingNext |-> c.firstUnacked, close |-> c.state = "ReadyToClose"]

Write(e) ==
    /\ ep[e].state = "Active"
    /\ ep[e].sendNext < Items[e]
    /\ Cardinality(ep[e].sendWindow) <= SendBuf
    /\ ep' = [ep EXCEPT ![e].sendNext = @ + 1, ![e].sendWindow = @ \cup {ep[e].sendNext}]
    /\ UNCHANGED <<net, sessions, cut>>

(* Read: buffered data first, then EOF if this end is closing. *)
Read(e) ==
    /\ ep[e].state # "None"
    /\ ~ep[e].eof
    /\ \/ /\ ep[e].read < ep[e].recvNext
          /\ ep' = [ep EXCEPT ![e].read = @ + 1]
       \/ /\ ep[e].read = ep[e].recvNext
          /\ ep[e].state \in Closing
          /\ ep' = [ep EXCEPT ![e].eof = TRUE]
    /\ UNCHANGED <<net, sessions, cut>>

Become(e, d) == ep' = [ep EXCEPT ![e] = d]

Close(e) ==
    LET next == [Active |-> "ReadyToClose", PeerClosed |-> "Terminating",
                 PeerTerminating |-> "Terminated"]
    IN  /\ ep[e].state \in DOMAIN next
        /\ Become(e, SetState(ep[e], next[ep[e].state]))
        /\ cut' = (cut \/ e = Server)
        /\ UNCHANGED <<net, sessions>>

(* Mutant: ReadyToClose does not wait for the window to drain. *)
FlushStateHasty(c, late) ==
    LET idle    == IF late /\ c.state = "Active" THEN SetState(c, "ReadyToClose") ELSE c
        drained == IF idle.state = "ReadyToClose" THEN SetState(idle, "Terminating") ELSE idle
    IN  IF late /\ c.state \in {"PeerTerminating", "ReadyToClose"}
        THEN SetState(drained, "Terminating") ELSE drained

(* What flush makes of the state, when late says that the state's timeout   *)
(* has run out: 30 s without input, 15 s to drain, 4 s and 8 s of goodbyes. *)
FlushState(c, late) ==
    LET idle    == IF late /\ c.state = "Active" THEN SetState(c, "ReadyToClose") ELSE c
        drained == IF idle.state = "ReadyToClose" /\ idle.sendWindow = {}
                   THEN SetState(idle, "Terminating") ELSE idle
    IN  IF late /\ c.state \in {"PeerTerminating", "ReadyToClose"}
        THEN SetState(drained, "Terminating") ELSE drained

(* flush: a Conn found or become Terminating by the first two rules says    *)
(* goodbye and, late, ends; any other sends its acknowledgements, segments  *)
(* that are due, and a ping.  The network loses what it likes.              *)
Flush(e, late) ==
    LET c   == ep[e]
        d   == FlushState(c, late)
        bye == \/ c.state = "Terminating"
               \/ c.state \in {"Active", "ReadyToClose"} /\ c.sendWindow = {} /\ d.state = "Terminating"
        out == IF bye THEN {PingSegment(d, TRUE)}
               ELSE {DataSegment(d, n) : n \in d.sendWindow}
                    \cup {PingSegment(d, FALSE)}
                    \cup (IF d.ackList = {} THEN {} ELSE {AckSegment(d)})
    IN  /\ c.state \notin {"None", "Terminated"}
        /\ Become(e, IF late /\ c.state = "Terminating" THEN SetState(d, "Terminated") ELSE d)
        /\ \E sent \in SUBSET out :
             /\ Cardinality(net[Peer(e)] \cup sent) <= MaxInFlight[Peer(e)]
             /\ net' = [net EXCEPT ![Peer(e)] = @ \cup sent]
        /\ cut' = (cut \/ (late /\ ( \/ e = Server /\ c.state = "Active"
                                     \/ e = Client /\ c.state = "ReadyToClose" /\ c.sendWindow # {})))
        /\ UNCHANGED sessions

(* A datagram arrives, and may arrive again.  The listener makes a session  *)
(* for any client it does not know, unless the datagram says goodbye.       *)
Receive(e, m, again) ==
    LET known == ep[e].state # "None" /\ ~(e = Server /\ ep[e].state = "Terminated")
        c     == IF known THEN ep[e] ELSE Fresh("Active")
        d     == Input(c, m)
    IN  /\ m \in net[e]
        /\ net' = IF again THEN net ELSE [net EXCEPT ![e] = @ \ {m}]
        /\ IF e = Server /\ ~known
           THEN IF m.type = "cmd" /\ m.terminate
                THEN UNCHANGED <<ep, sessions, cut>>
                ELSE /\ sessions < MaxSessions
                     /\ sessions' = sessions + 1
                     /\ cut' = (cut \/ sessions > 0)
                     /\ Become(e, d)
           ELSE /\ Become(e, d)
                /\ UNCHANGED <<sessions, cut>>

Lose(e, m) ==
    /\ m \in net[e]
    /\ net' = [net EXCEPT ![e] = @ \ {m}]
    /\ UNCHANGED <<ep, sessions, cut>>

(* Listener.Close: the session is terminated and no other is ever made. *)
ListenerClose ==
    /\ ep' = [ep EXCEPT ![Server] = IF @.state = "None" THEN @ ELSE SetState(@, "Terminated")]
    /\ sessions' = MaxSessions
    /\ cut' = TRUE
    /\ UNCHANGED net

Next ==
    \/ ListenerClose
    \/ \E e \in Ends :
        \/ Write(e) \/ Read(e) \/ Close(e)
        \/ \E late \in BOOLEAN : Flush(e, late)
        \/ \E m \in net[e] : Lose(e, m) \/ \E again \in BOOLEAN : Receive(e, m, again)

Spec == Init /\ [][Next]_vars

(* flush puts a data segment, or an acknowledgement, on the wire; the far   *)
(* end gets it.                                                             *)
SendsData == Flush(Client, FALSE) /\ \E m \in net'[Server] : m.type = "data"
ReceivesData == \E m \in net[Server] : m.type = "data" /\ Receive(Server, m, FALSE)
SendsAck == Flush(Server, FALSE) /\ \E m \in net'[Client] : m.type = "ack"
ReceivesAck == \E m \in net[Client] : m.type = "ack" /\ Receive(Client, m, FALSE)
Clears(e) == \E m \in net[e] : Receive(e, m, FALSE) \/ Lose(e, m)

(* The flush ticker never stops and the application reads what there is.    *)
(* The network is fair: it does not clog, and a kind of datagram that is    *)
(* sent again and again gets through again and again.                       *)
Fairness ==
    /\ \A e \in Ends : WF_vars(Read(e)) /\ WF_vars(Clears(e))
    /\ SF_vars(SendsData) /\ SF_vars(ReceivesData)
    /\ SF_vars(SendsAck) /\ SF_vars(ReceivesAck)

LiveSpec == Spec /\ Fairness

-----------------------------------------------------------------------------
(* What was acknowledged was received: in the listener's only session, a    *)
(* segment that left the client's window while the client had not given it  *)
(* up is at the server, whatever acknowledgements were lost or came late.   *)
AckedIsReceived ==
    (~cut /\ ep[Client].state \in {"Active", "ReadyToClose"}) =>
        \A n \in 0 .. (ep[Client].sendNext - 1) :
            \/ n \in ep[Client].sendWindow
            \/ n < ep[Server].recvNext
            \/ n \in ep[Server].recvCache

(* A clean end of stream is complete: a server that reads EOF, and neither  *)
(* closed itself nor lost the client to a timeout or to a second session,   *)
(* has read everything the client wrote before it closed.                   *)
CleanEof ==
    (ep[Server].eof /\ ~cut) => ep[Server].read = ep[Client].sendNext

(* Nothing written is forgotten: while both ends stay open, a segment the   *)
(* client wrote reaches the server's application, and the client learns of  *)
(* it, over a network that loses, repeats and reorders but is fair.         *)
WrittenArrives ==
    \A n \in 0 .. (Items[Client] - 1) :
        []<>(\/ n >= ep[Client].sendNext
             \/ n < ep[Server].read /\ n \notin ep[Client].sendWindow
             \/ ep[Client].state # "Active"
             \/ cut)
=============================================================================
