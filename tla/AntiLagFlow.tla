----------------------------- MODULE AntiLagFlow -----------------------------
(***************************************************************************)
(* One UDP flow of the AntiLag group (adapter/outboundgroup/antilag_udp.go *)
(* with the monitor of antilag_probe.go): the active path, the standby     *)
(* path, and the goroutines that open, promote, replace and close them.    *)
(*                                                                         *)
(*   change   dials or promotes a replacement; one at a time per flow,     *)
(*            behind switchGate                                            *)
(*   warm     prepares a standby in the background; one at a time, behind  *)
(*            the warming flag, and behind switchGate when it replaces one *)
(*   receive  one per installed path; reports a dead path through fail     *)
(*   WriteTo  the application's writer; it binds the flow, reconnects a    *)
(*            flow without a path, and reports a dead path through fail    *)
(*   ctl      a manual Failover, or the monitor acting on missed probes    *)
(*   close    by the idle sweep, by the socket, by a failed binding        *)
(*                                                                         *)
(* A critical section of f.mu is one step, with the closing of paths that  *)
(* only the goroutine itself still refers to.  The ranking of candidates is   *)
(* left open: change may try them in any order, and a timeout may strike   *)
(* whenever change waits.                                                  *)
(***************************************************************************)
EXTENDS Naturals, FiniteSets

CONSTANTS
    Nodes,      \* the members of the group
    Paths,      \* antiPath objects, reused once unreachable
    Env,        \* what is done to the flow besides opening and closing it
    None        \* no path, no node, nobody

ASSUME FlowAssumption ==
    /\ None \notin Nodes \cup Paths
    /\ Env \subseteq {"write", "read", "control"}

Writer  == "writer"
Control == "control"
Warm    == "warm"

(* The goroutines that call change: the receive goroutine of each path is *)
(* named by the path.                                                     *)
Callers == Paths \cup {Writer, Control}

ASSUME CallerAssumption ==
    /\ Paths \cap {Writer, Control, Warm} = {}
    /\ None \notin {Writer, Control, Warm}

VARIABLES
    node,       \* antiPath.name of the open paths
    open,       \* the paths that are dialled and not retired
    broken,     \* the open paths whose transport is seen to have died
    active,     \* f.active
    reserve,    \* f.reserve
    closed,     \* f.closed
    known,      \* the flow is in the group's table
    done,       \* the socket's ctx
    gate,       \* who holds f.switchGate
    sw,         \* locals of the change that holds the gate
    warm,       \* f.warming and the locals of warm
    pc,         \* where each caller is
    exp,        \* the path a caller of fail, or of change, expects to replace
    want,       \* change's name
    why,        \* why the writer is in change
    told,       \* socket.failures holds a failure
    rd          \* where the application's WaitReadFrom is

vars == <<node, open, broken, active, reserve, closed, known, done,
          gate, sw, warm, pc, exp, want, why, told, rd>>

flowVars   == <<active, reserve, closed, known>>
pathVars   == <<node, open, broken>>
callVars   == <<pc, exp, want, why>>
readerVars == <<told, rd>>

NoSwitch == [old |-> None, spare |-> None, next |-> None, left |-> {}, shed |-> {}]
NoWarm   == [pc |-> "off", active |-> None, old |-> None, avoid |-> None,
             got |-> None, shed |-> {}]

MaybePath == Paths \cup {None}

Switching == {"begin", "choose", "install", "finish"}

(* Every variable has its type; past the gate there is only its holder. *)
TypeOK ==
    /\ node \in [Paths -> Nodes \cup {None}]
    /\ open \subseteq Paths /\ broken \subseteq Paths
    /\ active \in MaybePath /\ reserve \in MaybePath
    /\ closed \in BOOLEAN /\ known \in BOOLEAN /\ done \in BOOLEAN /\ told \in BOOLEAN
    /\ gate \in Callers \cup {Warm, None}
    /\ sw \in [old: MaybePath, spare: MaybePath, next: MaybePath,
               left: SUBSET Nodes, shed: SUBSET Paths]
    /\ warm \in [pc: {"off", "dial", "gate", "swap", "shut"},
                 active: MaybePath, old: MaybePath, avoid: Nodes \cup {None},
                 got: MaybePath, shed: SUBSET Paths]
    /\ pc \in [Callers -> {"off", "read", "gate", "begin", "choose", "install",
                           "finish", "mark", "tell", "register", "abort",
                           "pick", "writing"}]
    /\ \A i \in Callers : pc[i] \in Switching => gate = i
    /\ exp \in [Callers -> MaybePath]
    /\ want \in Nodes \cup {None}
    /\ why \in {"initial", "reconnect", "fail"}
    /\ rd \in {"wait", "look", "error"}

(* binding has created the flow and calls change for its first path. *)
Init ==
    /\ node = [p \in Paths |-> None]
    /\ open = {} /\ broken = {}
    /\ active = None /\ reserve = None
    /\ closed = FALSE /\ known = FALSE /\ done = FALSE
    /\ gate = None /\ sw = NoSwitch /\ warm = NoWarm
    /\ pc = [i \in Callers |-> IF i = Writer THEN "gate" ELSE "off"]
    /\ exp = [i \in Callers |-> None]
    /\ want = None /\ why = "initial"
    /\ told = FALSE /\ rd = "wait"

-----------------------------------------------------------------------------
(* Paths. *)

(* What the goroutines and the flow refer to. *)
Reachable ==
    {active, reserve}
      \cup {sw.old, sw.spare, sw.next} \cup sw.shed
      \cup {warm.active, warm.old, warm.got} \cup warm.shed
      \cup {exp[i] : i \in Callers} \cup {p \in Paths : pc[p] # "off"}

Fresh(p) == p \notin open /\ p \notin Reachable

(* dial succeeds: a new path through the node. *)
Dialled(p, n) ==
    /\ Fresh(p)
    /\ node' = [node EXCEPT ![p] = n]
    /\ open' = open \cup {p}
    /\ UNCHANGED broken

(* antiPath.Close of each path: it is retired and its transport closed. *)
Retire(S) ==
    /\ open' = open \ S
    /\ broken' = broken \ S
    /\ node' = [p \in Paths |-> IF p \in S THEN None ELSE node[p]]

(* The transport of a path dies.  Nobody looks at the transport of another *)
(* path than the active one, so that a path that died earlier is one that  *)
(* dies once it is active.                                                 *)
Break ==
    /\ active # None /\ active \in open \ broken
    /\ broken' = broken \cup {active}
    /\ UNCHANGED <<node, open, flowVars, done, gate, sw, warm, callVars, readerVars>>

-----------------------------------------------------------------------------
(* change. *)

(* What a caller does next once change has returned. *)
AfterChange(i, ok) ==
    CASE i = Control -> "off"
      [] i = Writer /\ why = "initial"   -> IF ok THEN "register" ELSE "abort"
      [] i = Writer /\ why = "reconnect" -> IF ok THEN "pick" ELSE "off"
      [] OTHER -> IF ok THEN "off" ELSE "mark"

(* A writer calls change to reconnect, unless it binds or fails. *)
WhyAfter(i, ok) == IF i = Writer /\ AfterChange(i, ok) # "mark" THEN "reconnect" ELSE why

(* change returns; only a failed fail still needs the path it reported. *)
Return(i, ok) ==
    /\ pc' = [pc EXCEPT ![i] = AfterChange(i, ok)]
    /\ exp' = [exp EXCEPT ![i] = IF AfterChange(i, ok) = "mark" THEN @ ELSE None]
    /\ want' = IF i = Control THEN None ELSE want
    /\ why' = WhyAfter(i, ok)

(* The name change was called with: only ctl names a node. *)
Name(i) == IF i = Control THEN want ELSE None

EnterGate(i) ==
    /\ pc[i] = "gate" /\ gate = None
    /\ gate' = i
    /\ pc' = [pc EXCEPT ![i] = "begin"]
    /\ UNCHANGED <<pathVars, flowVars, done, sw, warm, exp, want, why, readerVars>>

(* The context of change ends while it waits for the gate. *)
GateTimeout(i) ==
    /\ pc[i] = "gate"
    /\ Return(i, FALSE)
    /\ UNCHANGED <<pathVars, flowVars, done, gate, sw, warm, readerVars>>

\* Mutant: a report is acted on whichever path is active by then.
MootByName(i) == active # None /\ node[active] = Name(i)

(* The report is about a path that is no longer active, or the flow is on *)
(* the requested node already.                                            *)
Moot(i) ==
    \/ exp[i] # None /\ active # exp[i]
    \/ active # None /\ node[active] = Name(i)

(* The first locked section: what is there to replace, and with what. *)
Begin(i) ==
    /\ pc[i] = "begin"
    /\ \/ /\ closed \/ done
          /\ Return(i, FALSE) /\ gate' = None /\ UNCHANGED sw
       \/ /\ ~closed /\ ~done /\ Moot(i)
          /\ Return(i, TRUE) /\ gate' = None /\ UNCHANGED sw
       \/ /\ ~closed /\ ~done /\ ~Moot(i)
          /\ sw' = [NoSwitch EXCEPT
                      !.old = active, !.spare = reserve,
                      !.left = {n \in Nodes : /\ Name(i) \in {None, n}
                                              /\ active # None => node[active] # n}]
          /\ pc' = [pc EXCEPT ![i] = "choose"]
          /\ UNCHANGED <<gate, exp, want, why>>
    /\ UNCHANGED <<pathVars, flowVars, done, warm, readerVars>>

(* The candidate is the standby's proxy; unless an update of the provider  *)
(* has put another proxy of that name in its place, which is then dialled. *)
IsSpare(n) == sw.spare # None /\ node[sw.spare] = n

(* A candidate that failed lately is passed over when a failure is handled; *)
(* a dial may fail.                                                         *)
ChooseFails(i, n) ==
    /\ pc[i] = "choose" /\ n \in sw.left
    /\ sw' = [sw EXCEPT !.left = @ \ {n}]
    /\ UNCHANGED <<pathVars, flowVars, done, gate, warm, callVars, readerVars>>

ChooseSpare(i, n) ==
    /\ pc[i] = "choose" /\ n \in sw.left /\ IsSpare(n)
    /\ sw' = [sw EXCEPT !.next = sw.spare, !.left = {}]
    /\ pc' = [pc EXCEPT ![i] = "install"]
    /\ UNCHANGED <<pathVars, flowVars, done, gate, warm, exp, want, why, readerVars>>

ChooseDial(i, n, p) ==
    /\ pc[i] = "choose" /\ n \in sw.left
    /\ Dialled(p, n)
    /\ sw' = [sw EXCEPT !.next = p, !.left = {}]
    /\ pc' = [pc EXCEPT ![i] = "install"]
    /\ UNCHANGED <<flowVars, done, gate, warm, exp, want, why, readerVars>>

(* change gives up: no candidate is left, or its context has ended.  A path *)
(* it dialled is closed, the standby it borrowed stays the standby.         *)
GiveUp(i) ==
    /\ pc[i] \in {"choose", "install"}
    /\ Retire({sw.next} \ {sw.spare})
    /\ sw' = NoSwitch /\ gate' = None
    /\ Return(i, FALSE)
    /\ UNCHANGED <<flowVars, done, warm, readerVars>>

\* Mutant: a standby that arrived during the dial is forgotten.
InstallForgets(i) ==
    /\ pc[i] = "install"
    /\ \/ /\ closed
          /\ Retire({sw.next} \ {sw.spare})
          /\ sw' = NoSwitch /\ gate' = None
          /\ Return(i, FALSE)
          /\ UNCHANGED flowVars
       \/ /\ ~closed
          /\ active' = sw.next /\ reserve' = None
          /\ sw' = [NoSwitch EXCEPT !.next = sw.next, !.shed = {sw.old, sw.spare} \ {None, sw.next}]
          /\ pc' = [pc EXCEPT ![i] = "finish"]
          /\ UNCHANGED <<pathVars, closed, known, gate, exp, want, why>>
    /\ UNCHANGED <<done, warm, readerVars>>

(* The second locked section: the replacement becomes the active path. *)
Install(i) ==
    /\ pc[i] = "install"
    /\ \/ /\ closed
          /\ Retire({sw.next} \ {sw.spare})
          /\ sw' = NoSwitch /\ gate' = None
          /\ Return(i, FALSE)
          /\ UNCHANGED flowVars
       \/ /\ ~closed
          /\ active' = sw.next /\ reserve' = None
          /\ sw' = [NoSwitch EXCEPT !.next = sw.next, !.shed = {sw.old, reserve} \ {None, sw.next}]
          /\ pc' = [pc EXCEPT ![i] = "finish"]
          /\ UNCHANGED <<pathVars, closed, known, gate, exp, want, why>>
    /\ UNCHANGED <<done, warm, readerVars>>

(* What was replaced is closed and receive is started for the new path. *)
Finish(i) ==
    /\ pc[i] = "finish"
    /\ Retire(sw.shed)
    /\ pc' = [pc EXCEPT ![i] = AfterChange(i, TRUE), ![sw.next] = "read"]
    /\ exp' = [exp EXCEPT ![i] = None, ![sw.next] = sw.next]
    /\ want' = IF i = Control THEN None ELSE want
    /\ why' = WhyAfter(i, TRUE)
    /\ sw' = NoSwitch /\ gate' = None
    /\ UNCHANGED <<flowVars, done, warm, readerVars>>

Change(i) ==
    \/ EnterGate(i) \/ GateTimeout(i) \/ Begin(i)
    \/ \E n \in Nodes : \/ ChooseFails(i, n) \/ ChooseSpare(i, n)
                        \/ \E p \in Paths : ChooseDial(i, n, p)
    \/ GiveUp(i) \/ Install(i) \/ Finish(i)

-----------------------------------------------------------------------------
(* warm: started by change for its new path and by the monitor's ticks. *)

(* The node to avoid is the active path's.  That of the standby may be dialled *)
(* again, once the proxy the standby was dialled with has been replaced.       *)
WarmStart ==
    /\ warm.pc = "off" /\ ~closed /\ active # None
    /\ warm' = [NoWarm EXCEPT !.pc = "dial", !.active = active, !.old = reserve,
                              !.avoid = node[active]]
    /\ UNCHANGED <<pathVars, flowVars, done, gate, sw, callVars, readerVars>>

(* No candidate is worth dialling, or no dial succeeds. *)
WarmGiveUp ==
    /\ warm.pc = "dial"
    /\ warm' = NoWarm
    /\ UNCHANGED <<pathVars, flowVars, done, gate, sw, callVars, readerVars>>

WarmDial(n, p) ==
    /\ warm.pc = "dial"
    /\ n # warm.avoid
    /\ Dialled(p, n)
    /\ warm' = [warm EXCEPT !.got = p, !.avoid = None, !.pc = IF warm.old = None THEN "swap" ELSE "gate"]
    /\ UNCHANGED <<flowVars, done, gate, sw, callVars, readerVars>>

(* To replace a standby the gate must be free: a switch may have borrowed it. *)
WarmGate ==
    /\ warm.pc = "gate"
    /\ IF gate = None
       THEN /\ gate' = Warm
            /\ warm' = [warm EXCEPT !.pc = "swap"]
       ELSE /\ warm' = [NoWarm EXCEPT !.pc = "shut", !.shed = {warm.got}]
            /\ UNCHANGED gate
    /\ UNCHANGED <<pathVars, flowVars, done, sw, callVars, readerVars>>

(* The locked section: the new standby is kept if nothing has moved. *)
WarmSwap ==
    /\ warm.pc = "swap"
    /\ IF active = warm.active /\ ~closed /\ reserve = warm.old
       THEN /\ reserve' = warm.got
            /\ warm' = [NoWarm EXCEPT !.pc = "shut", !.shed = {warm.old} \ {None}]
       ELSE /\ warm' = [NoWarm EXCEPT !.pc = "shut", !.shed = {warm.got}]
            /\ UNCHANGED reserve
    /\ UNCHANGED <<pathVars, active, closed, known, done, gate, sw, callVars, readerVars>>

(* The gate is freed, the path that was not kept or was replaced is closed, *)
(* and warming ends.                                                        *)
WarmShut ==
    /\ warm.pc = "shut"
    /\ gate' = IF gate = Warm THEN None ELSE gate
    /\ Retire(warm.shed)
    /\ warm' = NoWarm
    /\ UNCHANGED <<flowVars, done, sw, callVars, readerVars>>

WarmNext ==
    \/ WarmGiveUp \/ WarmGate \/ WarmSwap \/ WarmShut
    \/ \E n \in Nodes, p \in Paths : WarmDial(n, p)

-----------------------------------------------------------------------------
(* fail, by the receive goroutine of a path or by the writer. *)

FailReturns(i) ==
    /\ pc' = [pc EXCEPT ![i] = "off"]
    /\ exp' = [exp EXCEPT ![i] = None]
    /\ why' = IF i = Writer THEN "reconnect" ELSE why

(* The error is seen and fail looks whether it concerns the active path. *)
Fail(i) ==
    /\ IF ~closed /\ active = exp[i] /\ ~done
       THEN /\ pc' = [pc EXCEPT ![i] = "gate"]
            /\ UNCHANGED <<exp, why>>
       ELSE FailReturns(i)
    /\ UNCHANGED <<pathVars, flowVars, done, gate, sw, warm, want, readerVars>>

\* Mutant: a path that could not be replaced stays the active one.
MarkNot(i) ==
    /\ pc[i] = "mark"
    /\ pc' = [pc EXCEPT ![i] = "tell"]
    /\ UNCHANGED <<pathVars, flowVars, done, gate, sw, warm, exp, want, why, readerVars>>

(* There is no replacement: the flow is left without a path. *)
Mark(i) ==
    /\ pc[i] = "mark"
    /\ active' = IF active = exp[i] THEN None ELSE active
    /\ pc' = [pc EXCEPT ![i] = "tell"]
    /\ UNCHANGED <<pathVars, reserve, closed, known, done, gate, sw, warm,
                   exp, want, why, readerVars>>

(* The path is closed and the reader told, unless a report is pending. *)
Tell(i) ==
    /\ pc[i] = "tell"
    /\ Retire({exp[i]})
    /\ told' = TRUE
    /\ FailReturns(i)
    /\ UNCHANGED <<flowVars, done, gate, sw, warm, want, rd>>

-----------------------------------------------------------------------------
(* receive: packets that are passed on leave the state alone. *)

(* WaitReadFrom of a dead or closed path fails. *)
ReadError(p) ==
    /\ pc[p] = "read" /\ (p \in broken \/ p \notin open)
    /\ Fail(p)

(* receive was about to pass a packet on when the path or socket closed. *)
ReadQuit(p) ==
    /\ pc[p] = "read" /\ (p \notin open \/ done)
    /\ pc' = [pc EXCEPT ![p] = "off"]
    /\ exp' = [exp EXCEPT ![p] = None]
    /\ UNCHANGED <<pathVars, flowVars, done, gate, sw, warm, want, why, readerVars>>

Receive(p) ==
    ReadError(p) \/ ReadQuit(p) \/ Change(p) \/ Mark(p) \/ Tell(p)

-----------------------------------------------------------------------------
(* close, and who calls it. *)

(* close(): the flow loses its paths and its place in the group's table. *)
TakeDown ==
    /\ closed' = TRUE /\ known' = FALSE
    /\ active' = None /\ reserve' = None
    /\ Retire({active, reserve})

(* The monitor finds the flow unused for two minutes. *)
IdleSweep ==
    /\ known /\ ~closed
    /\ TakeDown
    /\ UNCHANGED <<done, gate, sw, warm, callVars, readerVars>>

(* antiSocket.Close cancels the context first ... *)
SocketCancel ==
    /\ ~done /\ done' = TRUE
    /\ UNCHANGED <<pathVars, flowVars, gate, sw, warm, callVars, readerVars>>

(* ... and then closes its flows. *)
SocketClose ==
    /\ done /\ ~closed
    /\ TakeDown
    /\ UNCHANGED <<done, gate, sw, warm, callVars, readerVars>>

-----------------------------------------------------------------------------
(* binding and WriteTo. *)

(* binding after the first change: the flow is published. *)
Register ==
    /\ pc[Writer] = "register"
    /\ IF done
       THEN pc' = [pc EXCEPT ![Writer] = "abort"] /\ UNCHANGED known
       ELSE pc' = [pc EXCEPT ![Writer] = "off"] /\ known' = TRUE
    /\ UNCHANGED <<pathVars, active, reserve, closed, done, gate, sw, warm,
                   exp, want, why, readerVars>>

(* binding failed and closes the flow. *)
Abort ==
    /\ pc[Writer] = "abort"
    /\ TakeDown
    /\ pc' = [pc EXCEPT ![Writer] = "off"]
    /\ UNCHANGED <<done, gate, sw, warm, exp, want, why, readerVars>>

(* WriteTo finds the published flow; one without a path is reconnected. *)
WriteStart ==
    /\ "write" \in Env /\ pc[Writer] = "off" /\ known /\ ~done
    /\ pc' = [pc EXCEPT ![Writer] = IF active = None THEN "gate" ELSE "pick"]
    /\ UNCHANGED <<pathVars, flowVars, done, gate, sw, warm, exp, want, why, readerVars>>

WritePick ==
    /\ pc[Writer] = "pick"
    /\ IF closed \/ active = None
       THEN pc' = [pc EXCEPT ![Writer] = "off"] /\ UNCHANGED <<exp, why>>
       ELSE /\ pc' = [pc EXCEPT ![Writer] = "writing"]
            /\ exp' = [exp EXCEPT ![Writer] = active]
            /\ why' = "fail"
    /\ UNCHANGED <<pathVars, flowVars, done, gate, sw, warm, want, readerVars>>

(* The path's writeLoop answers, the path is retired, a deadline passes or *)
(* the socket is closed.                                                   *)
WriteEnds ==
    /\ pc[Writer] = "writing"
    /\ pc' = [pc EXCEPT ![Writer] = "off"]
    /\ exp' = [exp EXCEPT ![Writer] = None]
    /\ why' = "reconnect"
    /\ UNCHANGED <<pathVars, flowVars, done, gate, sw, warm, want, readerVars>>

(* The transport reports that it is closed. *)
WriteError ==
    /\ pc[Writer] = "writing" /\ ~done
    /\ exp[Writer] \in broken \/ exp[Writer] \notin open
    /\ Fail(Writer)

WriteTo ==
    \/ Register \/ Abort \/ WritePick
    \/ Change(Writer) \/ Mark(Writer) \/ Tell(Writer)

-----------------------------------------------------------------------------
(* Failover names a node, or leaves the choice open; the monitor names the *)
(* standby's node and the path that missed its probes.                     *)

Request ==
    /\ "control" \in Env /\ pc[Control] = "off" /\ known
    /\ \E n \in Nodes \cup {None}, p \in {None, active} :
          /\ p # None => n # None
          /\ want' = n
          /\ exp' = [exp EXCEPT ![Control] = p]
    /\ pc' = [pc EXCEPT ![Control] = "gate"]
    /\ UNCHANGED <<pathVars, flowVars, done, gate, sw, warm, why, readerVars>>

-----------------------------------------------------------------------------
(* The application's WaitReadFrom, as far as failures go. *)

ReaderTake ==
    /\ "read" \in Env /\ rd = "wait" /\ told
    /\ told' = FALSE /\ rd' = "look"
    /\ UNCHANGED <<pathVars, flowVars, done, gate, sw, warm, callVars>>

\* Mutant: a flow that still has a standby is taken to be available.
ReaderLookHopes ==
    /\ rd = "look"
    /\ rd' = IF active = None /\ reserve = None /\ ~closed THEN "error" ELSE "wait"
    /\ UNCHANGED <<pathVars, flowVars, done, gate, sw, warm, callVars, told>>

(* The only flow of the socket has no path: the read fails, and with it *)
(* the application's loop.                                              *)
ReaderLook ==
    /\ rd = "look"
    /\ rd' = IF active = None /\ ~closed THEN "error" ELSE "wait"
    /\ UNCHANGED <<pathVars, flowVars, done, gate, sw, warm, callVars, told>>

-----------------------------------------------------------------------------
Next ==
    \/ Break \/ \E p \in Paths : Receive(p)
    \/ WriteStart \/ WriteTo \/ WriteEnds \/ WriteError
    \/ Request \/ Change(Control)
    \/ WarmStart \/ WarmNext
    \/ IdleSweep \/ SocketCancel \/ SocketClose
    \/ ReaderTake \/ ReaderLook

(* Goroutines that can run do run, and dials, which have a timeout, end. *)
(* Nothing makes the application write, a transport die or accept a      *)
(* packet, an operator ask for a switch, or anyone close the socket.     *)
Fairness ==
    /\ \A p \in Paths : WF_vars(Receive(p))
    /\ WF_vars(WriteTo) /\ WF_vars(Change(Control)) /\ WF_vars(WarmNext)
    /\ WF_vars(ReaderTake \/ ReaderLook)
    /\ WF_vars(SocketClose)

Spec == Init /\ [][Next]_vars /\ Fairness

-----------------------------------------------------------------------------
(* Properties. *)

(* An open path is the flow's, or in the hands of a goroutine that will    *)
(* install or close it: no interleaving of switches, preparations,         *)
(* failures and close leaves a dialled path behind.                        *)
NoPathLeak ==
    open \subseteq {active, reserve} \cup {sw.next} \cup sw.shed
                     \cup {warm.got} \cup warm.shed
                     \cup {exp[i] : i \in {j \in Callers : pc[j] = "tell"}}

(* The flow's paths are in order, whatever races whom.  They have not been *)
(* closed by the flow: a switch never promotes a standby that was retired  *)
(* while it held it.  The standby goes through another node than the       *)
(* active path, so that the failure of one node leaves the other.  Until   *)
(* the socket is closed the active path has a receive goroutine, or is     *)
(* about to get it.  A flow that is taken down stays without paths: no     *)
(* late switch or warm revives it.  And a report replaces only the path it *)
(* is about, however long it waited for the gate and for the dial.         *)
PathsInOrder ==
    /\ {active, reserve} \subseteq open \cup {None}
    /\ active # None /\ reserve # None => node[active] # node[reserve]
    /\ active # None /\ ~done => pc[active] # "off" \/ active = sw.next
    /\ closed => active = None /\ reserve = None
    /\ \A i \in Callers : pc[i] \in {"choose", "install"} /\ exp[i] # None =>
          active \in {exp[i], None}

(* A reader of a flow that has lost its last path has been told, or will  *)
(* be: a report is on its way, is waiting in the channel or has been taken *)
(* out and not yet been judged.  The report cannot arrive before the flow  *)
(* shows that it has no path, and one that is dropped because the channel  *)
(* is full finds a reader yet to look.                                     *)
ReaderTold ==
    active = None /\ known =>
        told \/ rd \in {"look", "error"} \/ \E i \in Callers : pc[i] = "tell"

(* An active path that has died, or was closed under the flow, is replaced *)
(* or given up, as often as it happens: the flow does not stay on it.      *)
BrokenReplaced == []<>(active \in (open \ broken) \cup {None})
=============================================================================
