------------------------- MODULE AntiLagSwitchProofs -------------------------
(***************************************************************************)
(* The ownership of the paths of an AntiLag flow: the inductive invariant  *)
(* says who refers to which path at every point of change, warm and fail,  *)
(* for any nodes, any number of path objects and every mix of callers.     *)
(* Here it is shown to be kept by every step of change and warm;           *)
(* AntiLagFlowProofs has the other steps and the theorems.                 *)
(***************************************************************************)
EXTENDS AntiLagFlow, TLAPS

\* A leaf that names no prover is for SMT. The limit is generous: most leaves
\* take well under a second of it.
USE SMTT(120)

(* A switch is under way only while its caller holds the gate. *)
GateInv ==
    /\ gate = Warm => warm.pc \in {"swap", "shut"}
    /\ gate \in Callers => pc[gate] \in Switching
    /\ gate \notin Callers => sw = NoSwitch

(* The standby that a change has seen is the standby still, unless the flow *)
(* was closed and has retired it.                                           *)
SpareHeld ==
    \/ sw.spare \in {None, reserve}
    \/ closed /\ sw.spare \notin open

(* The locals of change at each of its points. *)
SwitchAt(i) ==
    /\ pc[i] = "begin" => sw = NoSwitch
    /\ pc[i] \in {"choose", "install"} =>
          active \in {sw.old, None} /\ SpareHeld /\ sw.shed = {}
    /\ pc[i] = "choose" => sw.next = None
    /\ pc[i] = "install" =>
          /\ sw.next \in Paths
          /\ sw.next \in open \/ closed
          /\ sw.next \in {active, reserve} => sw.next = sw.spare
    /\ pc[i] = "finish" =>
          /\ sw.spare = None /\ sw.old = None
          /\ sw.next \in Paths /\ sw.next # reserve /\ pc[sw.next] = "off"
          /\ active \in {sw.next, None}
          /\ sw.next \in open =>
                sw.next = active \/ \E j \in Callers : pc[j] = "tell" /\ exp[j] = sw.next

SwitchInv == \A i \in Callers : SwitchAt(i)

(* The locals of warm at each of its points. *)
WarmInv ==
    /\ warm.pc = "off" => warm = NoWarm
    /\ warm.pc = "dial" => warm.got = None /\ warm.shed = {}
    /\ warm.pc \in {"gate", "swap"} => warm.got \in open /\ warm.shed = {}
    /\ warm.pc = "shut" => warm.got = None
    /\ warm.pc = "swap" /\ warm.old # None => gate = Warm
    /\ active # None /\ active = warm.active =>
          /\ warm.pc = "dial" => warm.avoid = node[active]
          /\ warm.pc \in {"gate", "swap"} => node[active] # node[warm.got]

(* What warm holds belongs to nobody else, and what a change will close is *)
(* no longer the flow's.                                                   *)
Held == ({warm.got} \cup warm.shed) \ {None}

Disjoint ==
    /\ Held \cap ({active, reserve, sw.old, sw.spare, sw.next} \cup sw.shed) = {}
    /\ sw.shed \cap {active, reserve} = {}

(* The paths that have never been active: nobody reads from them, reports *)
(* them or takes them for the active path.                                *)
Unused ==
    (Held \cup {reserve, sw.spare}
      \cup {sw.next : i \in {j \in Callers : pc[j] = "install"}}) \ {None}

UnusedInv ==
    \A p \in Unused :
       /\ pc[p] = "off" /\ p # active /\ p # warm.active
       /\ \A i \in Callers : exp[i] # p

(* A receive goroutine reports its own path, and what is reported as lost is *)
(* a path that is no longer active.                                          *)
ReportInv ==
    /\ \A p \in Paths : exp[p] = IF pc[p] = "off" THEN None ELSE p
    /\ \A i \in Callers : pc[i] \in {"mark", "tell"} => exp[i] \in Paths
    /\ \A i \in Callers : pc[i] = "tell" => exp[i] # active
    /\ why = "fail" <=> exp[Writer] # None

(* The first change of the flow runs alone. *)
Binding == why = "initial" /\ pc[Writer] # "finish"

WriterInv ==
    /\ pc[Writer] \in {"off", "pick", "register", "abort"} => why = "reconnect"
    /\ why = "initial" => pc[Writer] \in Switching \cup {"gate"}
    /\ Binding => active = None /\ \A i \in Callers \ {Writer} : pc[i] = "off"
    /\ known => ~closed
    /\ why = "initial" \/ pc[Writer] \in {"register", "abort"} => ~known
    /\ closed /\ (why = "initial" \/ pc[Writer] = "register") => done

(* ReaderTold, from the end of the first change on. *)
ToldInv ==
    active = None /\ ~closed /\ ~Binding /\ pc[Writer] # "abort" =>
        told \/ rd \in {"look", "error"} \/ \E i \in Callers : pc[i] = "tell"

(* An open path goes through a node. *)
NodeInv == \A p \in open : node[p] \in Nodes

(* The inductive invariant. *)
FlowInv ==
    /\ TypeOK /\ GateInv /\ SwitchInv /\ WarmInv /\ Disjoint /\ UnusedInv
    /\ ReportInv /\ WriterInv /\ ToldInv /\ NodeInv
    /\ NoPathLeak /\ PathsInOrder

(* What most steps need of the types. *)
Places == {"off", "read", "gate", "begin", "choose", "install", "finish", "mark",
           "tell", "register", "abort", "pick", "writing"}

Shapes ==
    /\ pc \in [Callers -> Places] /\ exp \in [Callers -> MaybePath]
    /\ node \in [Paths -> Nodes \cup {None}] /\ open \subseteq Paths
    /\ {active, reserve, sw.spare, sw.next, warm.got} \subseteq MaybePath
    /\ warm.shed \subseteq Paths /\ sw.shed \subseteq Paths

-----------------------------------------------------------------------------
USE FlowAssumption, CallerAssumption
    DEF Callers, Writer, Control, Warm, MaybePath, pathVars, flowVars, callVars, readerVars

(* They follow from the type invariant. *)
LEMMA ShapesType == TypeOK => Shapes
  BY DEF TypeOK, Shapes, Places

-----------------------------------------------------------------------------
(* change. *)

(* A caller of change gets the gate: no other switch is under way. *)
LEMMA EnterGateStep ==
    ASSUME NEW i \in Callers, FlowInv, EnterGate(i)
    PROVE  FlowInv'
  <1>0. Shapes
    BY ShapesType DEF FlowInv
  <1>1. TypeOK'
    BY DEF FlowInv, EnterGate, TypeOK
  <1>2. GateInv'
    BY DEF FlowInv, EnterGate, GateInv, TypeOK, Switching, NoSwitch
  <1>3. SwitchInv'
    BY DEF FlowInv, EnterGate, SwitchInv, SwitchAt, SpareHeld, NoSwitch,
       TypeOK, GateInv, Switching
  <1>4. WriterInv'
    BY DEF FlowInv, EnterGate, WriterInv, Binding, TypeOK, ReportInv,
       Switching
  <1>5. WarmInv'
    BY <1>0 DEF FlowInv, EnterGate, WarmInv, NoWarm, Shapes
  <1>6. Disjoint' /\ NodeInv'
    BY <1>0 DEF FlowInv, EnterGate, Disjoint, Held, NodeInv, Shapes
  <1>7. UnusedInv'
    BY <1>0 DEF FlowInv, EnterGate, UnusedInv, Unused, Held, Shapes
  <1>8. ReportInv' /\ ToldInv'
    BY <1>0 DEF FlowInv, EnterGate, ReportInv, ToldInv, Binding, Shapes
  <1>9. NoPathLeak'
    BY <1>0 DEF FlowInv, EnterGate, NoPathLeak, Shapes
  <1>10. PathsInOrder'
    BY <1>0 DEF FlowInv, EnterGate, PathsInOrder, Shapes
  <1> QED BY <1>1, <1>2, <1>3, <1>4, <1>5, <1>6, <1>7, <1>8, <1>9, <1>10 DEF FlowInv

(* A caller of change gives up waiting for the gate. *)
LEMMA GateTimeoutStep ==
    ASSUME NEW i \in Callers, FlowInv, GateTimeout(i)
    PROVE  FlowInv'
  <1>0. Shapes
    BY ShapesType DEF FlowInv
  <1>1. TypeOK'
    BY DEF FlowInv, GateTimeout, Return, AfterChange, WhyAfter, TypeOK,
       Switching, NoSwitch, NoWarm
  <1>2. GateInv'
    BY DEF FlowInv, GateTimeout, Return, AfterChange, WhyAfter, GateInv,
       TypeOK, Switching, NoSwitch
  <1>3. ReportInv'
    BY DEF FlowInv, GateTimeout, Return, AfterChange, WhyAfter, ReportInv,
       TypeOK
  <1>4. WriterInv'
    BY DEF FlowInv, GateTimeout, Return, AfterChange, WhyAfter, WriterInv,
       Binding, TypeOK
  <1>5. ToldInv'
    BY DEF FlowInv, GateTimeout, Return, AfterChange, WhyAfter, ToldInv,
       Binding, TypeOK, WriterInv
  <1>6. WarmInv'
    BY <1>0 DEF FlowInv, GateTimeout, Return, AfterChange, WhyAfter, WarmInv,
       NoWarm, Shapes
  <1>7. SwitchInv'
    BY <1>0 DEF FlowInv, GateTimeout, Return, AfterChange, WhyAfter,
       SwitchInv, SwitchAt, SpareHeld, NoSwitch, Shapes
  <1>8. Disjoint' /\ NodeInv'
    BY <1>0 DEF FlowInv, GateTimeout, Return, AfterChange, WhyAfter, Disjoint,
       Held, NodeInv, Shapes
  <1>9. UnusedInv'
    BY <1>0 DEF FlowInv, GateTimeout, Return, AfterChange, WhyAfter,
       UnusedInv, Unused, Held, Shapes
  <1>10. NoPathLeak'
    BY <1>0 DEF FlowInv, GateTimeout, Return, AfterChange, WhyAfter,
       NoPathLeak, Shapes
  <1>11. PathsInOrder'
    BY <1>0 DEF FlowInv, GateTimeout, Return, AfterChange, WhyAfter,
       PathsInOrder, Shapes
  <1> QED BY <1>1, <1>2, <1>3, <1>4, <1>5, <1>6, <1>7, <1>8, <1>9, <1>10, <1>11 DEF
     FlowInv

(* change finds nothing to do, or nobody to do it for. *)
LEMMA BeginReturnsStep ==
    ASSUME NEW i \in Callers, FlowInv, pc[i] = "begin",
           NEW ok \in BOOLEAN, ok => ~closed /\ Moot(i),
           Return(i, ok), gate' = None,
           UNCHANGED <<pathVars, flowVars, done, sw, warm, readerVars>>
    PROVE  FlowInv'
  <1>0. Shapes
    BY ShapesType DEF FlowInv
  <1>1. TypeOK'
    BY DEF FlowInv, Moot, Name, Return, AfterChange, WhyAfter, TypeOK,
       Switching
  <1>2. GateInv'
    BY DEF FlowInv, Moot, Name, Return, AfterChange, WhyAfter, GateInv,
       TypeOK, SwitchInv, SwitchAt, SpareHeld, NoSwitch, Switching
  <1>3. SwitchInv'
    BY DEF FlowInv, Moot, Name, Return, AfterChange, WhyAfter, SwitchInv,
       SwitchAt, SpareHeld, NoSwitch, TypeOK, GateInv, Switching
  <1>4. WarmInv'
    BY DEF FlowInv, Moot, Name, Return, AfterChange, WhyAfter, WarmInv,
       NoWarm, TypeOK, GateInv, Switching
  <1>5. UnusedInv'
    BY DEF FlowInv, Moot, Name, Return, AfterChange, WhyAfter, UnusedInv,
       Unused, Held, TypeOK
  <1>6. ReportInv'
    BY DEF FlowInv, Moot, Name, Return, AfterChange, WhyAfter, ReportInv,
       TypeOK, GateInv
  <1>7. WriterInv'
    BY DEF FlowInv, Moot, Name, Return, AfterChange, WhyAfter, WriterInv,
       Binding, TypeOK, ReportInv, GateInv, Switching, NoSwitch
  <1>8. ToldInv'
    BY DEF FlowInv, Moot, Name, Return, AfterChange, WhyAfter, ToldInv,
       Binding, TypeOK, WriterInv, ReportInv, Switching
  <1>9. NoPathLeak'
    BY DEF FlowInv, Moot, Name, Return, AfterChange, WhyAfter, NoPathLeak,
       TypeOK
  <1>10. PathsInOrder'
    BY DEF FlowInv, Moot, Name, Return, AfterChange, WhyAfter, PathsInOrder,
       TypeOK, ReportInv, NodeInv
  <1>11. Disjoint' /\ NodeInv'
    BY <1>0 DEF FlowInv, Moot, Name, Return, AfterChange, WhyAfter, Disjoint,
       Held, NodeInv, Shapes
  <1> QED BY <1>1, <1>2, <1>3, <1>4, <1>5, <1>6, <1>7, <1>8, <1>9, <1>10, <1>11 DEF
     FlowInv

(* change takes down what it is about to replace. *)
LEMMA BeginChoosesStep ==
    ASSUME NEW i \in Callers, FlowInv, pc[i] = "begin", pc' = [pc EXCEPT ![i] = "choose"],
           exp[i] # None => active = exp[i],
           sw' \in [old: MaybePath, spare: MaybePath, next: MaybePath,
                     left: SUBSET Nodes, shed: SUBSET Paths],
           sw'.old = active, sw'.spare = reserve, sw'.next = None, sw'.shed = {},
           UNCHANGED <<gate, exp, want, why>>, UNCHANGED <<pathVars, flowVars, done, warm, readerVars>>
    PROVE  FlowInv'
  <1>0. Shapes
    BY ShapesType DEF FlowInv
  <1>1. TypeOK'
    BY DEF FlowInv, NoSwitch, TypeOK, Switching
  <1>2. GateInv'
    BY DEF FlowInv, NoSwitch, GateInv, TypeOK, Switching
  <1>3. SwitchInv'
    BY DEF FlowInv, NoSwitch, SwitchInv, SwitchAt, SpareHeld, TypeOK, GateInv,
       Switching
  <1>4. Disjoint'
    BY DEF FlowInv, NoSwitch, Disjoint, Held, TypeOK, SwitchInv, SwitchAt,
       SpareHeld
  <1>5. UnusedInv'
    BY DEF FlowInv, NoSwitch, UnusedInv, Unused, Held, TypeOK, SwitchInv,
       SwitchAt, SpareHeld, GateInv
  <1>6. WriterInv'
    BY DEF FlowInv, NoSwitch, WriterInv, Binding, TypeOK, Switching
  <1>7. ToldInv'
    BY DEF FlowInv, NoSwitch, ToldInv, Binding, TypeOK, WriterInv, Switching
  <1>8. NoPathLeak'
    BY DEF FlowInv, NoSwitch, NoPathLeak, TypeOK, SwitchInv, SwitchAt,
       SpareHeld
  <1>9. PathsInOrder'
    BY DEF FlowInv, NoSwitch, PathsInOrder, TypeOK, SwitchInv, SwitchAt,
       SpareHeld
  <1>10. WarmInv'
    BY <1>0 DEF FlowInv, NoSwitch, WarmInv, NoWarm, Shapes
  <1>11. NodeInv'
    BY <1>0 DEF FlowInv, NoSwitch, NodeInv, Shapes
  <1>12. ReportInv'
    BY <1>0 DEF FlowInv, NoSwitch, ReportInv, Shapes
  <1> QED BY <1>1, <1>2, <1>3, <1>4, <1>5, <1>6, <1>7, <1>8, <1>9, <1>10, <1>11, <1>12
     DEF FlowInv

(* A candidate is passed over. *)
LEMMA ChooseFailsStep ==
    ASSUME NEW i \in Callers, FlowInv, NEW n \in Nodes, ChooseFails(i, n)
    PROVE  FlowInv'
  <1>0. Shapes
    BY ShapesType DEF FlowInv
  <1>1. TypeOK'
    BY DEF FlowInv, ChooseFails, TypeOK
  <1>2. GateInv'
    BY DEF FlowInv, ChooseFails, GateInv, TypeOK, Switching, NoSwitch
  <1>3. WarmInv'
    BY <1>0 DEF FlowInv, ChooseFails, WarmInv, NoWarm, Shapes
  <1>4. SwitchInv'
    BY <1>0 DEF FlowInv, ChooseFails, SwitchInv, SwitchAt, SpareHeld,
       NoSwitch, Shapes
  <1>5. Disjoint' /\ NodeInv'
    BY <1>0 DEF FlowInv, ChooseFails, Disjoint, Held, NodeInv, Shapes
  <1>6. UnusedInv'
    BY <1>0 DEF FlowInv, ChooseFails, UnusedInv, Unused, Held, Shapes
  <1>7. ReportInv' /\ WriterInv' /\ ToldInv'
    BY <1>0 DEF FlowInv, ChooseFails, ReportInv, WriterInv, Binding,
       ToldInv, Shapes
  <1>8. NoPathLeak'
    BY <1>0 DEF FlowInv, ChooseFails, NoPathLeak, Shapes
  <1>9. PathsInOrder'
    BY <1>0 DEF FlowInv, ChooseFails, PathsInOrder, Shapes
  <1> QED BY <1>1, <1>2, <1>3, <1>4, <1>5, <1>6, <1>7, <1>8, <1>9 DEF FlowInv

(* The standby is borrowed: it is still open, or the flow is closed. *)
LEMMA ChooseSpareStep ==
    ASSUME NEW i \in Callers, FlowInv, NEW n \in Nodes, ChooseSpare(i, n)
    PROVE  FlowInv'
  <1>0. Shapes
    BY ShapesType DEF FlowInv
  <1>1. TypeOK'
    <2>1. sw' \in [old: MaybePath, spare: MaybePath, next: MaybePath,
                     left: SUBSET Nodes, shed: SUBSET Paths]
      BY ZenonT(120) DEF FlowInv, ChooseSpare, IsSpare, TypeOK
    <2> QED BY <2>1 DEF FlowInv, ChooseSpare, IsSpare, TypeOK, Switching
  <1>2. GateInv'
    BY DEF FlowInv, ChooseSpare, IsSpare, GateInv, TypeOK, Switching, NoSwitch
  <1>3. SwitchInv'
    BY DEF FlowInv, ChooseSpare, IsSpare, SwitchInv, SwitchAt, SpareHeld,
       NoSwitch, TypeOK, GateInv, PathsInOrder, Switching
  <1>4. WriterInv'
    BY DEF FlowInv, ChooseSpare, IsSpare, WriterInv, Binding, TypeOK,
       ReportInv, Switching
  <1>5. NoPathLeak'
    BY DEF FlowInv, ChooseSpare, IsSpare, NoPathLeak, TypeOK, GateInv,
       SwitchInv, SwitchAt, SpareHeld, NoSwitch, WarmInv, NoWarm
  <1>6. PathsInOrder'
    BY DEF FlowInv, ChooseSpare, IsSpare, PathsInOrder, TypeOK, GateInv,
       SwitchInv, SwitchAt, SpareHeld, NoSwitch, ReportInv, Disjoint, Held,
       UnusedInv, Unused
  <1>7. WarmInv'
    BY <1>0 DEF FlowInv, ChooseSpare, IsSpare, WarmInv, NoWarm, Shapes
  <1>8. Disjoint' /\ NodeInv'
    BY <1>0 DEF FlowInv, ChooseSpare, IsSpare, Disjoint, Held, NodeInv, Shapes
  <1>9. UnusedInv'
    BY <1>0 DEF FlowInv, ChooseSpare, IsSpare, UnusedInv, Unused, Held, Shapes
  <1>10. ReportInv' /\ ToldInv'
    BY <1>0 DEF FlowInv, ChooseSpare, IsSpare, ReportInv, ToldInv, Binding,
       Shapes
  <1> QED BY <1>1, <1>2, <1>3, <1>4, <1>5, <1>6, <1>7, <1>8, <1>9, <1>10 DEF FlowInv

(* A path is dialled that nobody else knows. *)
LEMMA ChooseDialStep ==
    ASSUME NEW i \in Callers, FlowInv, NEW n \in Nodes, NEW q \in Paths,
           ChooseDial(i, n, q)
    PROVE  FlowInv'
  <1>0. Shapes
    BY ShapesType DEF FlowInv
  <1>1. TypeOK'
    <2>1. sw' \in [old: MaybePath, spare: MaybePath, next: MaybePath,
                   left: SUBSET Nodes, shed: SUBSET Paths]
      BY ZenonT(120) DEF FlowInv, ChooseDial, Dialled, Fresh, Reachable, TypeOK
    <2>2. node' \in [Paths -> Nodes \cup {None}] /\ open' \subseteq Paths
      BY DEF FlowInv, ChooseDial, Dialled, Fresh, Reachable, TypeOK
    <2> QED BY <2>1, <2>2 DEF FlowInv, ChooseDial, Dialled, Fresh, Reachable, TypeOK, Switching
  <1>2. GateInv'
    BY DEF FlowInv, ChooseDial, Dialled, Fresh, Reachable, GateInv,
       TypeOK, Switching, NoSwitch
  <1>3. SwitchInv'
    BY DEF FlowInv, ChooseDial, Dialled, Fresh, Reachable, SwitchInv,
       SwitchAt, SpareHeld, NoSwitch, TypeOK, GateInv, Switching
  <1>4. WriterInv'
    BY DEF FlowInv, ChooseDial, Dialled, Fresh, Reachable, WriterInv,
       Binding, TypeOK, ReportInv, Switching
  <1>5. NoPathLeak'
    BY DEF FlowInv, ChooseDial, Dialled, Fresh, Reachable,
       NoPathLeak, TypeOK, GateInv, SwitchInv, SwitchAt, SpareHeld, NoSwitch,
       WarmInv, NoWarm
  <1>6. PathsInOrder'
    BY DEF FlowInv, ChooseDial, Dialled, Fresh, Reachable,
       PathsInOrder, TypeOK, GateInv, SwitchInv, SwitchAt, SpareHeld,
       NoSwitch, ReportInv, Disjoint, Held, UnusedInv, Unused
  <1>7. WarmInv'
    BY <1>0 DEF FlowInv, ChooseDial, Dialled, Fresh, Reachable,
       WarmInv, NoWarm, Shapes
  <1>8. Disjoint' /\ NodeInv'
    BY <1>0 DEF FlowInv, ChooseDial, Dialled, Fresh, Reachable,
       Disjoint, Held, NodeInv, Shapes
  <1>9. UnusedInv'
    BY <1>0 DEF FlowInv, ChooseDial, Dialled, Fresh, Reachable,
       UnusedInv, Unused, Held, Shapes
  <1>10. ReportInv' /\ ToldInv'
    BY <1>0 DEF FlowInv, ChooseDial, Dialled, Fresh, Reachable,
       ReportInv, ToldInv, Binding, Shapes
  <1> QED BY <1>1, <1>2, <1>3, <1>4, <1>5, <1>6, <1>7, <1>8, <1>9, <1>10 DEF FlowInv

(* A path that change dialled is closed, the standby it borrowed is not. *)
LEMMA GiveUpStep ==
    ASSUME NEW i \in Callers, FlowInv, GiveUp(i)
    PROVE  FlowInv'
  <1>0. Shapes
    BY ShapesType DEF FlowInv
  <1>1. TypeOK'
    BY DEF FlowInv, GiveUp, Retire, Return, AfterChange, WhyAfter, TypeOK,
       Switching, NoSwitch, NoWarm
  <1>2. SwitchInv'
    BY DEF FlowInv, GiveUp, Retire, Return, AfterChange, WhyAfter, SwitchInv,
       SwitchAt, SpareHeld, NoSwitch, TypeOK, GateInv, Switching
  <1>3. WarmInv'
    <2>1. active # None => active # sw.next
      BY DEF FlowInv, GiveUp, Retire, Return, AfterChange, WhyAfter, TypeOK, SwitchInv, SwitchAt, UnusedInv, Unused
    <2>2. warm.got # None => warm.got # sw.next
      BY ZenonT(120) DEF FlowInv, GiveUp, Retire, Return, AfterChange, WhyAfter, TypeOK, Disjoint, Held
    <2>3. gate # Warm
      BY DEF FlowInv, GiveUp, Retire, Return, AfterChange, WhyAfter, TypeOK, Switching
    <2>4. \A p \in Paths : p # sw.next => node'[p] = node[p] /\ (p \in open => p \in open')
      BY DEF GiveUp, Retire, Return, AfterChange, WhyAfter
    <2> QED BY <2>1, <2>2, <2>3, <2>4 DEF FlowInv, GiveUp, Retire, Return, AfterChange, WhyAfter, TypeOK, WarmInv
  <1>4. Disjoint'
    BY DEF FlowInv, GiveUp, Retire, Return, AfterChange, WhyAfter, Disjoint,
       Held, TypeOK, GateInv, SwitchInv, SwitchAt, SpareHeld, NoSwitch,
       WarmInv, NoWarm
  <1>5. UnusedInv'
    BY DEF FlowInv, GiveUp, Retire, Return, AfterChange, WhyAfter, UnusedInv,
       Unused, Held, TypeOK, GateInv, SwitchInv, SwitchAt, SpareHeld,
       NoSwitch, WarmInv, NoWarm, Disjoint
  <1>6. ReportInv'
    BY DEF FlowInv, GiveUp, Retire, Return, AfterChange, WhyAfter, ReportInv,
       TypeOK
  <1>7. WriterInv'
    BY DEF FlowInv, GiveUp, Retire, Return, AfterChange, WhyAfter, WriterInv,
       Binding, TypeOK
  <1>8. ToldInv'
    BY DEF FlowInv, GiveUp, Retire, Return, AfterChange, WhyAfter, ToldInv,
       Binding, TypeOK, WriterInv
  <1>9. NoPathLeak'
    BY DEF FlowInv, GiveUp, Retire, Return, AfterChange, WhyAfter, NoPathLeak,
       TypeOK, GateInv, SwitchInv, SwitchAt, SpareHeld, NoSwitch, WarmInv,
       NoWarm
  <1>10. PathsInOrder'
    BY DEF FlowInv, GiveUp, Retire, Return, AfterChange, WhyAfter,
       PathsInOrder, TypeOK, GateInv, SwitchInv, SwitchAt, SpareHeld,
       NoSwitch, ReportInv, Disjoint, Held, UnusedInv, Unused
  <1>11. GateInv'
    BY <1>0 DEF FlowInv, GiveUp, Retire, Return, AfterChange, WhyAfter,
       GateInv, Shapes
  <1>12. NodeInv'
    BY <1>0 DEF FlowInv, GiveUp, Retire, Return, AfterChange, WhyAfter,
       NodeInv, Shapes
  <1> QED BY <1>1, <1>2, <1>3, <1>4, <1>5, <1>6, <1>7, <1>8, <1>9, <1>10, <1>11, <1>12
     DEF FlowInv

(* The replacement becomes the active path. *)
LEMMA InstallsStep ==
    ASSUME NEW i \in Callers, FlowInv, pc[i] = "install", ~closed,
           sw' \in [old: MaybePath, spare: MaybePath, next: MaybePath,
                     left: SUBSET Nodes, shed: SUBSET Paths],
           active' = sw.next, reserve' = None, pc' = [pc EXCEPT ![i] = "finish"],
           sw'.old = None, sw'.spare = None, sw'.next = sw.next,
           sw'.shed = {sw.old, reserve} \ {None, sw.next},
           UNCHANGED <<pathVars, closed, known, gate, exp, want, why, done, warm, readerVars>>
    PROVE  FlowInv'
  <1>0. Shapes
    BY ShapesType DEF FlowInv
  <1>1. TypeOK'
    BY DEF FlowInv, Switching, TypeOK, SwitchInv, SwitchAt, SpareHeld,
       NoSwitch
  <1>2. GateInv'
    BY DEF FlowInv, Switching, GateInv, TypeOK, NoSwitch
  <1>3. SwitchInv'
    BY DEF FlowInv, Switching, SwitchInv, SwitchAt, SpareHeld, NoSwitch,
       TypeOK, GateInv, UnusedInv, Unused, Held
  <1>4. WarmInv'
    BY DEF FlowInv, Switching, WarmInv, NoWarm, TypeOK, UnusedInv, Unused,
       Held, SwitchInv, SwitchAt, SpareHeld, NoSwitch
  <1>5. Disjoint'
    BY DEF FlowInv, Switching, Disjoint, Held, TypeOK, SwitchInv, SwitchAt,
       SpareHeld, NoSwitch
  <1>6. UnusedInv'
    BY DEF FlowInv, Switching, UnusedInv, Unused, Held, TypeOK, Disjoint,
       SwitchInv, SwitchAt, SpareHeld, NoSwitch, GateInv
  <1>7. ReportInv'
    BY DEF FlowInv, Switching, ReportInv, TypeOK, UnusedInv, Unused, Held,
       SwitchInv, SwitchAt, SpareHeld, NoSwitch
  <1>8. WriterInv'
    BY DEF FlowInv, Switching, WriterInv, Binding, TypeOK, GateInv
  <1>9. ToldInv'
    BY DEF FlowInv, Switching, ToldInv, Binding, TypeOK, SwitchInv, SwitchAt,
       SpareHeld, NoSwitch, WriterInv
  <1>10. NodeInv'
    BY DEF FlowInv, Switching, NodeInv, TypeOK
  <1>11. NoPathLeak'
    BY DEF FlowInv, Switching, NoPathLeak, TypeOK, SwitchInv, SwitchAt,
       SpareHeld, NoSwitch
  <1>12. PathsInOrder'
    BY DEF FlowInv, Switching, PathsInOrder, TypeOK, SwitchInv, SwitchAt,
       SpareHeld, NoSwitch
  <1> QED BY <1>1, <1>2, <1>3, <1>4, <1>5, <1>6, <1>7, <1>8, <1>9, <1>10, <1>11, <1>12
     DEF FlowInv

(* What was replaced is closed: none of it is the flow's any more. *)
LEMMA FinishStep ==
    ASSUME NEW i \in Callers, FlowInv, Finish(i)
    PROVE  FlowInv'
  <1>0. Shapes
    BY ShapesType DEF FlowInv
  <1>1. TypeOK'
    <2>1. /\ pc' \in [Callers -> {"off", "read", "gate", "begin", "choose", "install",
                                "finish", "mark", "tell", "register", "abort",
                                "pick", "writing"}]
          /\ exp' \in [Callers -> MaybePath]
      BY ZenonT(120) DEF FlowInv, Finish, Retire, AfterChange, WhyAfter, TypeOK
    <2>2. \A j \in Callers : pc'[j] \notin Switching
      BY DEF FlowInv, Finish, Retire, AfterChange, WhyAfter, TypeOK, SwitchInv, SwitchAt, Switching
    <2>3. node' \in [Paths -> Nodes \cup {None}]
      BY DEF FlowInv, Finish, Retire, AfterChange, WhyAfter, TypeOK
    <2> QED BY <2>1, <2>2, <2>3 DEF FlowInv, Finish, Retire, AfterChange, WhyAfter, TypeOK, NoSwitch
  <1>2. SwitchInv'
    BY DEF FlowInv, Finish, Retire, AfterChange, WhyAfter, SwitchInv,
       SwitchAt, SpareHeld, NoSwitch, TypeOK, GateInv, Switching
  <1>3. WarmInv'
    BY DEF FlowInv, Finish, Retire, AfterChange, WhyAfter, WarmInv, NoWarm,
       TypeOK, Disjoint, Held, SwitchInv, SwitchAt, SpareHeld, NoSwitch,
       Switching
  <1>4. Disjoint'
    BY DEF FlowInv, Finish, Retire, AfterChange, WhyAfter, Disjoint, Held,
       TypeOK, GateInv, SwitchInv, SwitchAt, SpareHeld, NoSwitch, WarmInv,
       NoWarm
  <1>5. UnusedInv'
    BY DEF FlowInv, Finish, Retire, AfterChange, WhyAfter, UnusedInv, Unused,
       Held, TypeOK, SwitchInv, SwitchAt, SpareHeld, NoSwitch, Disjoint,
       GateInv, Switching
  <1>6. ToldInv'
    BY DEF FlowInv, Finish, Retire, AfterChange, WhyAfter, ToldInv, Binding,
       TypeOK, WriterInv, SwitchInv, SwitchAt, SpareHeld, NoSwitch, ReportInv,
       Switching
  <1>7. NoPathLeak'
    BY DEF FlowInv, Finish, Retire, AfterChange, WhyAfter, NoPathLeak, TypeOK,
       GateInv, SwitchInv, SwitchAt, SpareHeld, NoSwitch, WarmInv, NoWarm
  <1>8. PathsInOrder'
    BY DEF FlowInv, Finish, Retire, AfterChange, WhyAfter, PathsInOrder,
       TypeOK, GateInv, SwitchInv, SwitchAt, SpareHeld, NoSwitch, ReportInv,
       Disjoint, Held, UnusedInv, Unused
  <1>9. GateInv'
    BY <1>0 DEF FlowInv, Finish, Retire, AfterChange, WhyAfter, GateInv,
       Shapes
  <1>10. NodeInv'
    BY <1>0 DEF FlowInv, Finish, Retire, AfterChange, WhyAfter, NodeInv,
       Shapes
  <1>11. ReportInv' /\ WriterInv'
    BY <1>0 DEF FlowInv, Finish, Retire, AfterChange, WhyAfter, ReportInv,
       WriterInv, Binding, Shapes
  <1> QED BY <1>1, <1>2, <1>3, <1>4, <1>5, <1>6, <1>7, <1>8, <1>9, <1>10, <1>11 DEF
     FlowInv

(* The first locked section of change, whichever way it goes. *)
LEMMA BeginStep ==
    ASSUME NEW i \in Callers, FlowInv, Begin(i)
    PROVE  FlowInv'
  <1>1. CASE closed \/ done
    BY <1>1, BeginReturnsStep, ZenonT(120) DEF Begin
  <1>2. CASE ~closed /\ ~done /\ Moot(i)
    BY <1>2, BeginReturnsStep, ZenonT(120) DEF Begin
  <1>3. CASE ~closed /\ ~done /\ ~Moot(i)
    <2> DEFINE left == {n \in Nodes : /\ Name(i) \in {None, n}
                                      /\ active # None => node[active] # n}
    <2>1. /\ pc[i] = "begin" /\ pc' = [pc EXCEPT ![i] = "choose"]
          /\ sw' = [NoSwitch EXCEPT !.old = active, !.spare = reserve, !.left = left]
          /\ UNCHANGED <<gate, exp, want, why>>
          /\ UNCHANGED <<pathVars, flowVars, done, warm, readerVars>>
      BY <1>3, ZenonT(120) DEF Begin
    <2>2. left \in SUBSET Nodes
      OBVIOUS
    <2> HIDE DEF left
    <2>3. /\ sw' \in [old: MaybePath, spare: MaybePath, next: MaybePath,
                      left: SUBSET Nodes, shed: SUBSET Paths]
          /\ sw'.old = active /\ sw'.spare = reserve /\ sw'.next = None /\ sw'.shed = {}
      BY <2>1, <2>2, ZenonT(120) DEF NoSwitch, FlowInv, TypeOK
    <2>4. exp[i] # None => active = exp[i]
      BY <1>3 DEF Moot
    <2> QED BY <2>1, <2>3, <2>4, BeginChoosesStep, ZenonT(120)
  <1> QED BY <1>1, <1>2, <1>3

(* The second locked section: on a closed flow change gives up. *)
LEMMA InstallStep ==
    ASSUME NEW i \in Callers, FlowInv, Install(i)
    PROVE  FlowInv'
  <1>1. CASE closed
    <2>1. GiveUp(i)
      BY <1>1, ZenonT(120) DEF Install, GiveUp
    <2> QED BY <2>1, GiveUpStep
  <1>2. CASE ~closed
    <2>1. /\ pc[i] = "install" /\ pc' = [pc EXCEPT ![i] = "finish"]
          /\ active' = sw.next /\ reserve' = None
          /\ sw' = [NoSwitch EXCEPT !.next = sw.next, !.shed = {sw.old, reserve} \ {None, sw.next}]
          /\ UNCHANGED <<pathVars, closed, known, gate, exp, want, why, done, warm, readerVars>>
      BY <1>2, ZenonT(120) DEF Install
    <2>2. /\ sw'.old = None /\ sw'.spare = None /\ sw'.next = sw.next
          /\ sw'.shed = {sw.old, reserve} \ {None, sw.next}
      BY <2>1 DEF NoSwitch
    <2>3. {sw.old, reserve} \ {None, sw.next} \in SUBSET Paths /\ sw.next \in MaybePath
      BY DEF FlowInv, TypeOK
    <2>4. sw' \in [old: MaybePath, spare: MaybePath, next: MaybePath,
                   left: SUBSET Nodes, shed: SUBSET Paths]
      BY <2>1, <2>3, ZenonT(120) DEF NoSwitch
    <2> QED BY <1>2, <2>1, <2>2, <2>4, InstallsStep, ZenonT(120)
  <1> QED BY <1>1, <1>2

(* Every step of change. *)
LEMMA ChangeStep ==
    ASSUME NEW i \in Callers, FlowInv, Change(i)
    PROVE  FlowInv'
  BY EnterGateStep, GateTimeoutStep, BeginStep, ChooseFailsStep, ChooseSpareStep,
     ChooseDialStep, GiveUpStep, InstallStep, FinishStep DEF Change

-----------------------------------------------------------------------------
(* warm. *)

(* warm notes what it will check later. *)
LEMMA WarmStartStep ==
    ASSUME FlowInv, WarmStart
    PROVE  FlowInv'
  <1>0. Shapes
    BY ShapesType DEF FlowInv
  <1>1. TypeOK'
    <2>1. node[active] \in Nodes \cup {None}
      BY DEF FlowInv, WarmStart, TypeOK
    <2>2. warm' = [NoWarm EXCEPT !.pc = "dial", !.active = active, !.old = reserve,
                                 !.avoid = node[active]]
      BY DEF WarmStart
    <2>3. UNCHANGED <<pathVars, flowVars, done, gate, sw, callVars, readerVars>>
      BY DEF WarmStart
    <2>4. warm' \in [pc: {"off", "dial", "gate", "swap", "shut"},
                       active: MaybePath, old: MaybePath, avoid: Nodes \cup {None},
                       got: MaybePath, shed: SUBSET Paths]
      BY <2>1, <2>2, ZenonT(120) DEF FlowInv, TypeOK, NoWarm
    <2> QED BY <2>3, <2>4 DEF FlowInv, TypeOK
  <1>2. Disjoint'
    BY DEF FlowInv, WarmStart, Disjoint, Held, TypeOK, GateInv, SwitchInv,
       SwitchAt, SpareHeld, NoSwitch, WarmInv, NoWarm
  <1>3. UnusedInv'
    BY DEF FlowInv, WarmStart, UnusedInv, Unused, Held, TypeOK, GateInv,
       SwitchInv, SwitchAt, SpareHeld, NoSwitch, WarmInv, NoWarm, Disjoint
  <1>4. NoPathLeak'
    BY DEF FlowInv, WarmStart, NoPathLeak, TypeOK, GateInv, SwitchInv,
       SwitchAt, SpareHeld, NoSwitch, WarmInv, NoWarm
  <1>5. GateInv' /\ WarmInv'
    BY <1>0 DEF FlowInv, WarmStart, GateInv, WarmInv, NoWarm, Shapes
  <1>6. SwitchInv'
    BY <1>0 DEF FlowInv, WarmStart, SwitchInv, SwitchAt, SpareHeld, NoSwitch,
       Shapes
  <1>7. NodeInv'
    BY <1>0 DEF FlowInv, WarmStart, NodeInv, Shapes
  <1>8. ReportInv' /\ WriterInv' /\ ToldInv'
    BY <1>0 DEF FlowInv, WarmStart, ReportInv, WriterInv, Binding, ToldInv,
       Shapes
  <1>9. PathsInOrder'
    BY <1>0 DEF FlowInv, WarmStart, PathsInOrder, Shapes
  <1> QED BY <1>1, <1>2, <1>3, <1>4, <1>5, <1>6, <1>7, <1>8, <1>9 DEF FlowInv

(* warm ends without a path. *)
LEMMA WarmGiveUpStep ==
    ASSUME FlowInv, WarmGiveUp
    PROVE  FlowInv'
  <1>0. Shapes
    BY ShapesType DEF FlowInv
  <1>1. TypeOK'
    BY DEF FlowInv, WarmGiveUp, TypeOK, Switching, NoSwitch, NoWarm
  <1>2. Disjoint'
    BY DEF FlowInv, WarmGiveUp, Disjoint, Held, TypeOK, GateInv, SwitchInv,
       SwitchAt, SpareHeld, NoSwitch, WarmInv, NoWarm
  <1>3. UnusedInv'
    BY DEF FlowInv, WarmGiveUp, UnusedInv, Unused, Held, TypeOK, GateInv,
       SwitchInv, SwitchAt, SpareHeld, NoSwitch, WarmInv, NoWarm, Disjoint
  <1>4. NoPathLeak'
    BY DEF FlowInv, WarmGiveUp, NoPathLeak, TypeOK, GateInv, SwitchInv,
       SwitchAt, SpareHeld, NoSwitch, WarmInv, NoWarm
  <1>5. GateInv' /\ WarmInv'
    BY <1>0 DEF FlowInv, WarmGiveUp, GateInv, WarmInv, NoWarm, Shapes
  <1>6. SwitchInv'
    BY <1>0 DEF FlowInv, WarmGiveUp, SwitchInv, SwitchAt, SpareHeld, NoSwitch,
       Shapes
  <1>7. NodeInv'
    BY <1>0 DEF FlowInv, WarmGiveUp, NodeInv, Shapes
  <1>8. ReportInv' /\ WriterInv' /\ ToldInv'
    BY <1>0 DEF FlowInv, WarmGiveUp, ReportInv, WriterInv, Binding, ToldInv,
       Shapes
  <1>9. PathsInOrder'
    BY <1>0 DEF FlowInv, WarmGiveUp, PathsInOrder, Shapes
  <1> QED BY <1>1, <1>2, <1>3, <1>4, <1>5, <1>6, <1>7, <1>8, <1>9 DEF FlowInv

(* warm dials a path that nobody else knows, on a node it need not avoid. *)
LEMMA WarmDialStep ==
    ASSUME NEW n \in Nodes, NEW q \in Paths, FlowInv, WarmDial(n, q)
    PROVE  FlowInv'
  <1>0. Shapes
    BY ShapesType DEF FlowInv
  <1>1. TypeOK'
    <2>1. warm' \in [pc: {"off", "dial", "gate", "swap", "shut"},
                       active: MaybePath, old: MaybePath, avoid: Nodes \cup {None},
                       got: MaybePath, shed: SUBSET Paths]
      BY ZenonT(120) DEF FlowInv, WarmDial, Dialled, Fresh, Reachable, TypeOK
    <2>2. node' \in [Paths -> Nodes \cup {None}] /\ open' \subseteq Paths
      BY DEF FlowInv, WarmDial, Dialled, Fresh, Reachable, TypeOK
    <2> QED BY <2>1, <2>2 DEF FlowInv, WarmDial, Dialled, Fresh, Reachable, TypeOK
  <1>2. NoPathLeak'
    BY DEF FlowInv, WarmDial, Dialled, Fresh, Reachable, NoPathLeak, TypeOK,
       GateInv, SwitchInv, SwitchAt, SpareHeld, NoSwitch, WarmInv, NoWarm
  <1>3. GateInv' /\ WarmInv'
    BY <1>0 DEF FlowInv, WarmDial, Dialled, Fresh, Reachable, GateInv,
       WarmInv, NoWarm, Shapes
  <1>4. SwitchInv'
    BY <1>0 DEF FlowInv, WarmDial, Dialled, Fresh, Reachable, SwitchInv,
       SwitchAt, SpareHeld, NoSwitch, Shapes
  <1>5. Disjoint' /\ NodeInv'
    BY <1>0 DEF FlowInv, WarmDial, Dialled, Fresh, Reachable, Disjoint, Held,
       NodeInv, Shapes
  <1>6. UnusedInv'
    BY <1>0 DEF FlowInv, WarmDial, Dialled, Fresh, Reachable, UnusedInv,
       Unused, Held, Shapes
  <1>7. ReportInv' /\ WriterInv' /\ ToldInv'
    BY <1>0 DEF FlowInv, WarmDial, Dialled, Fresh, Reachable, ReportInv,
       WriterInv, Binding, ToldInv, Shapes
  <1>8. PathsInOrder'
    BY <1>0 DEF FlowInv, WarmDial, Dialled, Fresh, Reachable, PathsInOrder,
       Shapes
  <1> QED BY <1>1, <1>2, <1>3, <1>4, <1>5, <1>6, <1>7, <1>8 DEF FlowInv

(* warm will close the path it has dialled. *)
LEMMA WarmDropsStep ==
    ASSUME FlowInv, warm.pc \in {"gate", "swap"},
           warm' \in [pc: {"off", "dial", "gate", "swap", "shut"},
                       active: MaybePath, old: MaybePath, avoid: Nodes \cup {None},
                       got: MaybePath, shed: SUBSET Paths],
           warm'.pc = "shut", warm'.active = None, warm'.got = None, warm'.shed = {warm.got},
           UNCHANGED <<pathVars, flowVars, done, gate, sw, callVars, readerVars>>
    PROVE  FlowInv'
  <1>0. Shapes
    BY ShapesType, ZenonT(120) DEF FlowInv
  <1>1. TypeOK'
    BY DEF FlowInv, Switching, TypeOK, WarmInv, NoWarm
  <1>2. GateInv'
    BY ZenonT(120) DEF FlowInv, Switching, GateInv, TypeOK
  <1>3. WarmInv'
    BY ZenonT(120) DEF FlowInv, Switching, WarmInv, NoWarm, TypeOK
  <1>4. Disjoint'
    BY DEF FlowInv, Switching, Disjoint, Held, TypeOK, WarmInv, NoWarm
  <1>5. UnusedInv'
    BY DEF FlowInv, Switching, UnusedInv, Unused, Held, TypeOK, Disjoint,
       WarmInv, NoWarm
  <1>6. NoPathLeak'
    BY DEF FlowInv, Switching, NoPathLeak, TypeOK, WarmInv, NoWarm
  <1>7. SwitchInv'
    BY <1>0 DEF FlowInv, Switching, SwitchInv, SwitchAt, SpareHeld, NoSwitch,
       Shapes
  <1>8. NodeInv'
    BY <1>0 DEF FlowInv, Switching, NodeInv, Shapes
  <1>9. ReportInv' /\ WriterInv' /\ ToldInv'
    BY <1>0 DEF FlowInv, Switching, ReportInv, WriterInv, Binding, ToldInv,
       Shapes
  <1>10. PathsInOrder'
    BY <1>0 DEF FlowInv, Switching, PathsInOrder, Shapes
  <1> QED BY <1>1, <1>2, <1>3, <1>4, <1>5, <1>6, <1>7, <1>8, <1>9, <1>10 DEF FlowInv

(* warm takes the gate. *)
LEMMA WarmEntersStep ==
    ASSUME FlowInv, WarmGate, gate = None
    PROVE  FlowInv'
  <1>0. Shapes
    BY ShapesType DEF FlowInv
  <1>1. TypeOK'
    BY DEF FlowInv, WarmGate, TypeOK
  <1>2. GateInv'
    BY DEF FlowInv, WarmGate, GateInv, TypeOK, Switching
  <1>3. WarmInv'
    BY DEF FlowInv, WarmGate, WarmInv, NoWarm, TypeOK
  <1>4. Disjoint'
    BY DEF FlowInv, WarmGate, Disjoint, Held, TypeOK
  <1>5. UnusedInv'
    BY DEF FlowInv, WarmGate, UnusedInv, Unused, Held, TypeOK
  <1>6. NoPathLeak'
    BY DEF FlowInv, WarmGate, NoPathLeak, TypeOK
  <1>7. SwitchInv'
    BY <1>0 DEF FlowInv, WarmGate, SwitchInv, SwitchAt, SpareHeld, NoSwitch,
       Shapes
  <1>8. NodeInv'
    BY <1>0 DEF FlowInv, WarmGate, NodeInv, Shapes
  <1>9. ReportInv' /\ WriterInv' /\ ToldInv'
    BY <1>0 DEF FlowInv, WarmGate, ReportInv, WriterInv, Binding, ToldInv,
       Shapes
  <1>10. PathsInOrder'
    BY <1>0 DEF FlowInv, WarmGate, PathsInOrder, Shapes
  <1> QED BY <1>1, <1>2, <1>3, <1>4, <1>5, <1>6, <1>7, <1>8, <1>9, <1>10 DEF FlowInv

(* The new standby takes the place of the old one. *)
LEMMA WarmKeepsStep ==
    ASSUME FlowInv, warm.pc = "swap", active = warm.active, ~closed, reserve = warm.old,
           warm' \in [pc: {"off", "dial", "gate", "swap", "shut"},
                       active: MaybePath, old: MaybePath, avoid: Nodes \cup {None},
                       got: MaybePath, shed: SUBSET Paths],
           warm'.pc = "shut", warm'.active = None, warm'.got = None, warm'.shed = {warm.old} \ {None},
           reserve' = warm.got,
           UNCHANGED <<pathVars, active, closed, known, done, gate, sw, callVars, readerVars>>
    PROVE  FlowInv'
  <1>0. Shapes
    BY ShapesType DEF FlowInv
  <1>1. TypeOK'
    BY DEF FlowInv, Switching, TypeOK, WarmInv, NoWarm
  <1>2. GateInv'
    BY ZenonT(120) DEF FlowInv, Switching, GateInv, TypeOK
  <1>3. SwitchInv'
    BY DEF FlowInv, Switching, SwitchInv, SwitchAt, SpareHeld, NoSwitch,
       TypeOK, GateInv, Disjoint, Held, WarmInv, NoWarm
  <1>4. WarmInv'
    BY DEF FlowInv, Switching, WarmInv, NoWarm, TypeOK, Disjoint, Held,
       GateInv
  <1>5. Disjoint'
    BY DEF FlowInv, Switching, Disjoint, Held, TypeOK, WarmInv, NoWarm,
       GateInv, UnusedInv, Unused, NoSwitch
  <1>6. UnusedInv'
    BY DEF FlowInv, Switching, UnusedInv, Unused, Held, TypeOK, WarmInv,
       NoWarm, GateInv, Disjoint, NoSwitch
  <1>7. NoPathLeak'
    BY DEF FlowInv, Switching, NoPathLeak, TypeOK, WarmInv, NoWarm
  <1>8. PathsInOrder'
    BY DEF FlowInv, Switching, PathsInOrder, TypeOK, WarmInv, NoWarm,
       Disjoint, Held
  <1>9. NodeInv'
    BY <1>0 DEF FlowInv, Switching, NodeInv, Shapes
  <1>10. ReportInv' /\ WriterInv' /\ ToldInv'
    BY <1>0 DEF FlowInv, Switching, ReportInv, WriterInv, Binding, ToldInv,
       Shapes
  <1> QED BY <1>1, <1>2, <1>3, <1>4, <1>5, <1>6, <1>7, <1>8, <1>9, <1>10 DEF FlowInv

(* The path that warm closes is nobody else's. *)
LEMMA WarmShutStep ==
    ASSUME FlowInv, WarmShut
    PROVE  FlowInv'
  <1>0. Shapes
    BY ShapesType DEF FlowInv
  <1>1. /\ warm' = NoWarm /\ warm'.pc = "off" /\ warm'.active = None
        /\ warm'.got = None /\ warm'.shed = {}
    BY DEF WarmShut, NoWarm
  <1>2. /\ gate = Warm => gate' = None
        /\ gate # Warm => gate' = gate
    BY DEF WarmShut
  <1>3. /\ open' = open \ warm.shed /\ broken' = broken \ warm.shed
        /\ \A p \in Paths : p \notin warm.shed => node'[p] = node[p]
        /\ node' \in [Paths -> Nodes \cup {None}]
    BY <1>0 DEF WarmShut, Retire, Shapes
  <1>4. UNCHANGED <<active, reserve, closed, known, done, sw, pc, exp, want, why, told, rd>>
    BY DEF WarmShut
  <1>5. warm.shed \cap {active, reserve, sw.spare, sw.next} = {} /\ warm.got = None
    BY <1>0 DEF FlowInv, Disjoint, Held, WarmInv, WarmShut, Shapes
  <1>6. TypeOK'
    <2>1. NoWarm \in [pc: {"off", "dial", "gate", "swap", "shut"},
                       active: MaybePath, old: MaybePath, avoid: Nodes \cup {None},
                       got: MaybePath, shed: SUBSET Paths]
      BY DEF NoWarm
    <2>2. \A j \in Callers : pc'[j] \in Switching => gate' = j
      BY <1>2, <1>4 DEF FlowInv, TypeOK
    <2> QED BY <1>1, <1>2, <1>3, <1>4, <2>1, <2>2 DEF FlowInv, TypeOK
  <1>7. GateInv'
    BY <1>2, <1>4, ZenonT(120) DEF FlowInv, GateInv
  <1>8. SwitchInv'
    BY <1>0, <1>3, <1>4, <1>5, ZenonT(120) DEF FlowInv, SwitchInv, SwitchAt, SpareHeld, Shapes
  <1>9. WarmInv' /\ Disjoint'
    BY <1>1, <1>4, ZenonT(120) DEF FlowInv, WarmInv, Disjoint, Held
  <1>10. UnusedInv'
    <2>1. Unused' \subseteq Unused \ {None}
      BY <1>1, <1>4 DEF Unused, Held
    <2> QED BY <1>1, <1>4, <2>1, ZenonT(120) DEF FlowInv, UnusedInv
  <1>11. ReportInv' /\ WriterInv' /\ ToldInv'
    BY <1>4 DEF FlowInv, ReportInv, WriterInv, ToldInv, Binding
  <1>12. NodeInv'
    BY <1>0, <1>3 DEF FlowInv, NodeInv, Shapes
  <1>13. NoPathLeak'
    BY <1>1, <1>3, <1>4, <1>5 DEF FlowInv, NoPathLeak
  <1>14. PathsInOrder'
    BY <1>0, <1>3, <1>4, <1>5 DEF FlowInv, PathsInOrder, Shapes
  <1> QED BY <1>6, <1>7, <1>8, <1>9, <1>10, <1>11, <1>12, <1>13, <1>14, ZenonT(120) DEF FlowInv

(* What warm remembers when it has a path to close, for any such path. *)
LEMMA ShutType ==
    ASSUME NEW S \in SUBSET Paths,
           warm' = [NoWarm EXCEPT !.pc = "shut", !.shed = S]
    PROVE  /\ warm' \in [pc: {"off", "dial", "gate", "swap", "shut"},
                         active: MaybePath, old: MaybePath, avoid: Nodes \cup {None},
                         got: MaybePath, shed: SUBSET Paths]
           /\ warm'.pc = "shut" /\ warm'.active = None /\ warm'.got = None
           /\ warm'.shed = S
  BY ZenonT(120) DEF NoWarm

(* warm gets the gate, or drops what it dialled. *)
LEMMA WarmGateStep ==
    ASSUME FlowInv, WarmGate
    PROVE  FlowInv'
  <1>1. CASE gate = None
    BY <1>1, WarmEntersStep
  <1>2. CASE gate # None
    <2>1. /\ warm.pc = "gate"
          /\ warm' = [NoWarm EXCEPT !.pc = "shut", !.shed = {warm.got}]
          /\ UNCHANGED <<pathVars, flowVars, done, gate, sw, callVars, readerVars>>
      BY <1>2 DEF WarmGate
    <2>2. {warm.got} \in SUBSET Paths
      BY <2>1 DEF FlowInv, TypeOK, WarmInv
    <2> QED BY <2>1, <2>2, ShutType, WarmDropsStep, ZenonT(120)
  <1> QED BY <1>1, <1>2

(* warm keeps what it dialled, or drops it. *)
LEMMA WarmSwapStep ==
    ASSUME FlowInv, WarmSwap
    PROVE  FlowInv'
  <1>1. CASE active = warm.active /\ ~closed /\ reserve = warm.old
    <2>1. /\ warm.pc = "swap" /\ reserve' = warm.got
          /\ warm' = [NoWarm EXCEPT !.pc = "shut", !.shed = {warm.old} \ {None}]
          /\ UNCHANGED <<pathVars, active, closed, known, done, gate, sw, callVars, readerVars>>
      BY <1>1 DEF WarmSwap
    <2>2. {warm.old} \ {None} \in SUBSET Paths
      BY DEF FlowInv, TypeOK
    <2> QED BY <1>1, <2>1, <2>2, ShutType, WarmKeepsStep, ZenonT(120)
  <1>2. CASE ~(active = warm.active /\ ~closed /\ reserve = warm.old)
    <2>1. /\ warm.pc = "swap"
          /\ warm' = [NoWarm EXCEPT !.pc = "shut", !.shed = {warm.got}]
          /\ UNCHANGED <<pathVars, flowVars, done, gate, sw, callVars, readerVars>>
      BY <1>2 DEF WarmSwap
    <2>2. {warm.got} \in SUBSET Paths
      BY <2>1 DEF FlowInv, TypeOK, WarmInv
    <2> QED BY <2>1, <2>2, ShutType, WarmDropsStep, ZenonT(120)
  <1> QED BY <1>1, <1>2

(* Every step of warm but its start. *)
LEMMA WarmStep ==
    ASSUME FlowInv, WarmNext
    PROVE  FlowInv'
  BY WarmGiveUpStep, WarmGateStep, WarmSwapStep, WarmShutStep, WarmDialStep DEF WarmNext
=============================================================================
