-------------------------- MODULE AntiLagFlowProofs --------------------------
(***************************************************************************)
(* The paths of an AntiLag flow never leak and stay in order, and a reader *)
(* of a flow without a path has been told: for any nodes, any number of    *)
(* path objects and every mix of callers.  AntiLagSwitchProofs states the  *)
(* inductive invariant and has the steps of change and warm.               *)
(***************************************************************************)
EXTENDS AntiLagSwitchProofs

\* A leaf that names no prover is for SMT. The limit is generous: most leaves
\* take well under a second of it.
USE SMTT(120)

USE FlowAssumption, CallerAssumption
    DEF Callers, Writer, Control, Warm, MaybePath, pathVars, flowVars, callVars, readerVars

(* A goroutine that is not in a switch, and has nothing to tell, may move on *)
(* and take note of the active path without anybody else being concerned.    *)
LEMMA QuietMove ==
    ASSUME NEW i \in Callers, NEW e \in {None, active, exp[i]}, NEW pl \in Places, FlowInv,
           pc[i] \notin Switching \cup {"tell"}, pl \notin Switching \cup {"tell"},
           i \in Paths => pc[i] # "off",
           pc' = [pc EXCEPT ![i] = pl], exp' = [exp EXCEPT ![i] = e],
           UNCHANGED <<pathVars, active, reserve, closed, gate, sw, warm>>
    PROVE  /\ \A j \in Callers : pc'[j] \in Switching => gate' = j
           /\ pc' \in [Callers -> Places] /\ exp' \in [Callers -> MaybePath]
           /\ GateInv' /\ SwitchInv' /\ WarmInv' /\ Disjoint' /\ UnusedInv'
           /\ NodeInv' /\ NoPathLeak'
  <1>0. Shapes
    BY ShapesType DEF FlowInv
  <1>1. /\ pc' \in [Callers -> Places] /\ exp' \in [Callers -> MaybePath]
        /\ \A j \in Callers : pc'[j] \in Switching => pc[j] = pc'[j]
        /\ \A j \in Callers : pc[j] \in Switching \cup {"tell"} => pc'[j] = pc[j] /\ exp'[j] = exp[j]
        /\ \A p \in Paths : pc[p] = "off" => pc'[p] = "off"
    BY <1>0 DEF Shapes
  <1>2. \A j \in Callers : pc'[j] \in Switching => gate' = j
    BY <1>1 DEF FlowInv, TypeOK
  <1>3. GateInv'
    BY <1>1 DEF FlowInv, GateInv
  <1>4. SwitchInv'
    BY <1>0, <1>1 DEF FlowInv, SwitchInv, SwitchAt, SpareHeld, Shapes, Switching
  <1>5. WarmInv' /\ Disjoint' /\ NodeInv'
    BY DEF FlowInv, WarmInv, Disjoint, Held, NodeInv
  <1>6. UnusedInv'
    BY <1>0, <1>1 DEF FlowInv, UnusedInv, Unused, Held, Shapes, Switching
  <1>7. NoPathLeak'
    BY <1>1 DEF FlowInv, NoPathLeak
  <1> QED BY <1>1, <1>2, <1>3, <1>4, <1>5, <1>6, <1>7

(* The other steps that leave the paths and the goroutines alone. *)
LEMMA Frame ==
    ASSUME FlowInv, UNCHANGED <<node, open, active, reserve, closed, gate, sw, warm, pc, exp>>
    PROVE  /\ GateInv' /\ SwitchInv' /\ WarmInv' /\ Disjoint' /\ UnusedInv'
           /\ NodeInv' /\ NoPathLeak'
  <1>1. GateInv' /\ WarmInv' /\ NodeInv' /\ NoPathLeak'
    BY DEF FlowInv, GateInv, WarmInv, NodeInv, NoPathLeak
  <1>2. SwitchInv'
    BY DEF FlowInv, SwitchInv, SwitchAt, SpareHeld
  <1>3. Disjoint' /\ UnusedInv'
    BY DEF FlowInv, Disjoint, UnusedInv, Unused, Held
  <1> QED BY <1>1, <1>2, <1>3

(* receive sees its path dead or closed. *)
LEMMA ReadErrorStep ==
    ASSUME NEW q \in Paths, FlowInv, ReadError(q)
    PROVE  FlowInv'
  <1>0. Shapes
    BY ShapesType DEF FlowInv
  <1>1. /\ \A j \in Callers : pc'[j] \in Switching => gate' = j
        /\ pc' \in [Callers -> Places] /\ exp' \in [Callers -> MaybePath]
        /\ GateInv' /\ SwitchInv' /\ WarmInv' /\ Disjoint' /\ UnusedInv'
        /\ NodeInv' /\ NoPathLeak'
    <2>1. CASE ~closed /\ active = exp[q] /\ ~done
      <3>1. pc' = [pc EXCEPT ![q] = "gate"] /\ exp' = [exp EXCEPT ![q] = exp[q]]
        BY <1>0, <2>1 DEF ReadError, Fail, FailReturns, Shapes
      <3> QED BY <2>1, <3>1, QuietMove, ZenonT(120) DEF ReadError, Fail, FailReturns, Places, Switching
    <2>2. CASE ~(~closed /\ active = exp[q] /\ ~done)
      <3>1. pc' = [pc EXCEPT ![q] = "off"] /\ exp' = [exp EXCEPT ![q] = None]
        BY <1>0, <2>2 DEF ReadError, Fail, FailReturns, Shapes
      <3> QED BY <2>2, <3>1, QuietMove, ZenonT(120) DEF ReadError, Fail, FailReturns, Places, Switching
    <2> QED BY <2>1, <2>2
  <1>2. TypeOK'
    BY <1>1 DEF FlowInv, ReadError, Fail, FailReturns, TypeOK, Places
  <1>3. ReportInv'
    BY <1>0 DEF FlowInv, ReadError, Fail, FailReturns, ReportInv, Shapes
  <1>4. WriterInv'
    BY <1>0 DEF FlowInv, ReadError, Fail, FailReturns, WriterInv, Binding, Shapes, Switching
  <1>5. ToldInv'
    BY <1>0 DEF FlowInv, ReadError, Fail, FailReturns, WriterInv, ToldInv, Binding, Shapes, Switching
  <1>6. PathsInOrder'
    BY <1>0 DEF FlowInv, ReadError, Fail, FailReturns, PathsInOrder, Shapes, ReportInv
  <1> QED BY <1>1, <1>2, <1>3, <1>4, <1>5, <1>6 DEF FlowInv

(* receive ends: its path is closed, so that it is not the active one. *)
LEMMA ReadQuitStep ==
    ASSUME NEW q \in Paths, FlowInv, ReadQuit(q)
    PROVE  FlowInv'
  <1>0. Shapes
    BY ShapesType DEF FlowInv
  <1>1. /\ \A j \in Callers : pc'[j] \in Switching => gate' = j
        /\ pc' \in [Callers -> Places] /\ exp' \in [Callers -> MaybePath]
        /\ GateInv' /\ SwitchInv' /\ WarmInv' /\ Disjoint' /\ UnusedInv'
        /\ NodeInv' /\ NoPathLeak'
    <2>1. pc' = [pc EXCEPT ![q] = "off"] /\ exp' = [exp EXCEPT ![q] = None]
      BY <1>0 DEF ReadQuit, Shapes
    <2> QED BY <2>1, QuietMove, ZenonT(120) DEF ReadQuit, Places, Switching
  <1>2. TypeOK'
    BY <1>1 DEF FlowInv, ReadQuit, TypeOK, Places
  <1>3. ReportInv'
    BY <1>0 DEF FlowInv, ReadQuit, ReportInv, Shapes
  <1>4. WriterInv'
    BY <1>0 DEF FlowInv, ReadQuit, WriterInv, Binding, Shapes, Switching
  <1>5. ToldInv'
    BY <1>0 DEF FlowInv, ReadQuit, WriterInv, ToldInv, Binding, Shapes, Switching
  <1>6. PathsInOrder'
    BY <1>0 DEF FlowInv, ReadQuit, PathsInOrder, Shapes
  <1> QED BY <1>1, <1>2, <1>3, <1>4, <1>5, <1>6 DEF FlowInv

(* The writer sees the path dead or closed. *)
LEMMA WriteErrorStep ==
    ASSUME FlowInv, WriteError
    PROVE  FlowInv'
  <1>0. Shapes
    BY ShapesType DEF FlowInv
  <1>1. /\ \A j \in Callers : pc'[j] \in Switching => gate' = j
        /\ pc' \in [Callers -> Places] /\ exp' \in [Callers -> MaybePath]
        /\ GateInv' /\ SwitchInv' /\ WarmInv' /\ Disjoint' /\ UnusedInv'
        /\ NodeInv' /\ NoPathLeak'
    <2>1. CASE ~closed /\ active = exp[Writer] /\ ~done
      <3>1. pc' = [pc EXCEPT ![Writer] = "gate"] /\ exp' = [exp EXCEPT ![Writer] = exp[Writer]]
        BY <1>0, <2>1 DEF WriteError, Fail, FailReturns, Shapes
      <3> QED BY <2>1, <3>1, QuietMove, ZenonT(120) DEF WriteError, Fail, FailReturns, Places, Switching
    <2>2. CASE ~(~closed /\ active = exp[Writer] /\ ~done)
      <3>1. pc' = [pc EXCEPT ![Writer] = "off"] /\ exp' = [exp EXCEPT ![Writer] = None]
        BY <1>0, <2>2 DEF WriteError, Fail, FailReturns, Shapes
      <3> QED BY <2>2, <3>1, QuietMove, ZenonT(120) DEF WriteError, Fail, FailReturns, Places, Switching
    <2> QED BY <2>1, <2>2
  <1>2. TypeOK'
    BY <1>1 DEF FlowInv, WriteError, Fail, FailReturns, TypeOK, Places
  <1>3. ReportInv'
    BY <1>0 DEF FlowInv, WriteError, Fail, FailReturns, ReportInv, Shapes
  <1>4. WriterInv'
    BY <1>0 DEF FlowInv, WriteError, Fail, FailReturns, WriterInv, Binding, Shapes, Switching
  <1>5. ToldInv'
    BY <1>0 DEF FlowInv, WriteError, Fail, FailReturns, WriterInv, ToldInv, Binding, Shapes, Switching
  <1>6. PathsInOrder'
    BY <1>0 DEF FlowInv, WriteError, Fail, FailReturns, PathsInOrder, Shapes
  <1> QED BY <1>1, <1>2, <1>3, <1>4, <1>5, <1>6 DEF FlowInv

(* binding publishes the flow, unless the socket is closed. *)
LEMMA RegisterStep ==
    ASSUME FlowInv, Register
    PROVE  FlowInv'
  <1>0. Shapes
    BY ShapesType DEF FlowInv
  <1>1. /\ \A j \in Callers : pc'[j] \in Switching => gate' = j
        /\ pc' \in [Callers -> Places] /\ exp' \in [Callers -> MaybePath]
        /\ GateInv' /\ SwitchInv' /\ WarmInv' /\ Disjoint' /\ UnusedInv'
        /\ NodeInv' /\ NoPathLeak'
    <2>1. CASE done
      <3>1. pc' = [pc EXCEPT ![Writer] = "abort"] /\ exp' = [exp EXCEPT ![Writer] = exp[Writer]]
        BY <1>0, <2>1 DEF Register, Shapes
      <3> QED BY <2>1, <3>1, QuietMove, ZenonT(120) DEF Register, Places, Switching
    <2>2. CASE ~done
      <3>1. pc' = [pc EXCEPT ![Writer] = "off"] /\ exp' = [exp EXCEPT ![Writer] = exp[Writer]]
        BY <1>0, <2>2 DEF Register, Shapes
      <3> QED BY <2>2, <3>1, QuietMove, ZenonT(120) DEF Register, Places, Switching
    <2> QED BY <2>1, <2>2
  <1>2. TypeOK'
    <2>1. known' \in BOOLEAN
      BY ZenonT(120) DEF FlowInv, Register, TypeOK
    <2> QED BY <1>1, <2>1 DEF FlowInv, Register, TypeOK, Places
  <1>3. ReportInv'
    BY <1>0 DEF FlowInv, Register, ReportInv, Shapes
  <1>4. WriterInv'
    BY <1>0 DEF FlowInv, Register, WriterInv, Binding, Shapes, Switching
  <1>5. ToldInv'
    BY <1>0 DEF FlowInv, Register, WriterInv, ToldInv, Binding, Shapes, Switching
  <1>6. PathsInOrder'
    BY <1>0 DEF FlowInv, Register, PathsInOrder, Shapes
  <1> QED BY <1>1, <1>2, <1>3, <1>4, <1>5, <1>6 DEF FlowInv

(* WriteTo on a published flow. *)
LEMMA WriteStartStep ==
    ASSUME FlowInv, WriteStart
    PROVE  FlowInv'
  <1>0. Shapes
    BY ShapesType DEF FlowInv
  <1>1. /\ \A j \in Callers : pc'[j] \in Switching => gate' = j
        /\ pc' \in [Callers -> Places] /\ exp' \in [Callers -> MaybePath]
        /\ GateInv' /\ SwitchInv' /\ WarmInv' /\ Disjoint' /\ UnusedInv'
        /\ NodeInv' /\ NoPathLeak'
    <2>1. CASE active = None
      <3>1. pc' = [pc EXCEPT ![Writer] = "gate"] /\ exp' = [exp EXCEPT ![Writer] = exp[Writer]]
        BY <1>0, <2>1 DEF WriteStart, Shapes
      <3> QED BY <2>1, <3>1, QuietMove, ZenonT(120) DEF WriteStart, Places, Switching
    <2>2. CASE active # None
      <3>1. pc' = [pc EXCEPT ![Writer] = "pick"] /\ exp' = [exp EXCEPT ![Writer] = exp[Writer]]
        BY <1>0, <2>2 DEF WriteStart, Shapes
      <3> QED BY <2>2, <3>1, QuietMove, ZenonT(120) DEF WriteStart, Places, Switching
    <2> QED BY <2>1, <2>2
  <1>2. TypeOK'
    BY <1>1 DEF FlowInv, WriteStart, TypeOK, Places
  <1>3. ReportInv'
    BY <1>0 DEF FlowInv, WriteStart, ReportInv, Shapes
  <1>4. WriterInv'
    BY <1>0 DEF FlowInv, WriteStart, WriterInv, Binding, Shapes, Switching
  <1>5. ToldInv'
    BY <1>0 DEF FlowInv, WriteStart, WriterInv, ToldInv, Binding, Shapes, Switching
  <1>6. PathsInOrder'
    BY <1>0 DEF FlowInv, WriteStart, PathsInOrder, Shapes
  <1> QED BY <1>1, <1>2, <1>3, <1>4, <1>5, <1>6 DEF FlowInv

(* WriteTo takes the active path. *)
LEMMA WritePickStep ==
    ASSUME FlowInv, WritePick
    PROVE  FlowInv'
  <1>0. Shapes
    BY ShapesType DEF FlowInv
  <1>1. /\ \A j \in Callers : pc'[j] \in Switching => gate' = j
        /\ pc' \in [Callers -> Places] /\ exp' \in [Callers -> MaybePath]
        /\ GateInv' /\ SwitchInv' /\ WarmInv' /\ Disjoint' /\ UnusedInv'
        /\ NodeInv' /\ NoPathLeak'
    <2>1. CASE closed \/ active = None
      <3>1. pc' = [pc EXCEPT ![Writer] = "off"] /\ exp' = [exp EXCEPT ![Writer] = exp[Writer]]
        BY <1>0, <2>1 DEF WritePick, Shapes
      <3> QED BY <2>1, <3>1, QuietMove, ZenonT(120) DEF WritePick, Places, Switching
    <2>2. CASE ~(closed \/ active = None)
      <3>1. pc' = [pc EXCEPT ![Writer] = "writing"] /\ exp' = [exp EXCEPT ![Writer] = active]
        BY <1>0, <2>2 DEF WritePick, Shapes
      <3> QED BY <2>2, <3>1, QuietMove, ZenonT(120) DEF WritePick, Places, Switching
    <2> QED BY <2>1, <2>2
  <1>2. TypeOK'
    BY <1>1 DEF FlowInv, WritePick, TypeOK, Places
  <1>3. ReportInv'
    BY <1>0 DEF FlowInv, WritePick, ReportInv, Shapes
  <1>4. WriterInv'
    BY <1>0 DEF FlowInv, WritePick, WriterInv, Binding, Shapes, Switching
  <1>5. ToldInv'
    BY <1>0 DEF FlowInv, WritePick, WriterInv, ToldInv, Binding, Shapes, Switching
  <1>6. PathsInOrder'
    BY <1>0 DEF FlowInv, WritePick, PathsInOrder, Shapes
  <1> QED BY <1>1, <1>2, <1>3, <1>4, <1>5, <1>6 DEF FlowInv

(* A write is over. *)
LEMMA WriteEndsStep ==
    ASSUME FlowInv, WriteEnds
    PROVE  FlowInv'
  <1>0. Shapes
    BY ShapesType DEF FlowInv
  <1>1. /\ \A j \in Callers : pc'[j] \in Switching => gate' = j
        /\ pc' \in [Callers -> Places] /\ exp' \in [Callers -> MaybePath]
        /\ GateInv' /\ SwitchInv' /\ WarmInv' /\ Disjoint' /\ UnusedInv'
        /\ NodeInv' /\ NoPathLeak'
    <2>1. pc' = [pc EXCEPT ![Writer] = "off"] /\ exp' = [exp EXCEPT ![Writer] = None]
      BY <1>0 DEF WriteEnds, Shapes
    <2> QED BY <2>1, QuietMove, ZenonT(120) DEF WriteEnds, Places, Switching
  <1>2. TypeOK'
    BY <1>1 DEF FlowInv, WriteEnds, TypeOK, Places
  <1>3. ReportInv'
    BY <1>0 DEF FlowInv, WriteEnds, ReportInv, Shapes
  <1>4. WriterInv'
    BY <1>0 DEF FlowInv, WriteEnds, WriterInv, Binding, Shapes, Switching
  <1>5. ToldInv'
    BY <1>0 DEF FlowInv, WriteEnds, WriterInv, ToldInv, Binding, Shapes, Switching
  <1>6. PathsInOrder'
    BY <1>0 DEF FlowInv, WriteEnds, PathsInOrder, Shapes
  <1> QED BY <1>1, <1>2, <1>3, <1>4, <1>5, <1>6 DEF FlowInv

(* A switch is asked for. *)
LEMMA RequestStep ==
    ASSUME FlowInv, Request
    PROVE  FlowInv'
  <1>0. Shapes
    BY ShapesType DEF FlowInv
  <1>1. /\ \A j \in Callers : pc'[j] \in Switching => gate' = j
        /\ pc' \in [Callers -> Places] /\ exp' \in [Callers -> MaybePath]
        /\ GateInv' /\ SwitchInv' /\ WarmInv' /\ Disjoint' /\ UnusedInv'
        /\ NodeInv' /\ NoPathLeak'
    <2>1. PICK e \in {None, active} :
             pc' = [pc EXCEPT ![Control] = "gate"] /\ exp' = [exp EXCEPT ![Control] = e]
      BY ZenonT(120) DEF Request
    <2> QED BY <2>1, QuietMove, ZenonT(120) DEF Request, Places, Switching
  <1>2. TypeOK'
    BY <1>1 DEF FlowInv, Request, TypeOK, Places
  <1>3. ReportInv'
    BY <1>0 DEF FlowInv, Request, ReportInv, Shapes
  <1>4. WriterInv'
    BY <1>0 DEF FlowInv, Request, WriterInv, Binding, Shapes, Switching
  <1>5. ToldInv'
    BY <1>0 DEF FlowInv, Request, WriterInv, ToldInv, Binding, Shapes, Switching
  <1>6. PathsInOrder'
    BY <1>0 DEF FlowInv, Request, PathsInOrder, Shapes
  <1> QED BY <1>1, <1>2, <1>3, <1>4, <1>5, <1>6 DEF FlowInv

-----------------------------------------------------------------------------
(* fail. *)

(* The path that could not be replaced stops being the active one. *)
LEMMA MarkStep ==
    ASSUME NEW i \in Callers, FlowInv, Mark(i)
    PROVE  FlowInv'
  <1>0. Shapes
    BY ShapesType DEF FlowInv
  <1>1. TypeOK'
    BY DEF FlowInv, Mark, TypeOK, Switching, NoSwitch, NoWarm
  <1>2. GateInv'
    BY DEF FlowInv, Mark, GateInv, TypeOK, Switching, NoSwitch
  <1>3. Disjoint'
    BY DEF FlowInv, Mark, Disjoint, Held, TypeOK
  <1>4. WriterInv'
    BY DEF FlowInv, Mark, WriterInv, Binding, TypeOK, ReportInv, Switching
  <1>5. WarmInv'
    BY <1>0, ZenonT(120) DEF FlowInv, Mark, WarmInv, NoWarm, Shapes
  <1>6. SwitchInv'
    BY <1>0 DEF FlowInv, Mark, SwitchInv, SwitchAt, SpareHeld, NoSwitch,
       Shapes
  <1>7. NodeInv'
    BY <1>0 DEF FlowInv, Mark, NodeInv, Shapes
  <1>8. UnusedInv'
    BY <1>0 DEF FlowInv, Mark, UnusedInv, Unused, Held, Shapes
  <1>9. ReportInv' /\ ToldInv'
    BY <1>0 DEF FlowInv, Mark, ReportInv, ToldInv, Binding, Shapes
  <1>10. NoPathLeak'
    BY <1>0 DEF FlowInv, Mark, NoPathLeak, Shapes
  <1>11. PathsInOrder'
    BY <1>0, ZenonT(120) DEF FlowInv, Mark, PathsInOrder, Shapes
  <1> QED BY <1>1, <1>2, <1>3, <1>4, <1>5, <1>6, <1>7, <1>8, <1>9, <1>10, <1>11 DEF
     FlowInv

(* What has never been active is a path. *)
LEMMA UnusedArePaths == Shapes => Unused \subseteq Paths
  <1> SUFFICES ASSUME Shapes, NEW p \in Unused PROVE p \in Paths
    OBVIOUS
  <1>1. p # None
    BY DEF Unused
  <1>2. p \in Held \/ p \in {reserve, sw.spare, sw.next}
    BY ZenonT(120) DEF Unused
  <1>3. p \in Held => p \in {warm.got} \cup warm.shed
    BY DEF Held
  <1> QED
    BY <1>1, <1>2, <1>3 DEF Shapes

(* It is closed and its reader told: it is not the flow's any more. *)
LEMMA TellStep ==
    ASSUME NEW i \in Callers, FlowInv, Tell(i)
    PROVE  FlowInv'
  <1>0. Shapes
    BY ShapesType DEF FlowInv
  <1>1. /\ pc[i] = "tell" /\ pc' = [pc EXCEPT ![i] = "off"] /\ exp' = [exp EXCEPT ![i] = None]
        /\ pc' \in [Callers -> Places] /\ exp' \in [Callers -> MaybePath]
        /\ \A j \in Callers \ {i} : pc'[j] = pc[j] /\ exp'[j] = exp[j]
        /\ pc'[i] = "off" /\ exp'[i] = None
    BY <1>0 DEF Tell, FailReturns, Shapes, Places
  <1>2. /\ open' = open \ {exp[i]} /\ broken' = broken \ {exp[i]}
        /\ \A p \in Paths : p # exp[i] => node'[p] = node[p]
        /\ node' \in [Paths -> Nodes \cup {None}]
    BY <1>0 DEF Tell, Retire, Shapes
  <1>3. /\ UNCHANGED <<active, reserve, closed, known, done, gate, sw, warm, want, rd>>
        /\ told' = TRUE /\ told' \in BOOLEAN
        /\ why' = IF i = Writer THEN "reconnect" ELSE why
    BY DEF Tell, FailReturns
  <1>4. /\ exp[i] \in Paths
        /\ exp[i] \notin {active, reserve, sw.spare, warm.got} \cup warm.shed
        /\ \A j \in Callers : pc[j] = "install" => exp[i] # sw.next
    BY <1>0, <1>1 DEF FlowInv, ReportInv, UnusedInv, Unused, Held, Shapes
  <1>5. TypeOK'
    BY <1>1, <1>2, <1>3 DEF FlowInv, TypeOK, Places, Switching
  <1>6. GateInv'
    BY <1>1, <1>3, ZenonT(120) DEF FlowInv, GateInv, Switching
  <1>7. SwitchInv'
    BY <1>0, <1>1, <1>2, <1>3, <1>4 DEF FlowInv, SwitchInv, SwitchAt, SpareHeld, Shapes
  <1>8. WarmInv'
    BY <1>0, <1>2, <1>3, <1>4 DEF FlowInv, WarmInv, Shapes
  <1>9. Disjoint'
    BY <1>3, ZenonT(120) DEF FlowInv, Disjoint, Held
  <1>10. UnusedInv'
    <2>1. \A j \in Callers : pc'[j] = "install" => pc[j] = "install"
      BY <1>1
    <2>2. Unused' \subseteq Unused
      BY <1>3, <2>1, ZenonT(120) DEF Unused, Held
    <2>3. UnusedInv
      BY DEF FlowInv
    <2>4. ASSUME NEW p \in Unused'
          PROVE  pc'[p] = "off" /\ p # active' /\ p # warm'.active
      <3>1. p \in Unused /\ p \in Callers
        BY <1>0, <2>2, UnusedArePaths, ZenonT(120)
      <3> QED
        BY <1>1, <1>3, <2>3, <3>1, ZenonT(120) DEF UnusedInv
    <2>5. ASSUME NEW p \in Unused', NEW j \in Callers PROVE exp'[j] # p
      <3>1. p # None /\ exp[j] # p
        BY <2>2, <2>3 DEF Unused, UnusedInv
      <3> QED
        BY <1>1, <3>1
    <2> QED
      BY <2>4, <2>5, ZenonT(120) DEF UnusedInv
  <1>11. ReportInv'
    BY <1>0, <1>1, <1>3 DEF FlowInv, ReportInv, Shapes
  <1>12. WriterInv'
    BY <1>1, <1>3 DEF FlowInv, WriterInv, Binding, Switching
  <1>13. ToldInv' /\ NodeInv'
    BY <1>0, <1>2, <1>3, ZenonT(120) DEF FlowInv, ToldInv, NodeInv, Shapes
  <1>14. NoPathLeak'
    BY <1>1, <1>2, <1>3 DEF FlowInv, NoPathLeak
  <1>15. PathsInOrder'
    BY <1>0, <1>1, <1>2, <1>3, <1>4 DEF FlowInv, PathsInOrder, ReportInv, Shapes
  <1> QED BY <1>5, <1>6, <1>7, <1>8, <1>9, <1>10, <1>11, <1>12, <1>13, <1>14, <1>15
          DEF FlowInv

-----------------------------------------------------------------------------
(* close, and the steps around the flow. *)

(* close, whoever calls it: nobody loses a path that is not the flow's, and *)
(* the standby that a switch has borrowed is retired under it.               *)
LEMMA TakeDownStep ==
    ASSUME FlowInv, TakeDown, known \/ done \/ pc[Writer] = "abort",
           \/ pc' = pc
           \/ pc[Writer] = "abort" /\ pc' = [pc EXCEPT ![Writer] = "off"],
           UNCHANGED <<done, gate, sw, warm, exp, want, why, readerVars>>
    PROVE  FlowInv'
  <1>0. Shapes
    BY ShapesType DEF FlowInv
  <1>1. /\ \A j \in Callers : pc'[j] = pc[j] \/ (j = Writer /\ pc[j] = "abort" /\ pc'[j] = "off")
        /\ pc' \in [Callers -> Places]
    BY <1>0 DEF Shapes, Places
  <1>2. /\ open' = open \ {active, reserve}
        /\ \A p \in Paths : p \notin {active, reserve} => node'[p] = node[p]
        /\ node' \in [Paths -> Nodes \cup {None}] /\ broken' \subseteq Paths
    BY <1>0 DEF FlowInv, TypeOK, TakeDown, Retire, Shapes
  <1>3. /\ closed' = TRUE /\ closed' \in BOOLEAN /\ known' = FALSE /\ known' \in BOOLEAN
        /\ active' = None /\ reserve' = None
    BY ZenonT(120) DEF TakeDown
  <1>4. TypeOK'
    BY <1>1, <1>2, <1>3 DEF FlowInv, TypeOK, Places, Switching
  <1>5. GateInv'
    BY <1>1, ZenonT(120) DEF FlowInv, GateInv, Switching
  <1>6. SwitchInv'
    BY <1>0, <1>1, <1>2, <1>3 DEF FlowInv, SwitchInv, SwitchAt, SpareHeld, Shapes
  <1>7. WarmInv'
    <2>1. warm.got \in Paths => warm.got \notin {active, reserve}
      BY ZenonT(120) DEF FlowInv, Disjoint, Held
    <2>2. warm.got \in open => warm.got \in open'
      BY <1>0, <1>2, <2>1 DEF Shapes
    <2> QED BY <1>3, <2>2 DEF FlowInv, WarmInv
  <1>8. Disjoint' /\ NodeInv'
    BY <1>0, <1>2, <1>3 DEF FlowInv, Disjoint, Held, NodeInv, Shapes
  <1>9. UnusedInv'
    BY <1>0, <1>1, <1>3 DEF FlowInv, UnusedInv, Unused, Held, Shapes
  <1>10. ReportInv'
    BY <1>0, <1>1, <1>3 DEF FlowInv, ReportInv, Shapes
  <1>11. WriterInv' /\ ToldInv'
    BY <1>1, <1>3 DEF FlowInv, WriterInv, ToldInv, Binding, Switching
  <1>12. NoPathLeak' /\ PathsInOrder'
    BY <1>1, <1>2, <1>3 DEF FlowInv, NoPathLeak, PathsInOrder
  <1> QED BY <1>4, <1>5, <1>6, <1>7, <1>8, <1>9, <1>10, <1>11, <1>12 DEF FlowInv

(* The idle sweep, the socket or a failed binding closes the flow. *)
LEMMA CloseStep ==
    ASSUME FlowInv, IdleSweep \/ SocketClose \/ Abort
    PROVE  FlowInv'
  BY TakeDownStep, ZenonT(120) DEF IdleSweep, SocketClose, Abort

(* The death of a transport. *)
LEMMA BreakStep ==
    ASSUME FlowInv, Break
    PROVE  FlowInv'
  <1>1. TypeOK'
    BY DEF FlowInv, Break, TypeOK
  <1>2. ReportInv' /\ WriterInv' /\ ToldInv'
    BY ZenonT(120) DEF FlowInv, Break, ReportInv, WriterInv, ToldInv, Binding
  <1>3. PathsInOrder'
    BY DEF FlowInv, Break, PathsInOrder
  <1> QED BY <1>1, <1>2, <1>3, Frame, ZenonT(120) DEF FlowInv, Break

(* The socket's context ends. *)
LEMMA SocketCancelStep ==
    ASSUME FlowInv, SocketCancel
    PROVE  FlowInv'
  <1>1. TypeOK'
    <2>1. done' \in BOOLEAN
      BY ZenonT(120) DEF SocketCancel
    <2> QED BY <2>1 DEF FlowInv, SocketCancel, TypeOK
  <1>2. ReportInv' /\ WriterInv' /\ ToldInv'
    BY DEF FlowInv, SocketCancel, ReportInv, WriterInv, ToldInv, Binding
  <1>3. PathsInOrder'
    BY DEF FlowInv, SocketCancel, PathsInOrder
  <1> QED BY <1>1, <1>2, <1>3, Frame DEF FlowInv, SocketCancel

(* The reader takes the report. *)
LEMMA ReaderTakeStep ==
    ASSUME FlowInv, ReaderTake
    PROVE  FlowInv'
  <1>1. TypeOK'
    <2>1. told' \in BOOLEAN
      BY ZenonT(120) DEF ReaderTake
    <2> QED BY <2>1 DEF FlowInv, ReaderTake, TypeOK
  <1>2. ReportInv' /\ WriterInv' /\ ToldInv'
    BY ZenonT(120) DEF FlowInv, ReaderTake, ReportInv, WriterInv, ToldInv, Binding
  <1>3. PathsInOrder'
    BY DEF FlowInv, ReaderTake, PathsInOrder
  <1> QED BY <1>1, <1>2, <1>3, Frame, ZenonT(120) DEF FlowInv, ReaderTake

(* The reader looks whether the flow has a path. *)
LEMMA ReaderLookStep ==
    ASSUME FlowInv, ReaderLook
    PROVE  FlowInv'
  <1>1. TypeOK'
    BY DEF FlowInv, ReaderLook, TypeOK
  <1>2. ReportInv' /\ WriterInv' /\ ToldInv'
    BY ZenonT(120) DEF FlowInv, ReaderLook, ReportInv, WriterInv, ToldInv, Binding
  <1>3. PathsInOrder'
    BY DEF FlowInv, ReaderLook, PathsInOrder
  <1> QED BY <1>1, <1>2, <1>3, Frame, ZenonT(120) DEF FlowInv, ReaderLook

(* Every step of receive. *)
LEMMA ReceiveStep ==
    ASSUME NEW q \in Paths, FlowInv, Receive(q)
    PROVE  FlowInv'
  BY ReadErrorStep, ReadQuitStep, ChangeStep, MarkStep, TellStep DEF Receive

(* Every step of binding and WriteTo. *)
LEMMA WriteToStep ==
    ASSUME FlowInv, WriteTo
    PROVE  FlowInv'
  BY RegisterStep, CloseStep, WritePickStep, ChangeStep, MarkStep, TellStep, ZenonT(120) DEF WriteTo

-----------------------------------------------------------------------------
(* The invariant holds when binding creates the flow. *)
LEMMA InitInv == Init => FlowInv
  <1> SUFFICES ASSUME Init PROVE FlowInv
    OBVIOUS
  <1> USE DEF Init, NoSwitch, NoWarm
  <1>1. TypeOK
    BY ZenonT(120) DEF TypeOK, Switching
  <1>2. GateInv /\ SwitchInv /\ WarmInv
    BY ZenonT(120) DEF GateInv, SwitchInv, SwitchAt, WarmInv
  <1>3. Disjoint /\ UnusedInv
    BY ZenonT(120) DEF Disjoint, UnusedInv, Unused, Held
  <1>4. ReportInv /\ WriterInv /\ ToldInv
    BY DEF ReportInv, WriterInv, ToldInv, Binding
  <1>5. NodeInv /\ NoPathLeak /\ PathsInOrder
    BY DEF NodeInv, NoPathLeak, PathsInOrder
  <1> QED BY <1>1, <1>2, <1>3, <1>4, <1>5, ZenonT(120) DEF FlowInv

(* Every step keeps it. *)
LEMMA NextInv == FlowInv /\ [Next]_vars => FlowInv'
  <1> SUFFICES ASSUME FlowInv, [Next]_vars PROVE FlowInv'
    OBVIOUS
  <1>1. CASE Next
    BY <1>1, BreakStep, ReceiveStep, WriteStartStep, WriteToStep, WriteEndsStep,
       WriteErrorStep, RequestStep, ChangeStep, WarmStartStep, WarmStep, CloseStep,
       SocketCancelStep, ReaderTakeStep, ReaderLookStep DEF Next
  <1>2. CASE UNCHANGED vars
    <2> USE <1>2 DEF vars
    <2>1. TypeOK'
      BY DEF FlowInv, TypeOK
    <2>2. ReportInv' /\ WriterInv' /\ ToldInv'
      BY DEF FlowInv, ReportInv, WriterInv, ToldInv, Binding
    <2>3. PathsInOrder'
      BY ZenonT(120) DEF FlowInv, PathsInOrder
    <2> QED BY <2>1, <2>2, <2>3, Frame, ZenonT(120) DEF FlowInv
  <1> QED BY <1>1, <1>2

(* The ownership of paths at every point of change, warm, fail and close. *)
THEOREM FlowInvariant == Spec => []FlowInv
  BY InitInv, NextInv, PTL DEF Spec

(* No interleaving of switches, preparations, failures and close leaves a *)
(* dialled path open that nobody refers to, however many paths and nodes  *)
(* there are.                                                             *)
THEOREM NoPathLeakHolds == Spec => []NoPathLeak
  <1>1. FlowInv => NoPathLeak
    BY DEF FlowInv
  <1> QED BY <1>1, FlowInvariant, PTL

(* The active path and the standby are open and go through different      *)
(* nodes, the active path is read from, a closed flow has none, and a     *)
(* report replaces only the path it is about.                             *)
THEOREM PathsInOrderHolds == Spec => []PathsInOrder
  <1>1. FlowInv => PathsInOrder
    BY DEF FlowInv
  <1> QED BY <1>1, FlowInvariant, PTL

(* The reader of a flow without a path has been told of it, or will be. *)
THEOREM ReaderToldHolds == Spec => []ReaderTold
  <1>1. FlowInv => ReaderTold
    BY DEF FlowInv, WriterInv, ToldInv, Binding, ReaderTold
  <1> QED BY <1>1, FlowInvariant, PTL
=============================================================================
