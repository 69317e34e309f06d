----------------------------- MODULE MCXrayPool -----------------------------
(* Small instances of XrayPool for TLC: all callers use one pool. *)
EXTENDS XrayPool

CONSTANTS c1, c2, p1

Together == [c \in Callers |-> p1]
NoPackets == [c \in Callers |-> FALSE]
OneEach == [p \in Pools |-> 1]
=============================================================================
