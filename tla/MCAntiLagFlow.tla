---------------------------- MODULE MCAntiLagFlow ----------------------------
(* Small instances of AntiLagFlow for TLC. *)
EXTENDS AntiLagFlow, TLC

(* Bound: while the reader is being told of a failure the operator asks for *)
(* no further switch; one that was asked for before goes on.  A reader that *)
(* has given up looks at nothing any more, and nothing looks at it.         *)
OneThingAtATime ==
    /\ rd # "error"
    /\ (told \/ rd = "look") /\ pc[Control] = "off" => pc'[Control] = "off"

(* Nodes and paths are interchangeable: the ranking is left open. *)
Symmetry == Permutations(Nodes) \cup Permutations(Paths)
=============================================================================
