------------------------------ MODULE ByteFifo ------------------------------
(***************************************************************************)
(* What a sessionPipe promises: a bounded first-in first-out queue of      *)
(* bytes that, once shut, takes no more but still gives out what it has    *)
(* unless it is dropped.  The bytes are numbered in the order in which     *)
(* they are offered.                                                       *)
(***************************************************************************)
EXTENDS Integers, Sequences

CONSTANTS Limit, MaxByte

VARIABLES
    queue,   \* the bytes inside
    offered, \* how many bytes the writer has got rid of
    out,     \* the bytes given to the read in progress
    shut
vars == <<queue, offered, out, shut>>

Init == queue = <<>> /\ offered = 0 /\ out = <<>> /\ shut = FALSE

\* The next n bytes enter together, if there is room for all of them ...
Put(n) ==
    /\ ~shut
    /\ queue' = queue \o [i \in 1..n |-> offered + i]
    /\ Len(queue') <= Limit
    /\ offered' = offered + n
    /\ UNCHANGED <<out, shut>>

\* ... or are refused together.
Refuse(n) == shut /\ offered' = offered + n /\ UNCHANGED <<queue, out, shut>>

\* A read begins, and gets the oldest bytes.
Call == out' = <<>> /\ UNCHANGED <<queue, offered, shut>>
Take(n) ==
    /\ n <= Len(queue)
    /\ out' = out \o SubSeq(queue, 1, n)
    /\ queue' = SubSeq(queue, n + 1, Len(queue))
    /\ UNCHANGED <<offered, shut>>

Shut == shut' = TRUE /\ UNCHANGED <<queue, offered, out>>
Drop == shut' = TRUE /\ queue' = <<>> /\ UNCHANGED <<offered, out>>

Next ==
    \/ \E n \in 1..MaxByte : Put(n) \/ Refuse(n)
    \/ \E n \in 1..Limit : Take(n)
    \/ Call \/ Shut \/ Drop

Spec == Init /\ [][Next]_vars
=============================================================================
