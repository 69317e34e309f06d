------------------------------- MODULE FakeIP -------------------------------
(***************************************************************************)
(* component/fakeip: the pool that answers a DNS query for a host with an  *)
(* address of its own and takes the address back to the host when a        *)
(* connection to it arrives.  Addresses are handed out in a circle.  The   *)
(* two mappings are kept in memory, in two LRU caches, or in the cache     *)
(* file, where they outlive a crash, while the position in the circle is   *)
(* only saved when the program is shut down.  Lookup and LookBack take     *)
(* p.mux, FlushFakeIP and StoreState do not.                               *)
(***************************************************************************)
EXTENDS Integers, SequencesExt

CONSTANTS
    Hosts,
    Ranges,          \* the configured ranges, as their first and last usable address
    Persistent,      \* which store
    Size,            \* of the LRU caches
    MaxFlush,        \* bound: flush requests
    MaxRestart,      \* bound: ends of the program
    None

VARIABLES
    byHost,    \* host -> address, as pairs, the least recently used first
    byIP,      \* address -> host
    saved,     \* offsetKey and cycleKey in the cache file
    offset, cycle,
    range,     \* p.first and the address before p.last
    call,      \* the Lookup that holds p.mux
    flush,     \* where a FlushFakeIP is
    up,        \* the program runs
    raced,     \* history: a flush met a Lookup on its way
    budget     \* bounds: flushes and restarts left

vars == <<byHost, byIP, saved, offset, cycle, range, call, flush, up, raced, budget>>
store == <<byHost, byIP>>

(* p.ipnet: four addresses before the first usable one, p.last after them.  *)
IPNet(r) == (r[1] - 4) .. (r[2] + 1)

FirstIP == range[1]
LastIP  == range[2]
IPs     == UNION {IPNet(r) : r \in Ranges}
Idle    == [at |-> "idle", host |-> None, ip |-> None]

TypeOK ==
    /\ ToSet(byHost) \subseteq Hosts \X IPs
    /\ ToSet(byIP) \subseteq IPs \X Hosts
    /\ saved.offset \in IPs \cup {None} /\ saved.cycle \in BOOLEAN
    /\ offset \in IPs /\ {cycle, up, raced} \subseteq BOOLEAN
    /\ range \in Ranges
    /\ call.at \in {"idle", "del", "putIP", "return", "putHost"}
    /\ call.ip \in IPs \cup {None}
    /\ flush \in {"idle", "clearIP", "reset"}

Init ==
    /\ byHost = <<>> /\ byIP = <<>>
    /\ saved = [offset |-> None, cycle |-> FALSE]
    /\ range \in Ranges /\ offset = FirstIP - 1 /\ cycle = FALSE
    /\ call = Idle /\ flush = "idle" /\ up = TRUE /\ raced = FALSE
    /\ budget = [flush |-> MaxFlush, restart |-> MaxRestart]

-----------------------------------------------------------------------------
(* The stores. *)
Has(m, k)    == \E e \in ToSet(m) : e[1] = k
Get(m, k)    == (CHOOSE e \in ToSet(m) : e[1] = k)[2]
Del(m, k)    == SelectSeq(m, LAMBDA e : e[1] # k)

(* lru.Get: the entry moves to the back. *)
Touch(m, k) == IF Persistent \/ ~Has(m, k) THEN m ELSE Append(Del(m, k), <<k, Get(m, k)>>)

(* lru.Set: one entry too many pushes out the least recently used. *)
Put(m, k, v) ==
    LET n == Append(Del(m, k), <<k, v>>)
    IN  IF Persistent \/ Len(n) <= Size THEN n ELSE Tail(n)

(* Mutant: the host keeps its address when the address is taken away.       *)
DelByIPOnly(ip) ==
    /\ byIP' = Del(byIP, ip)
    /\ UNCHANGED byHost

DelByIP(ip) ==
    /\ byHost' = IF Has(byIP, ip) THEN Del(byHost, Get(byIP, ip)) ELSE byHost
    /\ byIP' = Del(byIP, ip)

-----------------------------------------------------------------------------
Running == up /\ call = Idle

(* Lookup: a host that has an address keeps it ... *)
LookupHit(h) ==
    /\ Running /\ Has(byHost, h)
    /\ byHost' = Touch(byHost, h)
    /\ byIP' = Touch(byIP, Get(byHost, h))
    /\ UNCHANGED <<saved, offset, cycle, range, call, flush, up, raced, budget>>

(* ... another gets the next one of the circle ... *)
LookupMiss(h) ==
    /\ Running /\ ~Has(byHost, h)
    /\ offset' = IF offset + 1 <= LastIP THEN offset + 1 ELSE FirstIP
    /\ cycle' = (cycle \/ offset + 1 > LastIP)
    /\ call' = [Idle EXCEPT !.at = "del", !.host = h]
    /\ raced' = (raced \/ flush # "idle")
    /\ UNCHANGED <<byHost, byIP, saved, range, flush, up, budget>>

(* ... which is taken from the host that has it ... *)
TakeAway ==
    /\ up /\ call.at = "del"
    /\ IF cycle \/ Has(byIP, offset) THEN DelByIP(offset) ELSE UNCHANGED store
    /\ call' = [call EXCEPT !.at = "putIP"]
    /\ UNCHANGED <<saved, offset, cycle, range, flush, up, raced, budget>>

(* ... and entered in the one mapping and then, as get returns it, in the   *)
(* other, each in a transaction of its own.                                 *)
PutByIP ==
    /\ up /\ call.at = "putIP"
    /\ byIP' = Put(byIP, offset, call.host)
    /\ call' = [call EXCEPT !.at = "return"]
    /\ UNCHANGED <<byHost, saved, offset, cycle, range, flush, up, raced, budget>>

GetReturns ==
    /\ up /\ call.at = "return"
    /\ call' = [call EXCEPT !.at = "putHost", !.ip = offset]
    /\ UNCHANGED <<byHost, byIP, saved, offset, cycle, range, flush, up, raced, budget>>

PutByHost ==
    /\ up /\ call.at = "putHost"
    /\ byHost' = Put(byHost, call.host, call.ip)
    /\ call' = Idle
    /\ UNCHANGED <<byIP, saved, offset, cycle, range, flush, up, raced, budget>>

(* LookBack: the entries of a hit are used in both caches. *)
LookBack(ip) ==
    /\ Running /\ Has(byIP, ip)
    /\ byIP' = Touch(byIP, ip)
    /\ byHost' = Touch(byHost, Get(byIP, ip))
    /\ UNCHANGED <<saved, offset, cycle, range, call, flush, up, raced, budget>>

-----------------------------------------------------------------------------
(* FlushFakeIP: the cache file loses the bucket in one transaction, the LRU *)
(* caches are cleared one after the other; then the circle starts anew.     *)
Raced == raced' = (raced \/ call # Idle)

FlushStore ==
    /\ up /\ flush = "idle" /\ budget.flush > 0
    /\ budget' = [budget EXCEPT !.flush = @ - 1]
    /\ byHost' = <<>>
    /\ IF Persistent
       THEN byIP' = <<>> /\ saved' = [offset |-> None, cycle |-> FALSE] /\ flush' = "reset"
       ELSE UNCHANGED <<byIP, saved>> /\ flush' = "clearIP"
    /\ Raced
    /\ UNCHANGED <<offset, cycle, range, call, up>>

FlushIPs ==
    /\ up /\ flush = "clearIP"
    /\ byIP' = <<>>
    /\ flush' = "reset"
    /\ Raced
    /\ UNCHANGED <<byHost, saved, offset, cycle, range, call, up, budget>>

FlushReset ==
    /\ up /\ flush = "reset"
    /\ cycle' = FALSE /\ offset' = FirstIP - 1
    /\ flush' = "idle"
    /\ Raced
    /\ UNCHANGED <<byHost, byIP, saved, range, call, up, budget>>

-----------------------------------------------------------------------------
(* The end: a shutdown saves the position, whatever else is going on, and   *)
(* never takes back that the circle was closed once; a crash saves nothing. *)
Stop ==
    /\ Persistent /\ up /\ budget.restart > 0
    /\ budget' = [budget EXCEPT !.restart = @ - 1]
    /\ up' = FALSE /\ call' = Idle /\ flush' = "idle"

Shutdown ==
    /\ Stop
    /\ saved' = [offset |-> offset, cycle |-> cycle \/ saved.cycle]
    /\ UNCHANGED <<byHost, byIP, offset, cycle, range, raced>>

Crash ==
    /\ Stop
    /\ UNCHANGED <<byHost, byIP, saved, offset, cycle, range, raced>>

(* New and restoreState, perhaps with another range: a store in use whose   *)
(* position was not saved, or is outside the network, is flushed.           *)
Restart(r) ==
    LET flushed == IF saved.offset = None THEN Has(byIP, r[1])
                   ELSE saved.offset \notin IPNet(r)
    IN  /\ ~up /\ up' = TRUE
        /\ range' = r
        /\ offset' = IF saved.offset = None \/ flushed THEN r[1] - 1 ELSE saved.offset
        /\ cycle' = (saved.cycle /\ ~flushed)
        /\ IF flushed
           THEN byHost' = <<>> /\ byIP' = <<>> /\ saved' = [offset |-> None, cycle |-> FALSE]
           ELSE UNCHANGED <<byHost, byIP, saved>>
        /\ UNCHANGED <<call, flush, raced, budget>>

-----------------------------------------------------------------------------
Next ==
    \/ \E h \in Hosts : LookupHit(h) \/ LookupMiss(h)
    \/ TakeAway \/ PutByIP \/ GetReturns \/ PutByHost
    \/ \E ip \in IPs : LookBack(ip)
    \/ FlushStore \/ FlushIPs \/ FlushReset
    \/ Shutdown \/ Crash \/ \E r \in Ranges : Restart(r)

Spec == Init /\ [][Next]_vars

-----------------------------------------------------------------------------
TakenBack == call = Idle =>
    \A e \in ToSet(byHost) : Has(byIP, e[2]) /\ Get(byIP, e[2]) = e[1]

(* The address Lookup answers for a host is taken back to that host by      *)
(* LookBack: through the circle's wrapping, the eviction of entries, and a  *)
(* crash between the two halves of an entry or long after the position was  *)
(* last saved, and a start with another range; unless a flush has met a     *)
(* Lookup.                                                                  *)
LookupTakenBack == ~raced => TakenBack

(* The same without the exception: "LookBack return host with the fake ip". *)
LookBackRight == TakenBack
=============================================================================
