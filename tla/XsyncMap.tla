------------------------------ MODULE XsyncMap ------------------------------
(***************************************************************************)
(* common/xsync, Map: the concurrent hash map behind the NAT table, the    *)
(* connection tracker and most caches.  Reads take no lock; writers lock   *)
(* the root bucket of their key; a resize moves the entries, bucket by     *)
(* bucket and with the help of the writers it holds up, to a new table     *)
(* that is then published.  A chain of buckets is abstracted to the keys   *)
(* that hash to it, so a lookup in one table is one step; the sequence and *)
(* helper halves of resizeCtl are two fields.                              *)
(***************************************************************************)
EXTENDS Integers, Sequences, FiniteSets

CONSTANTS
    Procs,           \* goroutines
    Keys, Vals,
    Hash,            \* per key: h1
    Scripts,         \* what the goroutines may be about to do
    EntriesPerBucket, ShrinkFraction, MinLen, MaxHelpers,
    None

VARIABLES
    tab,       \* the tables, by id; an id nobody refers to is reused
    table,     \* m.table
    next,      \* m.nextTable
    ctl,       \* m.resizeCtl
    idx,       \* m.resizeIdx
    proc,      \* per goroutine: where it is and its locals
    todo,      \* per goroutine: the calls it has yet to make
    seen       \* history, per goroutine: what its key meant during its call

vars == <<tab, table, next, ctl, idx, proc, todo, seen>>

Ids == 1 .. (2 * Cardinality(Procs) + 2)

Empty(n) == [len |-> n, data |-> [k \in Keys |-> None], size |-> 0, locked |-> {}]

Resting == [at |-> "idle", op |-> None, key |-> None, val |-> None, t |-> None, nt |-> None,
            seq |-> 0, hint |-> None, ret |-> "idle", buckets |-> {}, n |-> 0]

TypeOK ==
    /\ table \in Ids /\ next \in Ids \cup {None} /\ idx \in Nat
    /\ ctl.seq \in Nat /\ ctl.helpers \in 0 .. MaxHelpers
    /\ \A i \in Ids : /\ tab[i].len \in Nat \ {0}
                      /\ tab[i].data \in [Keys -> Vals \cup {None}]
                      /\ tab[i].size \in Int
                      /\ tab[i].locked \subseteq 0 .. (tab[i].len - 1)

Init ==
    /\ tab = [i \in Ids |-> Empty(MinLen)]
    /\ table = 1 /\ next = None
    /\ ctl = [seq |-> 0, helpers |-> 0] /\ idx = 0
    /\ proc = [p \in Procs |-> Resting]
    /\ todo \in Scripts
    /\ seen = [p \in Procs |-> {}]

-----------------------------------------------------------------------------
Content(i) == tab[i].data
Entries(i) == {k \in Keys : tab[i].data[k] # None}
Bucket(i, k) == Hash[k] % tab[i].len
InBucket(i, b) == {k \in Entries(i) : Bucket(i, k) = b}
Resizing == ctl.seq % 2 = 1

(* An id no goroutine and neither pointer refers to. *)
FreeId ==
    CHOOSE i \in Ids : i \notin {table, next} \cup UNION {{proc[p].t, proc[p].nt} : p \in Procs}

At(p, l) == proc[p].at = l
Go(p, l) == proc' = [proc EXCEPT ![p].at = l]
Set(p, r) == proc' = [proc EXCEPT ![p] = r]
Return(p) == proc' = [proc EXCEPT ![p] = Resting]
Continue(p) ==
    IF proc[p].ret = "idle" THEN Return(p)
    ELSE Set(p, [Resting EXCEPT !.at = "table", !.op = proc[p].op, !.key = proc[p].key,
                                !.val = proc[p].val])
Unlocked(i, k) == [tab EXCEPT ![i].locked = @ \ {Bucket(i, k)}]

(* The history, for a call with a key: all its key has meant since the call *)
(* began, in the current table or as written by p to the table it has       *)
(* locked (a Clear may have replaced it).                                   *)
Watch(p) ==
    LET now == {table'} \cup (IF At(p, "write") THEN {proc[p].t} ELSE {})
        Meaning(q) == {tab'[i].data[proc'[q].key] : i \in now}
    IN  seen' = [q \in Procs |->
                    IF proc'[q].at = "idle" \/ proc'[q].op = "clear" THEN {}
                    ELSE seen[q] \cup Meaning(q)]

-----------------------------------------------------------------------------
(* Mutant: a reader that prefers the table a resize is filling.             *)
EnterNext(r) ==
    [r EXCEPT !.t = IF r.op = "clear" THEN None ELSE IF next # None THEN next ELSE table,
              !.at = CASE r.op = "clear" -> "seq"
                       [] r.op = "store" -> "lock"
                       [] r.op \notin {"clear", "store"} -> "look"]

(* A call begins with table := m.table.Load(), after which Store goes for   *)
(* the lock and the others look first; Clear goes on to resize.             *)
Enter(r) ==
    [r EXCEPT !.t = IF r.op = "clear" THEN None ELSE table,
              !.at = CASE r.op = "clear" -> "seq"
                       [] r.op = "store" -> "lock"
                       [] r.op \notin {"clear", "store"} -> "look"]

Begin(p) ==
    /\ At(p, "idle")
    /\ todo[p] # <<>>
    /\ LET c == Head(todo[p])
       IN  Set(p, Enter([Resting EXCEPT !.op = c.op, !.key = c.key, !.val = c.val,
                                        !.hint = IF c.op = "clear" THEN "clear" ELSE None]))
    /\ todo' = [todo EXCEPT ![p] = Tail(@)]
    /\ UNCHANGED <<tab, table, next, ctl, idx>>

Retry(p) ==
    /\ At(p, "table")
    /\ Set(p, Enter(proc[p]))
    /\ UNCHANGED <<tab, table, next, ctl, idx, todo>>

(* The lock-free lookup: all of Load, and the first half of doCompute for   *)
(* LoadOrStore, which a hit ends, and for LoadAndDelete, which a miss ends. *)
Look(p) ==
    LET v == tab[proc[p].t].data[proc[p].key]
    IN  /\ At(p, "look")
        /\ IF \/ proc[p].op = "load"
              \/ proc[p].op = "loadOrStore" /\ v # None
              \/ proc[p].op = "delete" /\ v = None
           THEN Return(p) ELSE Go(p, "lock")
        /\ UNCHANGED <<tab, table, next, ctl, idx, todo>>

(* Under the bucket's lock: a resize in progress is helped, then tried      *)
(* again ...                                                                *)
Lock(p) ==
    LET r == proc[p]
    IN  /\ At(p, "lock")
        /\ Bucket(r.t, r.key) \notin tab[r.t].locked
        /\ IF Resizing
           THEN /\ Set(p, [r EXCEPT !.at = "help", !.seq = ctl.seq, !.ret = "table"])
                /\ UNCHANGED tab
           ELSE /\ tab' = [tab EXCEPT ![r.t].locked = @ \cup {Bucket(r.t, r.key)}]
                /\ Go(p, "newer?")
        /\ UNCHANGED <<table, next, ctl, idx, todo>>

(* ... and so is a table that was replaced meanwhile. *)
CheckTable(p) ==
    LET r == proc[p]
    IN  /\ At(p, "newer?")
        /\ IF r.t # table
           THEN tab' = Unlocked(r.t, r.key) /\ Set(p, [r EXCEPT !.at = "table", !.t = None])
           ELSE Go(p, "write") /\ UNCHANGED tab
        /\ UNCHANGED <<table, next, ctl, idx, todo>>

(* The entry is found, inserted, replaced or deleted and the lock released; *)
(* an insertion that finds its chain full may have to grow the table first  *)
(* (deletions may have left gaps in a chain, so it need not be full).       *)
Write(p) ==
    LET r   == proc[p]
        old == tab[r.t].data[r.key]
        b   == Bucket(r.t, r.key)
        Put(v) == tab' = [Unlocked(r.t, r.key) EXCEPT ![r.t].data[r.key] = v]
        Insert ==
            \/ Put(r.val) /\ Set(p, [r EXCEPT !.at = "count", !.n = 1])
            \/ /\ Cardinality(InBucket(r.t, b)) >= EntriesPerBucket
               /\ tab[r.t].size > (3 * tab[r.t].len * EntriesPerBucket) \div 4
               /\ tab' = Unlocked(r.t, r.key)
               /\ Set(p, [r EXCEPT !.at = "resize", !.hint = "grow", !.ret = "table"])
    IN  /\ At(p, "write")
        /\ CASE old = None /\ r.op = "delete" -> tab' = Unlocked(r.t, r.key) /\ Return(p)
             [] old = None /\ r.op # "delete" -> Insert
             [] old # None /\ r.op = "delete" ->
                  Put(None) /\ Set(p, [r EXCEPT !.at = "count", !.n = -1])
             [] old # None /\ r.op = "store" -> Put(r.val) /\ Return(p)
             [] old # None /\ r.op = "loadOrStore" -> tab' = Unlocked(r.t, r.key) /\ Return(p)
        /\ UNCHANGED <<table, next, ctl, idx, todo>>

(* Mutant: the size is added to the table that is current by then.          *)
CountCurrent(p) ==
    LET r == proc[p]
    IN  /\ At(p, "count")
        /\ tab' = [tab EXCEPT ![table].size = @ + r.n]
        /\ \/ r.n = 1 /\ Return(p)
           \/ r.n = -1 /\ InBucket(r.t, Bucket(r.t, r.key)) # {} /\ Return(p)
           \/ r.n = -1 /\ Set(p, [r EXCEPT !.at = "resize", !.hint = "shrink", !.ret = "idle", !.n = 0])
        /\ UNCHANGED <<table, next, ctl, idx, todo>>

(* addSize, after the lock is gone; a bucket left empty asks for a shrink.  *)
Count(p) ==
    LET r == proc[p]
    IN  /\ At(p, "count")
        /\ tab' = [tab EXCEPT ![r.t].size = @ + r.n]
        /\ \/ r.n = 1 /\ Return(p)
           \/ r.n = -1 /\ InBucket(r.t, Bucket(r.t, r.key)) # {} /\ Return(p)
           \/ r.n = -1 /\ Set(p, [r EXCEPT !.at = "resize", !.hint = "shrink", !.ret = "idle", !.n = 0])
        /\ UNCHANGED <<table, next, ctl, idx, todo>>

-----------------------------------------------------------------------------
MayShrink(i) ==
    MinLen < tab[i].len /\ tab[i].size <= (tab[i].len * EntriesPerBucket) \div ShrinkFraction

(* resize: the fast way out of a shrink ... *)
Resize(p) ==
    /\ At(p, "resize")
    /\ IF proc[p].hint = "shrink" /\ ~MayShrink(proc[p].t) THEN Return(p) ELSE Go(p, "seq")
    /\ UNCHANGED <<tab, table, next, ctl, idx, todo>>

(* ... the sequence number is read ... *)
ReadSeq(p) ==
    /\ At(p, "seq")
    /\ Set(p, [proc[p] EXCEPT !.seq = ctl.seq, !.at = "cas"])
    /\ UNCHANGED <<tab, table, next, ctl, idx, todo>>

(* ... and one goroutine gets to make it odd; the others help and return.   *)
StartResize(p) ==
    LET r == proc[p]
    IN  /\ At(p, "cas")
        /\ IF r.seq % 2 = 1 \/ ctl # [seq |-> r.seq, helpers |-> 0]
           THEN Go(p, "help") /\ UNCHANGED ctl
           ELSE Go(p, "alloc") /\ ctl' = [seq |-> r.seq + 1, helpers |-> 0]
        /\ UNCHANGED <<tab, table, next, idx, todo>>

(* The new table; a shrink that is no longer due is given up, and Clear has *)
(* nothing to copy.  nextTable is set last.                                 *)
Allocate(p) ==
    LET r  == proc[p]
        nt == FreeId
        new == CASE r.hint = "grow" -> 2 * tab[table].len
                 [] r.hint = "shrink" -> tab[table].len \div 2
                 [] r.hint = "clear" -> MinLen
    IN  /\ At(p, "alloc")
        /\ IF r.hint = "shrink" /\ ~MayShrink(table)
           THEN /\ ctl' = [seq |-> r.seq + 2, helpers |-> 0]
                /\ Continue(p)
                /\ UNCHANGED <<tab, next, idx>>
           ELSE /\ tab' = [tab EXCEPT ![nt] = Empty(new)]
                /\ UNCHANGED ctl
                /\ IF r.hint = "clear"
                   THEN /\ Set(p, [r EXCEPT !.at = "publish", !.nt = nt])
                        /\ UNCHANGED <<next, idx>>
                   ELSE /\ Set(p, [r EXCEPT !.at = "claim", !.t = table, !.nt = nt])
                        /\ idx' = 0 /\ next' = nt
        /\ UNCHANGED <<table, todo>>

(* transfer: claim the next destination, and the buckets that map to it.    *)
Claim(p) ==
    LET r    == proc[p]
        base == IF tab[r.t].len < tab[r.nt].len THEN tab[r.t].len ELSE tab[r.nt].len
    IN  /\ At(p, "claim")
        /\ idx' = idx + 1
        /\ IF idx >= base
           THEN Go(p, IF r.hint \in {"grow", "shrink"} THEN "publish" ELSE "unregister")
           ELSE Set(p, [r EXCEPT !.at = "copy", !.n = 0,
                          !.buckets = {b \in 0 .. (tab[r.t].len - 1) : b % base = idx}])
        /\ UNCHANGED <<tab, table, next, ctl, todo>>

(* Mutant: a source bucket is copied without taking its lock.               *)
CopyUnlocked(p) ==
    LET r  == proc[p]
        b  == CHOOSE x \in r.buckets : \A y \in r.buckets : x <= y
        ks == InBucket(r.t, b)
    IN  /\ At(p, "copy")
        /\ r.buckets # {}
        /\ tab' = [tab EXCEPT ![r.nt].data =
                     [k \in Keys |-> IF k \in ks THEN tab[r.t].data[k] ELSE @[k]]]
        /\ Set(p, [r EXCEPT !.buckets = @ \ {b}, !.n = @ + Cardinality(ks)])
        /\ UNCHANGED <<table, next, ctl, idx, todo>>

(* transferBucketUnsafe: under the source bucket's lock. *)
Copy(p) ==
    LET r  == proc[p]
        b  == CHOOSE x \in r.buckets : \A y \in r.buckets : x <= y
        ks == InBucket(r.t, b)
    IN  /\ At(p, "copy")
        /\ r.buckets # {}
        /\ b \notin tab[r.t].locked
        /\ tab' = [tab EXCEPT ![r.nt].data =
                     [k \in Keys |-> IF k \in ks THEN tab[r.t].data[k] ELSE @[k]]]
        /\ Set(p, [r EXCEPT !.buckets = @ \ {b}, !.n = @ + Cardinality(ks)])
        /\ UNCHANGED <<table, next, ctl, idx, todo>>

AddTotal(p) ==
    LET r == proc[p]
    IN  /\ At(p, "copy")
        /\ r.buckets = {}
        /\ tab' = [tab EXCEPT ![r.nt].size = @ + r.n]
        /\ Set(p, [r EXCEPT !.at = "claim", !.n = 0])
        /\ UNCHANGED <<table, next, ctl, idx, todo>>

(* With the helpers gone the new table is published ... *)
Publish(p) ==
    /\ At(p, "publish")
    /\ ctl.helpers = 0
    /\ table' = proc[p].nt
    /\ Go(p, "published")
    /\ UNCHANGED <<tab, next, ctl, idx, todo>>

ForgetNext(p) ==
    /\ At(p, "published")
    /\ next' = None
    /\ Go(p, "finish")
    /\ UNCHANGED <<tab, table, ctl, idx, todo>>

(* ... and the sequence made even, once no slow helper is registered.       *)
FinishResize(p) ==
    /\ At(p, "finish")
    /\ ctl = [seq |-> proc[p].seq + 1, helpers |-> 0]
    /\ ctl' = [seq |-> proc[p].seq + 2, helpers |-> 0]
    /\ Continue(p)
    /\ UNCHANGED <<tab, table, next, idx, todo>>

-----------------------------------------------------------------------------
(* helpResize: the two tables, then whether the resize is still the one.    *)
HelpLoadTable(p) ==
    /\ At(p, "help")
    /\ Set(p, [proc[p] EXCEPT !.t = table, !.at = "help2"])
    /\ UNCHANGED <<tab, table, next, ctl, idx, todo>>

HelpLoadNext(p) ==
    /\ At(p, "help2")
    /\ Set(p, [proc[p] EXCEPT !.nt = next, !.at = "help3"])
    /\ UNCHANGED <<tab, table, next, ctl, idx, todo>>

HelpCheck(p) ==
    LET r == proc[p]
    IN  /\ At(p, "help3")
        /\ IF ctl.seq # r.seq THEN Continue(p)
           ELSE Go(p, IF r.nt \in {None, r.t} THEN "help" ELSE "register")
        /\ UNCHANGED <<tab, table, next, ctl, idx, todo>>

Register(p) ==
    /\ At(p, "register")
    /\ IF ctl.seq # proc[p].seq \/ ctl.helpers >= MaxHelpers
       THEN Go(p, "await") /\ UNCHANGED ctl
       ELSE /\ ctl' = [ctl EXCEPT !.helpers = @ + 1]
            /\ Set(p, [proc[p] EXCEPT !.at = "claim", !.hint = "help"])
    /\ UNCHANGED <<tab, table, next, idx, todo>>

(* Mutant: a helper that leaves without unregistering.                      *)
UnregisterNot(p) ==
    /\ At(p, "unregister")
    /\ Go(p, "await")
    /\ UNCHANGED <<tab, table, next, ctl, idx, todo>>

Unregister(p) ==
    /\ At(p, "unregister")
    /\ ctl' = [ctl EXCEPT !.helpers = @ - 1]
    /\ Go(p, "await")
    /\ UNCHANGED <<tab, table, next, idx, todo>>

(* waitForResize *)
Await(p) ==
    /\ At(p, "await")
    /\ ~Resizing
    /\ Continue(p)
    /\ UNCHANGED <<tab, table, next, ctl, idx, todo>>

-----------------------------------------------------------------------------
Step(p) ==
    \/ Retry(p) \/ Look(p) \/ Lock(p) \/ CheckTable(p)
    \/ Write(p) \/ Count(p)
    \/ Resize(p) \/ ReadSeq(p) \/ StartResize(p) \/ Allocate(p)
    \/ Claim(p) \/ Copy(p) \/ AddTotal(p)
    \/ Publish(p) \/ ForgetNext(p) \/ FinishResize(p)
    \/ HelpLoadTable(p) \/ HelpLoadNext(p) \/ HelpCheck(p)
    \/ Register(p) \/ Unregister(p) \/ Await(p)

Next == \E p \in Procs : (Begin(p) \/ Step(p)) /\ Watch(p)

Spec == Init /\ [][Next]_vars

(* Every goroutine runs: bucket locks are held for a few steps only, and    *)
(* runtime.Gosched lets the others go on.                                   *)
Fairness == \A p \in Procs : WF_vars(Step(p) /\ Watch(p))

LiveSpec == Spec /\ Fairness

-----------------------------------------------------------------------------
(* No write is lost to a resize: whatever was being written, transferred    *)
(* and helped along, the table a grow or a shrink publishes means for every *)
(* key what the table it replaces means at that moment, and no writer is    *)
(* left that has passed its checks and would still write to the old one.    *)
ResizeKeepsAll ==
    [][ \A p \in Procs :
          (Publish(p) /\ proc[p].hint # "clear") =>
              /\ Content(proc[p].nt) = Content(table)
              /\ \A q \in Procs : At(q, "write") => proc[q].t # table ]_vars

(* A lock-free lookup never returns what its key did not mean at some       *)
(* moment of the call, though the table it scans may be replaced under it.  *)
LookupLegal ==
    [][ \A p \in Procs : Look(p) /\ proc'[p].at = "idle"
          => tab[proc[p].t].data[proc[p].key] \in seen[p] ]_vars

(* When every call has returned the map is settled: no lock is held, no     *)
(* resize is half done, and Size, kept in counters that are updated after   *)
(* the locks are released and while tables change, is the number of entries.*)
SizeExact ==
    (\A p \in Procs : At(p, "idle")) =>
        /\ tab[table].size = Cardinality(Entries(table))
        /\ tab[table].locked = {}
        /\ ~Resizing /\ ctl.helpers = 0 /\ next = None

(* Every call returns: helpers, waiters and the goroutine that resizes do   *)
(* not wait for each other in a circle.                                     *)
CallsReturn == \A p \in Procs : []<>At(p, "idle")
=============================================================================
