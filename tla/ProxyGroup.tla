---------------------------- MODULE ProxyGroup ----------------------------
(***************************************************************************)
(* A url-test group over proxy providers: adapter/outboundgroup/urltest.go *)
(* (fast, Set, ForceSet, healthCheck), groupbase.go (GetProxies),          *)
(* adapter/provider/provider.go (setProxies, Version, Proxies) and         *)
(* common/singledo/singledo.go (Do, Reset).                                *)
(*                                                                         *)
(* Every dial through the group calls fast, which asks a Single for the    *)
(* node: a kept result, the value of the call in flight, or a computation  *)
(* of its own.  The computation reads the providers' versions, then, under *)
(* getProxiesMutex, the cached list or a new one, and then chooses.  A     *)
(* provider update replaces every proxy object of the provider: here an    *)
(* object is a name and the generation (the provider's version) it was     *)
(* parsed in, and a list is the generation of each provider it holds.  An  *)
(* update may drop names and bring others.                                 *)
(*                                                                         *)
(* Left out: filters, the dial itself and the count of failed dials (what  *)
(* they lead to, the two Resets of healthCheck, happens at any time).  A   *)
(* test in flight when its object is replaced ends before the update.      *)
(***************************************************************************)
EXTENDS Integers, Sequences, FiniteSets

CONSTANTS
    Callers,     \* goroutines that dial through the group or set its node
    Providers,   \* how many providers the group uses
    Order,       \* the names, in the order the providers list them
    ProviderOf,  \* the provider of each name
    Contents,    \* the sets of names a fetched subscription may have
    Delays,      \* the delays a successful test measures
    MaxDelay,    \* 0xffff: the delay of a node that is dead or untested
    Tolerance,   \* the group's tolerance
    MaxVersion,  \* bound on the updates of a provider
    MaxTests,    \* bound on the tests
    MaxSets,     \* bound on the calls that set or unset the node
    None

VARIABLES
    version,     \* provider |-> its version; 0 while it has no proxies yet
    listed,      \* provider |-> the names of each of its generations
    state,       \* object |-> what its last test left: alive, and the delay
    tests,       \* tests made
    cache,       \* GroupBase.providerVersions and providerProxies
    locked,      \* the holder of getProxiesMutex
    selected,    \* URLTest.selected
    fastNode,    \* URLTest.fastNode
    single,      \* Single.call: the caller that computes
    result,      \* Single.result
    checking,    \* URLTest.healthCheck is between its two Resets
    call,        \* the call of each caller
    sets,        \* calls of Set and ForceSet made
    down         \* the names a test has found dead or an update dropped: history

vars == <<version, listed, state, tests, cache, locked, selected, fastNode,
          single, result, checking, call, sets, down>>

Names == {Order[i] : i \in DOMAIN Order}
Objects == [name : Names, gen : 1..MaxVersion]
Fallback == [name |-> None, gen |-> 0]
Pids == 1..Providers
NoVersions == [p \in Pids |-> 0]

\* A call that does nothing: where every caller starts and ends.
Idle == [pc |-> "idle", name |-> None, vers |-> <<>>, list |-> <<>>,
         val |-> Fallback, on |-> None, floor |-> NoVersions, pick |-> None]

\* Nobody has used the group yet.
Unused ==
    /\ state = [o \in Objects |-> [alive |-> TRUE, delay |-> 0]]
    /\ tests = 0
    /\ cache = [vers |-> <<>>, list |-> <<>>]
    /\ locked = None
    /\ selected = None
    /\ fastNode = None
    /\ single = None
    /\ result = None
    /\ checking = FALSE
    /\ call = [c \in Callers |-> Idle]
    /\ sets = 0
    /\ down = {}

Init ==
    /\ version = NoVersions
    /\ listed = [p \in Pids |-> <<>>]
    /\ Unused

---------------------------------------------------------------------------
\* The objects, tests and providers.

\* AliveForTestUrl: an object that was never tested counts as alive.
AliveForTestUrl(o) == o = Fallback \/ state[o].alive

\* LastDelayForTestUrl.
LastDelayForTestUrl(o) ==
    IF o = Fallback \/ ~state[o].alive \/ state[o].delay = 0 THEN MaxDelay
    ELSE state[o].delay

\* The names of a generation of a provider.
Listing(p, gen) == IF gen = 0 THEN {} ELSE listed[p][gen]

\* The proxies of a list, in order; the empty fallback when there is none.
Proxies(list) ==
    LET Listed(n) == n \in Listing(ProviderOf[n], list[ProviderOf[n]])
        named == SelectSeq(Order, Listed)
    IN  IF named = <<>> THEN <<Fallback>>
        ELSE [i \in DOMAIN named |->
                 [name |-> named[i], gen |-> list[ProviderOf[named[i]]]]]

\* baseProvider.setProxies: a fetched subscription replaces every object.
Update(p, names) ==
    /\ version[p] < MaxVersion
    /\ \A n \in names : ProviderOf[n] = p
    /\ version' = [version EXCEPT ![p] = @ + 1]
    /\ listed' = [listed EXCEPT ![p] = Append(@, names)]
    /\ down' = down \cup (Listing(p, version[p]) \ names)
    /\ UNCHANGED <<state, tests, cache, locked, selected, fastNode, single,
                   result, checking, call, sets>>

\* A health check tests an object of a provider's current list: it fails
\* (delay 0) or measures a delay.
URLTest(n, d) ==
    LET o == [name |-> n, gen |-> version[ProviderOf[n]]]
    IN  /\ tests < MaxTests
        /\ n \in Listing(ProviderOf[n], o.gen)
        /\ state' = [state EXCEPT ![o] = [alive |-> d # 0, delay |-> d]]
        /\ tests' = tests + 1
        /\ down' = IF d = 0 THEN down \cup {n} ELSE down
        /\ UNCHANGED <<version, listed, cache, locked, selected, fastNode, single,
                       result, checking, call, sets>>

---------------------------------------------------------------------------
\* Single.

ResetSingle == single' = None /\ result' = None

\* The pick a call that starts now has to honour: the selected name, unless
\* a Set or ForceSet is between its write and its Reset.
PickInForce ==
    IF \E c \in Callers : call[c].pc = "reset" THEN None ELSE selected

Fresh == [Idle EXCEPT !.pick = PickInForce]

\* A call that has returned o; what it returned is only looked at when it
\* had a pick to honour.
Returned(pick, o) ==
    IF pick = None THEN Idle ELSE [Idle EXCEPT !.pick = pick, !.val = o]

\* Single.Do up to its first unlock: the kept result, the call in flight,
\* or a computation of the caller's own.
Do(c) ==
    /\ call[c].pc = "idle"
    /\ call' = [call EXCEPT ![c] =
         IF result # None THEN Returned(PickInForce, result)
         ELSE IF single # None THEN [Fresh EXCEPT !.pc = "wait", !.on = single]
         ELSE [Fresh EXCEPT !.pc = "versions", !.floor = version]]
    /\ single' = IF result = None /\ single = None THEN c ELSE single
    /\ UNCHANGED <<version, listed, state, tests, cache, locked, selected, fastNode,
                   result, checking, sets, down>>

\* The kept result grows older than the wait of ten seconds.
Expire ==
    /\ result # None
    /\ result' = None
    /\ UNCHANGED <<version, listed, state, tests, cache, locked, selected, fastNode,
                   single, checking, call, sets, down>>

\* wg.Done: the waiters of the call return its value.
Done(c) ==
    /\ call[c].pc = "made"
    /\ call' = [d \in Callers |->
         IF d = c THEN [call[c] EXCEPT !.pc = "keep"]
         ELSE IF call[d].pc = "wait" /\ call[d].on = c
              THEN Returned(call[d].pick, call[c].val)
         ELSE call[d]]
    /\ UNCHANGED <<version, listed, state, tests, cache, locked, selected, fastNode,
                   single, result, checking, sets, down>>

\* The end of Do: keep the value, unless a Reset came meanwhile.
Return(c) == call' = [call EXCEPT ![c] = Returned(call[c].pick, call[c].val)]

\* Mutant: the value is kept whatever happened while fn ran.
KeepAlways(c) ==
    /\ call[c].pc = "keep"
    /\ single' = None
    /\ result' = call[c].val
    /\ Return(c)
    /\ UNCHANGED <<version, listed, state, tests, cache, locked, selected, fastNode,
                   checking, sets, down>>

Keep(c) ==
    /\ call[c].pc = "keep"
    /\ IF single = c THEN single' = None /\ result' = call[c].val
                     ELSE UNCHANGED <<single, result>>
    /\ Return(c)
    /\ UNCHANGED <<version, listed, state, tests, cache, locked, selected, fastNode,
                   checking, sets, down>>

---------------------------------------------------------------------------
\* GetProxies.

\* pd.Version(), one provider after the other, with no lock over them.
ReadVersion(c) ==
    LET k == Len(call[c].vers) + 1
    IN  /\ call[c].pc = "versions"
        /\ call' = [call EXCEPT ![c].vers = Append(@, version[k]),
                                ![c].pc = IF k = Providers THEN "lock" ELSE @]
        /\ UNCHANGED <<version, listed, state, tests, cache, locked, selected,
                       fastNode, single, result, checking, sets, down>>

\* The cached list when no version changed; otherwise build one.
Compare(c) ==
    /\ call[c].pc = "lock"
    /\ locked = None
    /\ IF call[c].vers = cache.vers
       THEN /\ call' = [call EXCEPT ![c].pc = "got", ![c].vers = <<>>,
                                    ![c].list = cache.list]
            /\ UNCHANGED locked
       ELSE /\ call' = [call EXCEPT ![c].pc = "build"]
            /\ locked' = c
    /\ UNCHANGED <<version, listed, state, tests, cache, selected, fastNode, single,
                   result, checking, sets, down>>

\* pd.Proxies(), one provider after the other.
ReadProxies(c) ==
    LET k == Len(call[c].list) + 1
    IN  /\ call[c].pc = "build"
        /\ call' = [call EXCEPT ![c].list = Append(@, version[k]),
                                ![c].pc = IF k = Providers THEN "store" ELSE @]
        /\ UNCHANGED <<version, listed, state, tests, cache, locked, selected,
                       fastNode, single, result, checking, sets, down>>

\* Mutant: the versions recorded are read again when the list is stored.
StoreListLate(c) ==
    /\ call[c].pc = "store"
    /\ cache' = IF Proxies(call[c].list) = <<Fallback>> THEN cache
                ELSE [vers |-> [p \in Pids |-> version[p]],
                      list |-> call[c].list]
    /\ locked' = None
    /\ call' = [call EXCEPT ![c].pc = "got", ![c].vers = <<>>]
    /\ UNCHANGED <<version, listed, state, tests, selected, fastNode, single, result,
                   checking, sets, down>>

\* The end of GetProxies: an empty list is not cached.
StoreList(c) ==
    /\ call[c].pc = "store"
    /\ cache' = IF Proxies(call[c].list) = <<Fallback>> THEN cache
                ELSE [vers |-> call[c].vers, list |-> call[c].list]
    /\ locked' = None
    /\ call' = [call EXCEPT ![c].pc = "got", ![c].vers = <<>>]
    /\ UNCHANGED <<version, listed, state, tests, selected, fastNode, single, result,
                   checking, sets, down>>

---------------------------------------------------------------------------
\* URLTest.fast: the choice.

\* The first of the proxies with the least delay.
Fastest(list) ==
    LET ps == Proxies(list)
        Least(i) == \A j \in DOMAIN ps :
            \/ LastDelayForTestUrl(ps[i]) < LastDelayForTestUrl(ps[j])
            \/ /\ LastDelayForTestUrl(ps[i]) = LastDelayForTestUrl(ps[j])
               /\ i <= j
    IN  ps[CHOOSE i \in DOMAIN ps : Least(i)]

\* fastNotExist: the loop compares names, and starts at the second proxy.
FastExists(list) ==
    LET ps == Proxies(list)
    IN  \E i \in DOMAIN ps \ {1} : ps[i].name = fastNode.name

\* The tolerance test leaves fastNode where it is; the sum is a uint16.
StaysFast(list) ==
    /\ fastNode # None
    /\ FastExists(list)
    /\ AliveForTestUrl(fastNode)
    /\ LastDelayForTestUrl(fastNode)
         <= (LastDelayForTestUrl(Fastest(list)) + Tolerance) % (MaxDelay + 1)

\* The selected node, when it is in the list and alive.
SelectedIn(list) ==
    LET ps == Proxies(list)
    IN  {ps[i] : i \in {j \in DOMAIN ps :
            selected # None /\ ps[j].name = selected /\ AliveForTestUrl(ps[j])}}

\* What is left of a call once the list has been used.
Chosen(c, pc, o) == [Idle EXCEPT !.pc = pc, !.val = o, !.pick = call[c].pick]

\* fn of fast: the selected node is the value; otherwise fastNode is settled
\* and, in a later step, read back.
Choose(c) ==
    /\ call[c].pc = "got" /\ call[c].name = None
    /\ IF SelectedIn(call[c].list) # {}
       THEN \E o \in SelectedIn(call[c].list) :
                /\ fastNode' = o
                /\ call' = [call EXCEPT ![c] = Chosen(c, "made", o)]
       ELSE /\ fastNode' = IF StaysFast(call[c].list) THEN fastNode
                           ELSE Fastest(call[c].list)
            /\ call' = [call EXCEPT ![c] = Chosen(c, "settled", Fallback)]
    /\ UNCHANGED <<version, listed, state, tests, cache, locked, selected, single,
                   result, checking, sets, down>>

\* return u.fastNode.
ReadBack(c) ==
    /\ call[c].pc = "settled"
    /\ call' = [call EXCEPT ![c].pc = "made", ![c].val = fastNode]
    /\ UNCHANGED <<version, listed, state, tests, cache, locked, selected, fastNode,
                   single, result, checking, sets, down>>

---------------------------------------------------------------------------
\* Set, ForceSet and healthCheck.

\* Set looks the name up in the group's list first.
Set(c, n) ==
    /\ call[c].pc = "idle"
    /\ sets < MaxSets
    /\ sets' = sets + 1
    /\ call' = [call EXCEPT ![c] =
                  [Idle EXCEPT !.pc = "versions", !.name = n, !.floor = version]]
    /\ UNCHANGED <<version, listed, state, tests, cache, locked, selected, fastNode,
                   single, result, checking, down>>

\* The write of ForceSet: from here on no call has to honour the old pick.
Write(c, n) ==
    /\ selected' = n
    /\ call' = [d \in Callers |-> IF d = c THEN [Idle EXCEPT !.pc = "reset"]
                                  ELSE [call[d] EXCEPT !.pick = None]]

\* Set found the list: an unknown name is an error.
ForceSet(c) ==
    LET ps == Proxies(call[c].list)
    IN  /\ call[c].pc = "got" /\ call[c].name # None
        /\ IF \E i \in DOMAIN ps : ps[i].name = call[c].name
           THEN Write(c, call[c].name)
           ELSE call' = [call EXCEPT ![c] = Idle] /\ UNCHANGED selected
        /\ UNCHANGED <<version, listed, state, tests, cache, locked, fastNode, single,
                       result, checking, sets, down>>

\* ForceSet(""), the API's way back to the automatic choice.
Unset(c) ==
    /\ call[c].pc = "idle"
    /\ sets < MaxSets
    /\ sets' = sets + 1
    /\ Write(c, None)
    /\ UNCHANGED <<version, listed, state, tests, cache, locked, fastNode, single,
                   result, checking, down>>

\* The Reset that ends ForceSet.
Reset(c) ==
    /\ call[c].pc = "reset"
    /\ ResetSingle
    /\ call' = [call EXCEPT ![c] = Idle]
    /\ UNCHANGED <<version, listed, state, tests, cache, locked, selected, fastNode,
                   checking, sets, down>>

\* URLTest.healthCheck, with its Reset before the checks and after them.
HealthCheck ==
    /\ checking' = ~checking
    /\ ResetSingle
    /\ UNCHANGED <<version, listed, state, tests, cache, locked, selected, fastNode,
                   call, sets, down>>

---------------------------------------------------------------------------
Next ==
    \/ \E p \in Pids, names \in Contents : Update(p, names)
    \/ \E n \in Names, d \in Delays \cup {0} : URLTest(n, d)
    \/ \E c \in Callers :
         \/ Do(c) \/ Done(c) \/ Keep(c)
         \/ ReadVersion(c) \/ Compare(c) \/ ReadProxies(c) \/ StoreList(c)
         \/ Choose(c) \/ ReadBack(c)
         \/ ForceSet(c) \/ Unset(c) \/ Reset(c)
         \/ \E n \in Names : Set(c, n)
    \/ Expire
    \/ HealthCheck

Spec == Init /\ [][Next]_vars

---------------------------------------------------------------------------
\* The list GetProxies returns is, for every provider, at least as new as
\* the provider was when the call began: versions are read before the lock
\* and the proxies after it, so a provider update between the two, or a
\* slower caller that stores its list last, never pins an old list.
FreshList ==
    \A c \in Callers : call[c].pc = "got" =>
        \A p \in Pids : call[c].list[p] >= call[c].floor[p]

\* A call of fast that begins after Set or ForceSet returned returns the
\* node that was set, as long as no test found it dead and no update dropped
\* it: a computation from before the Reset can be neither kept nor joined
\* afterwards.
PickHonoured ==
    \A c \in Callers :
        call[c].pc = "idle" /\ call[c].pick \notin {None} \cup down
            => call[c].val.name = call[c].pick
============================================================================
