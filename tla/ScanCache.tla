------------------------------ MODULE ScanCache ------------------------------
(***************************************************************************)
(* The cache of one scan (netdiag/utils/execution.py): get_or_compute with *)
(* one computation per key at a time, and the resolved address: the DNS    *)
(* step records it (remember_resolution), the steps after it ask for it as *)
(* they connect (connect_host), and others connect by name on purpose.     *)
(* Whoever connects by name resolves it again, to any address it has.      *)
(* Each section under the cache's lock is one action; the key locks are    *)
(* held across actions.  An abandoned step's thread is a caller like any   *)
(* other, and its computation may hang.                                    *)
(***************************************************************************)
EXTENDS Naturals, FiniteSets

CONSTANTS
    Callers,    \* the threads of the other steps
    Keys,       \* keys asked through get_or_compute
    Addresses,  \* what the target's name may resolve to, whenever it is asked
    Hanging,    \* the keys whose computation may never end
    MaxCalls,   \* bound on the get_or_compute calls of one thread
    MaxDialled, \* bound on the different connections of a scan
    Nobody      \* no owner of a key lock

ASSUME CacheAssumption ==
    /\ Keys # {} /\ Hanging \subseteq Keys
    /\ MaxCalls \in Nat /\ MaxDialled \in Nat /\ Nobody \notin Callers

VARIABLES
    values,    \* _values: the set of values stored for each key, empty or a singleton
    owner,     \* _key_locks: the thread holding each key's lock
    pc, key,   \* per caller: where it is, and for which key
    made,      \* per caller: the value its computation made
    got,       \* per caller: what its last call returned
    calls,     \* per caller: how many calls it has made
    computed,  \* how many computations each key has had
    address,   \* the target's resolution in _values, {} or one address
    dns,       \* the DNS step: "running", "finished", "abandoned", or "none" in the plan
    dialled    \* the connections of the steps: how each came by its address, and which

cache      == <<values, owner, pc, key, made, got, calls, computed>>
resolution == <<address, dns, dialled>>
vars       == <<cache, resolution>>

\* A value is told apart by its key and by the computation that made it; cache_if keeps the
\* fit ones.
Value == [key : Keys, nr : Nat, fit : BOOLEAN]
NoValue == [key |-> CHOOSE k \in Keys : TRUE, nr |-> 0, fit |-> FALSE]

\* Through connect_host, which found a record or none, or past it.
Connection == [via : {"record", "lookup", "name"}, to : Addresses]

Init ==
    /\ values = [k \in Keys |-> {}]
    /\ owner = [k \in Keys |-> Nobody]
    /\ pc = [t \in Callers |-> "idle"]
    /\ key \in [Callers -> {NoValue.key}]
    /\ made = [t \in Callers |-> NoValue]
    /\ got = [t \in Callers |-> {}]
    /\ calls = [t \in Callers |-> 0]
    /\ computed = [k \in Keys |-> 0]
    /\ address = {} /\ dns \in {"running", "none"} /\ dialled = {}

Goto(t, where) == pc' = [pc EXCEPT ![t] = where]

-----------------------------------------------------------------------------
(* get_or_compute *)

\* The first look: a stored value is returned at once, without the key's lock.
Ask(t, k) ==
    /\ pc[t] = "idle" /\ calls[t] < MaxCalls
    /\ calls' = [calls EXCEPT ![t] = @ + 1]
    /\ key' = [key EXCEPT ![t] = k]
    /\ got' = [got EXCEPT ![t] = values[k]]
    /\ Goto(t, IF values[k] = {} THEN "waiting" ELSE "idle")
    /\ UNCHANGED <<values, owner, made, computed, resolution>>

ALockPerCall(k) == TRUE                                               \* mutant
OneLockForAll(k) == \A j \in Keys : owner[j] = Nobody                 \* mutant

LockFree(k) == owner[k] = Nobody

TakeLock(t) ==
    /\ pc[t] = "waiting"
    /\ LockFree(key[t])
    /\ owner' = [owner EXCEPT ![key[t]] = t]
    /\ Goto(t, "holding")
    /\ UNCHANGED <<values, key, made, got, calls, computed, resolution>>

NothingFound(t) == {}                                                 \* mutant

Found(t) == values[key[t]]

\* The second look, under the key's lock.
LookAgain(t) ==
    /\ pc[t] = "holding"
    /\ got' = [got EXCEPT ![t] = Found(t)]
    /\ Goto(t, IF Found(t) = {} THEN "computing" ELSE "leaving")
    /\ UNCHANGED <<values, owner, key, made, calls, computed, resolution>>

\* compute() returns; the thread still has to ask cache_if whether to keep the value.
Computes(t) ==
    /\ pc[t] = "computing"
    /\ computed' = [computed EXCEPT ![key[t]] = @ + 1]
    /\ \E fit \in BOOLEAN :
          made' = [made EXCEPT ![t] = [key |-> key[t], nr |-> computed'[key[t]], fit |-> fit]]
    /\ Goto(t, "made")
    /\ UNCHANGED <<values, owner, key, got, calls, resolution>>

\* compute() raises: nothing is stored, the lock is released, the call has no value.
Fails(t) ==
    /\ pc[t] = "computing"
    /\ Goto(t, "leaving")
    /\ UNCHANGED <<values, owner, key, made, got, calls, computed, resolution>>

CacheIf(t) == made[t].fit

Store(t) ==
    /\ pc[t] = "made"
    /\ values' = IF CacheIf(t) THEN [values EXCEPT ![key[t]] = {made[t]}] ELSE values
    /\ got' = [got EXCEPT ![t] = {made[t]}]
    /\ Goto(t, "leaving")
    /\ UNCHANGED <<owner, key, made, calls, computed, resolution>>

Released(t) == [owner EXCEPT ![key[t]] = Nobody]

Leave(t) ==
    /\ pc[t] = "leaving"
    /\ owner' = Released(t)
    /\ Goto(t, "idle")
    /\ UNCHANGED <<values, key, made, got, calls, computed, resolution>>

-----------------------------------------------------------------------------
(* The resolved address *)

\* remember_resolution: set, under the cache's lock only; resolve_hostname calls it at most
\* once, as late as it likes.
Set ==
    /\ dns \in {"running", "abandoned"} /\ address = {}
    /\ \E a \in Addresses : address' = {a}
    /\ UNCHANGED <<cache, dns, dialled>>

\* The DNS step returns, with an address recorded or without, or the runner gives it up.
DnsOver(verdict) ==
    /\ dns = "running"
    /\ dns' = verdict
    /\ UNCHANGED <<cache, address, dialled>>

AtAnyTime == TRUE                                                     \* mutant

\* The steps that ask for the address come after the DNS step of their plan, if it has one
\* (plans.py; see ScanPlans!WritersFirst).
AfterDns == dns # "running"

Dial(c) ==
    /\ Cardinality(dialled) < MaxDialled
    /\ dialled' = dialled \cup {c}
    /\ UNCHANGED <<cache, address, dns>>

\* connect_host, as a connection is made: to the recorded address, or else to the name, which
\* the system then looks up.
Connect(t) ==
    /\ AfterDns
    /\ pc[t] \in {"idle", "computing"}
    /\ \E a \in Addresses :
          IF address = {} THEN Dial([via |-> "lookup", to |-> a])
                          ELSE a \in address /\ Dial([via |-> "record", to |-> a])

\* https, http_headers and open_resolver do not ask for the record, before and after the DNS
\* step alike; nor do the tools of `netdiag mtu` and `trace`.
ConnectByName(t) ==
    /\ pc[t] = "idle"
    /\ \E a \in Addresses : Dial([via |-> "name", to |-> a])

InCall(t) == TakeLock(t) \/ LookAgain(t) \/ Computes(t) \/ Fails(t) \/ Store(t) \/ Leave(t)

Next ==
    \/ \E t \in Callers : InCall(t) \/ Connect(t) \/ ConnectByName(t) \/ \E k \in Keys : Ask(t, k)
    \/ Set
    \/ \E verdict \in {"finished", "abandoned"} : DnsOver(verdict)

Spec == Init /\ [][Next]_vars

\* A thread in a call goes on with it, except a computation that hangs.  Weak fairness of
\* taking a key's lock is enough because a thread makes a bounded number of calls.
FairSpec ==
    Spec /\ \A t \in Callers :
        WF_vars(InCall(t) /\ (pc[t] = "computing" => key[t] \notin Hanging))

-----------------------------------------------------------------------------
(* Properties *)

TypeOK ==
    /\ values \in [Keys -> SUBSET Value]
    /\ owner \in [Keys -> Callers \cup {Nobody}]
    /\ pc \in [Callers -> {"idle", "waiting", "holding", "computing", "made", "leaving"}]
    /\ key \in [Callers -> Keys]
    /\ made \in [Callers -> Value]
    /\ got \in [Callers -> SUBSET Value]
    /\ calls \in [Callers -> 0..MaxCalls]
    /\ computed \in [Keys -> Nat]
    /\ address \in SUBSET Addresses
    /\ dns \in {"running", "finished", "abandoned", "none"}
    /\ dialled \in SUBSET Connection

Inside(t) == pc[t] \in {"holding", "computing", "made", "leaving"}

\* Concurrent callers of one key wait for one computation: no two threads are between taking
\* and releasing the key's lock, and nobody computes what is stored already.
SingleFlight ==
    /\ \A t, u \in Callers : Inside(t) /\ Inside(u) /\ key[t] = key[u] => t = u
    /\ \A t \in Callers : pc[t] \in {"computing", "made"} => values[key[t]] = {}

\* Only values cache_if accepts are reused: a stored one is fit, made for its own key.
OnlyFitStored ==
    \A k \in Keys : \A v \in values[k] : v.fit /\ v.key = k /\ v.nr \in 1..computed[k]

\* Every caller that was given a value worth keeping was given the same one.
CallersAgree ==
    \A t, u \in Callers : \A v \in got[t], w \in got[u] :
        v.fit /\ w.fit /\ v.key = w.key => v = w

Reusing == {c \in dialled : c.via # "name"}

\* The steps that reuse the resolved address look at one machine, however often the name
\* changes its mind: no two of their connections go to different addresses, unless the scan has
\* no address (no DNS step, or one that found none), or one of them was made by a lookup of its
\* own in a scan whose DNS step was given up and recorded its address afterwards.
ReuseAgreed ==
    \A c, d \in Reusing :
        \/ c.to = d.to
        \/ address = {}
        \/ dns = "abandoned" /\ "lookup" \in {c.via, d.via}

\* Behind it: the address is recorded once, by a DNS step that has not finished; whoever found
\* it went there, and who found none asked before it was there.
DialledRecorded ==
    /\ \A a, b \in address : a = b
    /\ dns = "running" => Reusing = {}
    /\ dns = "none" => address = {}
    /\ \A c \in dialled : /\ c.via = "record" => address = {c.to}
                          /\ c.via = "lookup" => address = {} \/ dns = "abandoned"

\* A key's lock is held by the thread inside, and by no other.
LockHeld ==
    /\ \A t \in Callers : Inside(t) => owner[key[t]] = t
    /\ \A k \in Keys : owner[k] # Nobody => Inside(owner[k]) /\ key[owner[k]] = k

\* Behind CallsReturn: a thread that waits finds its key's lock free, or held by a thread inside a
\* call of the same key, which waits for no lock itself.
WaitsForOwnKey ==
    \A t \in Callers : pc[t] = "waiting" =>
        \/ LockFree(key[t])
        \/ \E u \in Callers \ {t} : owner[key[t]] = u /\ Inside(u) /\ key[u] = key[t]

\* What was made is for the thread's key; whatever fit value a caller was given is stored.
GivenIsStored ==
    /\ \A k \in Keys : \A v, w \in values[k] : v = w
    /\ \A t \in Callers : pc[t] = "made" =>
          made[t].key = key[t] /\ made[t].nr \in 1..computed[key[t]]
    /\ \A t \in Callers : \A v \in got[t] : v.key \in Keys /\ (v.fit => v \in values[v.key])

\* The inductive invariant.
IInv == TypeOK /\ SingleFlight /\ OnlyFitStored /\ LockHeld /\ GivenIsStored /\ DialledRecorded

\* What a step has read from the cache stays true: a kept value is never replaced, nor is the
\* target's address.
NeverReplaced ==
    [][/\ \A k \in Keys : values[k] # {} => values'[k] = values[k]
       /\ address # {} => address' = address]_vars

\* A call returns, after failed and unfit computations too, and a computation that hangs
\* holds up the callers of its own key only.
CallsReturn ==
    \A t \in Callers :
        (pc[t] = "waiting" /\ key[t] \notin Hanging) ~> pc[t] = "idle"
=============================================================================
