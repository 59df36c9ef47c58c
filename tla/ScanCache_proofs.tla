-------------------------- MODULE ScanCache_proofs --------------------------
(***************************************************************************)
(* The cache's promises for any step threads and any keys.                 *)
(***************************************************************************)
EXTENDS ScanCache, TLAPS

\* Connections change nothing but what was dialled: by the record, by a lookup where there is
\* none, or by name.
LEMMA Dials ==
  ASSUME NEW t \in Callers, Connect(t) \/ ConnectByName(t)
  PROVE  /\ UNCHANGED <<cache, address, dns>>
         /\ \E c \in Connection :
               /\ dialled' = dialled \cup {c}
               /\ \/ c.via = "lookup" /\ address = {} /\ dns # "running"
                  \/ c.via = "record" /\ c.to \in address /\ dns # "running"
                  \/ c.via = "name"
<1>1. CASE Connect(t)
  <2>1. PICK a \in Addresses :
            IF address = {} THEN Dial([via |-> "lookup", to |-> a])
                            ELSE a \in address /\ Dial([via |-> "record", to |-> a])
    BY <1>1 DEF Connect
  <2>2. [via |-> "lookup", to |-> a] \in Connection /\ [via |-> "record", to |-> a] \in Connection
    BY DEF Connection
  <2>3. dns # "running"
    BY <1>1 DEF Connect, AfterDns
  <2>4. CASE address = {}
    BY <2>1, <2>2, <2>3, <2>4 DEF Dial
  <2>5. CASE address # {}
    BY <2>1, <2>2, <2>3, <2>5 DEF Dial
  <2>. QED
    BY <2>4, <2>5
<1>2. CASE ConnectByName(t)
  <2>1. PICK a \in Addresses : Dial([via |-> "name", to |-> a])
    BY <1>2 DEF ConnectByName
  <2>2. [via |-> "name", to |-> a] \in Connection
    BY DEF Connection
  <2>. QED
    BY <2>1, <2>2 DEF Dial
<1>. QED
  BY <1>1, <1>2

\* Types are kept.
LEMMA TypeNext == TypeOK /\ [Next]_vars => TypeOK'
<1> SUFFICES ASSUME TypeOK, [Next]_vars PROVE TypeOK'
  OBVIOUS
<1> USE CacheAssumption DEF TypeOK, Value
<1>1. ASSUME NEW t \in Callers, NEW k \in Keys, Ask(t, k) PROVE TypeOK'
  BY <1>1 DEF Ask, Goto, resolution
<1>2. ASSUME Set PROVE TypeOK'
  BY <1>2 DEF Set, cache
<1>3. ASSUME NEW t \in Callers, TakeLock(t) PROVE TypeOK'
  BY <1>3 DEF TakeLock, LockFree, Goto, resolution
<1>4. ASSUME NEW t \in Callers, LookAgain(t) PROVE TypeOK'
  BY <1>4 DEF LookAgain, Found, Goto, resolution
<1>5. ASSUME NEW t \in Callers, Computes(t) PROVE TypeOK'
  BY <1>5 DEF Computes, Goto, resolution
<1>6. ASSUME NEW t \in Callers, Fails(t) PROVE TypeOK'
  BY <1>6 DEF Fails, Goto, resolution
<1>7. ASSUME NEW t \in Callers, Store(t) PROVE TypeOK'
  BY <1>7 DEF Store, CacheIf, Goto, resolution
<1>8. ASSUME NEW t \in Callers, Leave(t) PROVE TypeOK'
  BY <1>8 DEF Leave, Released, Goto, resolution
<1>9. CASE UNCHANGED vars
  BY <1>9 DEF vars, cache, resolution
<1>10. ASSUME NEW verdict \in {"finished", "abandoned"}, DnsOver(verdict) PROVE TypeOK'
  BY <1>10 DEF DnsOver, cache
<1>11. ASSUME NEW t \in Callers, Connect(t) \/ ConnectByName(t) PROVE TypeOK'
  <2>1. UNCHANGED <<cache, address, dns>>
    BY <1>11, Dials
  <2>2. dialled' \in SUBSET Connection
    BY <1>11, Dials, Zenon DEF TypeOK
  <2>. QED
    BY <2>1, <2>2 DEF cache
<1>12. CASE \E t \in Callers : InCall(t) \/ Connect(t) \/ ConnectByName(t) \/ \E k \in Keys : Ask(t, k)
  BY <1>1, <1>3, <1>4, <1>5, <1>6, <1>7, <1>8, <1>11, <1>12 DEF InCall
<1>. QED
  BY <1>2, <1>9, <1>10, <1>12 DEF Next

\* The lock is taken when free and released by its holder.
LEMMA LockNext == TypeOK /\ LockHeld /\ [Next]_vars => LockHeld'
<1> SUFFICES ASSUME TypeOK, LockHeld, [Next]_vars PROVE LockHeld'
  OBVIOUS
<1> USE CacheAssumption DEF TypeOK, LockHeld, Inside
<1>1. ASSUME NEW t \in Callers, NEW k \in Keys, Ask(t, k) PROVE LockHeld'
  BY <1>1 DEF Ask, Goto, resolution
<1>2. ASSUME Set PROVE LockHeld'
  BY <1>2 DEF Set, cache
<1>3. ASSUME NEW t \in Callers, TakeLock(t) PROVE LockHeld'
  BY <1>3 DEF TakeLock, LockFree, Goto, resolution
<1>4. ASSUME NEW t \in Callers, LookAgain(t) PROVE LockHeld'
  BY <1>4 DEF LookAgain, Found, Goto, resolution
<1>5. ASSUME NEW t \in Callers, Computes(t) PROVE LockHeld'
  BY <1>5 DEF Computes, Goto, resolution
<1>6. ASSUME NEW t \in Callers, Fails(t) PROVE LockHeld'
  BY <1>6 DEF Fails, Goto, resolution
<1>7. ASSUME NEW t \in Callers, Store(t) PROVE LockHeld'
  BY <1>7 DEF Store, CacheIf, Goto, resolution
<1>8. ASSUME NEW t \in Callers, Leave(t) PROVE LockHeld'
  BY <1>8 DEF Leave, Released, Goto, resolution
<1>9. CASE UNCHANGED vars
  BY <1>9 DEF vars, cache, resolution
<1>10. ASSUME NEW verdict \in {"finished", "abandoned"}, DnsOver(verdict) PROVE LockHeld'
  BY <1>10 DEF DnsOver, cache
<1>11. ASSUME NEW t \in Callers, Connect(t) \/ ConnectByName(t) PROVE LockHeld'
  BY <1>11, Dials DEF cache
<1>12. CASE \E t \in Callers : InCall(t) \/ Connect(t) \/ ConnectByName(t) \/ \E k \in Keys : Ask(t, k)
  BY <1>1, <1>3, <1>4, <1>5, <1>6, <1>7, <1>8, <1>11, <1>12 DEF InCall
<1>. QED
  BY <1>2, <1>9, <1>10, <1>12 DEF Next

\* One thread at a time is inside, and it looked again before computing.
LEMMA FlightNext == TypeOK /\ LockHeld /\ SingleFlight /\ [Next]_vars => SingleFlight'
<1> SUFFICES ASSUME TypeOK, LockHeld, SingleFlight, [Next]_vars PROVE SingleFlight'
  OBVIOUS
<1> USE CacheAssumption DEF TypeOK, LockHeld, SingleFlight, Inside
<1>1. ASSUME NEW t \in Callers, NEW k \in Keys, Ask(t, k) PROVE SingleFlight'
  BY <1>1 DEF Ask, Goto, resolution
<1>2. ASSUME Set PROVE SingleFlight'
  BY <1>2 DEF Set, cache
<1>3. ASSUME NEW t \in Callers, TakeLock(t) PROVE SingleFlight'
  BY <1>3 DEF TakeLock, LockFree, Goto, resolution
<1>4. ASSUME NEW t \in Callers, LookAgain(t) PROVE SingleFlight'
  BY <1>4 DEF LookAgain, Found, Goto, resolution
<1>5. ASSUME NEW t \in Callers, Computes(t) PROVE SingleFlight'
  BY <1>5 DEF Computes, Goto, resolution
<1>6. ASSUME NEW t \in Callers, Fails(t) PROVE SingleFlight'
  BY <1>6 DEF Fails, Goto, resolution
<1>7. ASSUME NEW t \in Callers, Store(t) PROVE SingleFlight'
  BY <1>7 DEF Store, CacheIf, Goto, resolution
<1>8. ASSUME NEW t \in Callers, Leave(t) PROVE SingleFlight'
  BY <1>8 DEF Leave, Released, Goto, resolution
<1>9. CASE UNCHANGED vars
  BY <1>9 DEF vars, cache, resolution
<1>10. ASSUME NEW verdict \in {"finished", "abandoned"}, DnsOver(verdict) PROVE SingleFlight'
  BY <1>10 DEF DnsOver, cache
<1>11. ASSUME NEW t \in Callers, Connect(t) \/ ConnectByName(t) PROVE SingleFlight'
  BY <1>11, Dials DEF cache
<1>12. CASE \E t \in Callers : InCall(t) \/ Connect(t) \/ ConnectByName(t) \/ \E k \in Keys : Ask(t, k)
  BY <1>1, <1>3, <1>4, <1>5, <1>6, <1>7, <1>8, <1>11, <1>12 DEF InCall
<1>. QED
  BY <1>2, <1>9, <1>10, <1>12 DEF Next

\* Only fit values are stored.
LEMMA FitNext == TypeOK /\ GivenIsStored /\ OnlyFitStored /\ [Next]_vars => OnlyFitStored'
<1> SUFFICES ASSUME TypeOK, GivenIsStored, OnlyFitStored, [Next]_vars PROVE OnlyFitStored'
  OBVIOUS
<1> USE CacheAssumption DEF TypeOK, GivenIsStored, OnlyFitStored, Value
<1>1. ASSUME NEW t \in Callers, NEW k \in Keys, Ask(t, k) PROVE OnlyFitStored'
  BY <1>1 DEF Ask, Goto, resolution
<1>2. ASSUME Set PROVE OnlyFitStored'
  BY <1>2 DEF Set, cache
<1>3. ASSUME NEW t \in Callers, TakeLock(t) PROVE OnlyFitStored'
  BY <1>3 DEF TakeLock, LockFree, Goto, resolution
<1>4. ASSUME NEW t \in Callers, LookAgain(t) PROVE OnlyFitStored'
  BY <1>4 DEF LookAgain, Found, Goto, resolution
<1>5. ASSUME NEW t \in Callers, Computes(t) PROVE OnlyFitStored'
  BY <1>5 DEF Computes, Goto, resolution
<1>6. ASSUME NEW t \in Callers, Fails(t) PROVE OnlyFitStored'
  BY <1>6 DEF Fails, Goto, resolution
<1>7. ASSUME NEW t \in Callers, Store(t) PROVE OnlyFitStored'
  BY <1>7 DEF Store, CacheIf, Goto, resolution
<1>8. ASSUME NEW t \in Callers, Leave(t) PROVE OnlyFitStored'
  BY <1>8 DEF Leave, Released, Goto, resolution
<1>9. CASE UNCHANGED vars
  BY <1>9 DEF vars, cache, resolution
<1>10. ASSUME NEW verdict \in {"finished", "abandoned"}, DnsOver(verdict) PROVE OnlyFitStored'
  BY <1>10 DEF DnsOver, cache
<1>11. ASSUME NEW t \in Callers, Connect(t) \/ ConnectByName(t) PROVE OnlyFitStored'
  BY <1>11, Dials DEF cache
<1>12. CASE \E t \in Callers : InCall(t) \/ Connect(t) \/ ConnectByName(t) \/ \E k \in Keys : Ask(t, k)
  BY <1>1, <1>3, <1>4, <1>5, <1>6, <1>7, <1>8, <1>11, <1>12 DEF InCall
<1>. QED
  BY <1>2, <1>9, <1>10, <1>12 DEF Next

\* Nothing stored is replaced, so what was given stays stored.
LEMMA GivenNext == TypeOK /\ SingleFlight /\ OnlyFitStored /\ GivenIsStored /\ [Next]_vars => GivenIsStored'
<1> SUFFICES ASSUME TypeOK, SingleFlight, OnlyFitStored, GivenIsStored, [Next]_vars PROVE GivenIsStored'
  OBVIOUS
<1> USE CacheAssumption DEF TypeOK, SingleFlight, OnlyFitStored, GivenIsStored, Value
<1>1. ASSUME NEW t \in Callers, NEW k \in Keys, Ask(t, k) PROVE GivenIsStored'
  BY <1>1 DEF Ask, Goto, resolution
<1>2. ASSUME Set PROVE GivenIsStored'
  BY <1>2 DEF Set, cache
<1>3. ASSUME NEW t \in Callers, TakeLock(t) PROVE GivenIsStored'
  BY <1>3 DEF TakeLock, LockFree, Goto, resolution
<1>4. ASSUME NEW t \in Callers, LookAgain(t) PROVE GivenIsStored'
  BY <1>4 DEF LookAgain, Found, Goto, resolution
<1>5. ASSUME NEW t \in Callers, Computes(t) PROVE GivenIsStored'
  BY <1>5 DEF Computes, Goto, resolution
<1>6. ASSUME NEW t \in Callers, Fails(t) PROVE GivenIsStored'
  BY <1>6 DEF Fails, Goto, resolution
<1>7. ASSUME NEW t \in Callers, Store(t) PROVE GivenIsStored'
  BY <1>7 DEF Store, CacheIf, Goto, resolution
<1>8. ASSUME NEW t \in Callers, Leave(t) PROVE GivenIsStored'
  BY <1>8 DEF Leave, Released, Goto, resolution
<1>9. CASE UNCHANGED vars
  BY <1>9 DEF vars, cache, resolution
<1>10. ASSUME NEW verdict \in {"finished", "abandoned"}, DnsOver(verdict) PROVE GivenIsStored'
  BY <1>10 DEF DnsOver, cache
<1>11. ASSUME NEW t \in Callers, Connect(t) \/ ConnectByName(t) PROVE GivenIsStored'
  BY <1>11, Dials DEF cache
<1>12. CASE \E t \in Callers : InCall(t) \/ Connect(t) \/ ConnectByName(t) \/ \E k \in Keys : Ask(t, k)
  BY <1>1, <1>3, <1>4, <1>5, <1>6, <1>7, <1>8, <1>11, <1>12 DEF InCall
<1>. QED
  BY <1>2, <1>9, <1>10, <1>12 DEF Next

\* What connections went to agrees with the record.
LEMMA DialNext == TypeOK /\ DialledRecorded /\ [Next]_vars => DialledRecorded'
<1> SUFFICES ASSUME TypeOK, DialledRecorded, [Next]_vars PROVE DialledRecorded'
  OBVIOUS
<1> USE DEF DialledRecorded, Reusing
<1>1. CASE Set
  BY <1>1 DEF Set
<1>2. ASSUME NEW verdict \in {"finished", "abandoned"}, DnsOver(verdict) PROVE DialledRecorded'
  BY <1>2 DEF DnsOver
<1>3. ASSUME NEW t \in Callers, Connect(t) \/ ConnectByName(t) PROVE DialledRecorded'
  <2>1. UNCHANGED <<address, dns>>
    BY <1>3, Dials
  <2>2. PICK c \in Connection :
            /\ dialled' = dialled \cup {c}
            /\ \/ c.via = "lookup" /\ address = {} /\ dns # "running"
               \/ c.via = "record" /\ c.to \in address /\ dns # "running"
               \/ c.via = "name"
    BY <1>3, Dials
  <2>3. c.via = "record" => address = {c.to}
    BY <2>2
  <2>. QED
    BY <2>1, <2>2, <2>3
<1>4. ASSUME NEW t \in Callers, InCall(t) \/ \E k \in Keys : Ask(t, k) PROVE DialledRecorded'
  BY <1>4 DEF InCall, TakeLock, LookAgain, Computes, Fails, Store, Leave, Ask, resolution
<1>5. CASE UNCHANGED vars
  BY <1>5 DEF vars, resolution
<1>. QED
  BY <1>1, <1>2, <1>3, <1>4, <1>5 DEF Next

\* The invariant holds initially.
LEMMA CacheInit == Init => IInv
<1> SUFFICES ASSUME Init PROVE IInv
  OBVIOUS
<1> USE CacheAssumption DEF Init
<1>0. NoValue \in Value /\ NoValue.key \in Keys
  BY DEF NoValue, Value
<1>1. TypeOK
  BY <1>0 DEF TypeOK
<1>2. SingleFlight /\ LockHeld
  BY DEF SingleFlight, LockHeld, Inside
<1>3. OnlyFitStored
  BY DEF OnlyFitStored
<1>4. GivenIsStored
  BY DEF GivenIsStored
<1>5. DialledRecorded
  BY DEF DialledRecorded, Reusing
<1>. QED
  BY <1>1, <1>2, <1>3, <1>4, <1>5 DEF IInv

\* IInv is inductive.
LEMMA CacheInvariant == Spec => []IInv
<1>1. IInv /\ [Next]_vars => IInv'
  BY TypeNext, LockNext, FlightNext, FitNext, GivenNext, DialNext DEF IInv
<1>. QED
  BY CacheInit, <1>1, PTL DEF Spec

\* Concurrent callers of a key wait for one computation, and nobody computes a stored value.
THEOREM OneComputation == Spec => []SingleFlight
<1>1. IInv => SingleFlight
  BY DEF IInv
<1>. QED
  BY CacheInvariant, <1>1, PTL

\* Only values that cache_if accepts are reused, for the key they were made for.
THEOREM OnlyFitReused == Spec => []OnlyFitStored
<1>1. IInv => OnlyFitStored
  BY DEF IInv
<1>. QED
  BY CacheInvariant, <1>1, PTL

\* All callers given a value worth keeping for a key were given the same one.
THEOREM AllCallersAgree == Spec => []CallersAgree
<1>1. IInv => CallersAgree
  <2> SUFFICES ASSUME IInv, NEW t \in Callers, NEW u \in Callers,
                      NEW v \in got[t], NEW w \in got[u], v.fit, w.fit, v.key = w.key
               PROVE  v = w
    BY DEF CallersAgree
  <2>. QED
    BY DEF IInv, GivenIsStored
<1>. QED
  BY CacheInvariant, <1>1, PTL

\* Neither a kept value nor the target's address is replaced during the scan.
THEOREM KeptForTheScan == Spec => NeverReplaced
<1> DEFINE Kept == /\ \A k \in Keys : values[k] # {} => values'[k] = values[k]
                   /\ address # {} => address' = address
<1>1. IInv /\ [Next]_vars => [Kept]_vars
  <2> SUFFICES ASSUME IInv, Next PROVE Kept
    BY DEF vars
  <2>1. ASSUME NEW t \in Callers, Store(t) PROVE Kept
    <3>1. values[key[t]] = {}
      BY <2>1 DEF IInv, SingleFlight, Store
    <3>. QED
      BY <2>1, <3>1 DEF Store, IInv, TypeOK, resolution
  <2>2. CASE Set
    BY <2>2 DEF Set, cache
  <2>3. ASSUME NEW t \in Callers,
               (\E j \in Keys : Ask(t, j)) \/ TakeLock(t) \/ LookAgain(t) \/ Computes(t)
                  \/ Fails(t) \/ Leave(t)
        PROVE  Kept
    BY <2>3 DEF Ask, TakeLock, LookAgain, Computes, Fails, Leave, resolution
  <2>4. ASSUME NEW verdict \in {"finished", "abandoned"}, DnsOver(verdict) PROVE Kept
    BY <2>4 DEF DnsOver, cache
  <2>5. ASSUME NEW t \in Callers, Connect(t) \/ ConnectByName(t) PROVE Kept
    BY <2>5, Dials DEF cache
  <2>. QED
    BY <2>1, <2>2, <2>3, <2>4, <2>5 DEF Next, InCall
<1>. QED
  BY CacheInvariant, <1>1, PTL DEF Spec, NeverReplaced

\* Two connections that reuse the address go to different ones only in a scan that has none, or
\* if one of them looked the name up in a scan whose DNS step was given up: a finished DNS step
\* has recorded before, or never will.
THEOREM ReusersAgree == Spec => []ReuseAgreed
<1>1. IInv => ReuseAgreed
  <2> SUFFICES ASSUME IInv, NEW c \in Reusing, NEW d \in Reusing,
                      address # {}, ~ (dns = "abandoned" /\ "lookup" \in {c.via, d.via})
               PROVE  c.to = d.to
    BY DEF ReuseAgreed
  <2>1. \A e \in Reusing : e.via = "record" => address = {e.to}
    BY DEF IInv, DialledRecorded, Reusing
  <2>2. \A e \in Reusing : e.via = "record" \/ e.via = "lookup"
    BY DEF IInv, TypeOK, Connection, Reusing
  <2>3. \A e \in Reusing : e.via = "lookup" => dns = "abandoned"
    BY DEF IInv, DialledRecorded, Reusing
  <2>4. address = {c.to} /\ address = {d.to}
    BY <2>1, <2>2, <2>3
  <2>. QED
    BY <2>4
<1>. QED
  BY CacheInvariant, <1>1, PTL

\* A thread that waits for its key's lock finds it free, or held by another thread in a call of the
\* same key; that one waits for no lock, so no two threads ever wait for each other, and all
\* CallsReturn needs besides is that a computation ends and threads take turns.
THEOREM NoCircularWait == Spec => []WaitsForOwnKey
<1>1. IInv => WaitsForOwnKey
  <2> SUFFICES ASSUME IInv, NEW t \in Callers, pc[t] = "waiting", ~LockFree(key[t])
               PROVE  \E u \in Callers \ {t} :
                         owner[key[t]] = u /\ Inside(u) /\ key[u] = key[t]
    BY DEF WaitsForOwnKey
  <2>1. key[t] \in Keys /\ owner[key[t]] \in Callers
    BY DEF IInv, TypeOK, LockFree
  <2>2. Inside(owner[key[t]]) /\ key[owner[key[t]]] = key[t]
    BY <2>1 DEF IInv, LockHeld, LockFree
  <2>3. owner[key[t]] # t
    BY <2>2 DEF Inside
  <2>. QED
    BY <2>1, <2>2, <2>3
<1>. QED
  BY CacheInvariant, <1>1, PTL
=============================================================================
