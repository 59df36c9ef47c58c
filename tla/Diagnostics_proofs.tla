-------------------------- MODULE Diagnostics_proofs --------------------------
(* What a completed diagnostic reports, whatever is asked of whatever network. *)
EXTENDS Diagnostics, NaturalsInduction, WellFoundedInduction, TLAPS

\* What is called, and that hosts, commands and connections differ.
LEMMA CallsFacts ==
    /\ Diagnostic = {"ping", "traceroute", "gateway", "compare_dns", "wifi", "adapters", "https", "tcp",
                     "mtu"} \cup Pools
    /\ \A f \in Diagnostic : Len(Calls[f]) \in Nat
    /\ Hosts \subseteq Commands /\ "probe" \in Commands /\ "probe" \notin Hosts
    /\ \A f \in {"compare_dns", "https", "tcp", "adapters"} : Calls[f][1] \notin Commands
    /\ \A f \in Diagnostic \ {"mtu", "host_discovery"} : \A i \in 1 .. Len(Calls[f]) :
          Calls[f][i] # "probe" /\ Calls[f][i] \notin Hosts
<1>1. Diagnostic = {"ping", "traceroute", "gateway", "compare_dns", "wifi", "adapters", "https", "tcp",
                    "mtu"} \cup Pools
  BY DEF Diagnostic, Calls, Pools
<1>2. Hosts \subseteq Commands /\ "probe" \in Commands /\ "probe" \notin Hosts
  BY DiagnosticsAssumption DEF Commands, OwnCommands
<1>4. \A f \in {"compare_dns", "https", "tcp", "adapters"} : Calls[f][1] \notin Commands
  <2>1. /\ Calls["compare_dns"][1] = "system" /\ Calls["https"][1] = "https"
        /\ Calls["tcp"][1] = "connect" /\ Calls["adapters"][1] = "psutil"
    BY DEF Calls
  <2>2. ASSUME NEW c \in Connections PROVE c \notin Commands
    <3>1. c \notin Hosts
      BY DiagnosticsAssumption
    <3> QED
      BY <3>1 DEF Commands, OwnCommands, Connections
  <2> QED
    BY <2>1, <2>2 DEF Connections
<1>3. ASSUME NEW f \in Diagnostic
      PROVE  /\ Len(Calls[f]) \in Nat
             /\ \A i \in 1 .. Len(Calls[f]) : Calls[f][i] \in (OwnCommands \cup Connections) \ {"probe"}
  <2>1. CASE f = "ping"
    BY <2>1 DEF Calls, OwnCommands, Connections
  <2>2. CASE f = "traceroute"
    BY <2>2 DEF Calls, OwnCommands, Connections
  <2>3. CASE f = "gateway"
    BY <2>3 DEF Calls, OwnCommands, Connections
  <2>4. CASE f = "compare_dns"
    BY <2>4 DEF Calls, OwnCommands, Connections
  <2>5. CASE f = "wifi"
    BY <2>5 DEF Calls, OwnCommands, Connections
  <2>6. CASE f = "adapters"
    BY <2>6 DEF Calls, OwnCommands, Connections
  <2>7. CASE f = "https"
    BY <2>7 DEF Calls, OwnCommands, Connections
  <2>8. CASE f = "tcp"
    BY <2>8 DEF Calls, OwnCommands, Connections
  <2>9. CASE f \in {"mtu"} \cup Pools
    BY <2>9 DEF Calls, Pools
  <2> QED
    BY <1>1, <2>1, <2>2, <2>3, <2>4, <2>5, <2>6, <2>7, <2>8, <2>9
<1>5. ASSUME NEW f \in Diagnostic \ {"mtu", "host_discovery"}, NEW i \in 1 .. Len(Calls[f])
      PROVE  Calls[f][i] # "probe" /\ Calls[f][i] \notin Hosts
  BY <1>3, DiagnosticsAssumption
<1> QED
  BY <1>1, <1>2, <1>3, <1>4, <1>5

-----------------------------------------------------------------------------
(* Powers of two *)

\* Every set of naturals has a least element.
LEMMA LeastNat ==
  ASSUME NEW T, T \subseteq Nat, T # {}
  PROVE  \E x \in T : \A y \in T : x <= y
<1>1. IsWellFoundedOn(OpToRel(<, Nat), Nat)
  BY NatLessThanWellFounded
<1>2. PICK x \in T : \A y \in T : <<y, x>> \notin OpToRel(<, Nat)
  BY <1>1, WFMin
<1>3. ASSUME NEW y \in T PROVE ~(y < x)
  <2>1. <<y, x>> \in Nat \X Nat
    OBVIOUS
  <2> QED
    BY <1>2, <2>1 DEF OpToRel
<1> QED
  BY <1>3

\* So a set of naturals that holds 0, and the successor of each it holds, holds them all.
LEMMA SetInduction ==
  ASSUME NEW T, T \subseteq Nat, 0 \in T, \A n \in T : n + 1 \in T
  PROVE  \A n \in Nat : n \in T
<1> SUFFICES ASSUME NEW n \in Nat, n \notin T PROVE FALSE
  OBVIOUS
<1>1. PICK m \in Nat \ T : \A k \in Nat \ T : m <= k
  BY LeastNat
<1>2. m - 1 \in Nat /\ m - 1 \in T
  BY <1>1
<1> QED
  BY <1>1, <1>2

\* The function on 0..n that doubles from 1 on.
Doubling(f, n) == f \in [0..n -> Nat] /\ f[0] = 1 /\ \A i \in 1..n : f[i] = 2 * f[i - 1]

\* There is one.
LEMMA DoublingExists == \A n \in Nat : \E f : Doubling(f, n)
<1> DEFINE T == {n \in Nat : \E f : Doubling(f, n)}
<1>1. 0 \in T
  <2> DEFINE f == [i \in 0..0 |-> 1]
  <2>1. f \in [0..0 -> Nat] /\ f[0] = 1 /\ 1..0 = {}
    OBVIOUS
  <2>2. Doubling(f, 0)
    <3> HIDE DEF f
    <3> QED
      BY <2>1 DEF Doubling
  <2> QED
    BY <2>2
<1>2. ASSUME NEW n \in T PROVE n + 1 \in T
  <2>1. PICK f : Doubling(f, n)
    OBVIOUS
  <2> DEFINE g == [i \in 0..(n + 1) |-> IF i <= n THEN f[i] ELSE 2 * f[n]]
  <2>2. g \in [0..(n + 1) -> Nat] /\ g[0] = 1
    BY <2>1 DEF Doubling
  <2>3. ASSUME NEW i \in 1..(n + 1) PROVE g[i] = 2 * g[i - 1]
    <3>1. CASE i = n + 1
      BY <3>1
    <3>2. CASE i <= n
      <4>1. g[i] = f[i] /\ g[i - 1] = f[i - 1] /\ i \in 1..n
        BY <3>2
      <4> QED
        BY <2>1, <4>1 DEF Doubling
    <3> QED
      BY <3>1, <3>2
  <2>4. Doubling(g, n + 1)
    <3> HIDE DEF g
    <3> QED
      BY <2>2, <2>3 DEF Doubling
  <2> QED
    BY <2>4
<1>3. T \subseteq Nat
  OBVIOUS
<1> HIDE DEF T
<1>4. \A n \in Nat : n \in T
  BY <1>1, <1>2, <1>3, SetInduction
<1> QED
  BY <1>4 DEF T

\* Two of them agree as far as both go.
LEMMA DoublingUnique ==
  ASSUME NEW n \in Nat, NEW m \in Nat, NEW f, NEW g, Doubling(f, n), Doubling(g, m)
  PROVE  \A i \in Nat : i <= n /\ i <= m => f[i] = g[i]
<1> DEFINE T == {i \in Nat : i <= n /\ i <= m => f[i] = g[i]}
<1>1. 0 \in T
  BY DEF Doubling
<1>2. ASSUME NEW i \in T PROVE i + 1 \in T
  <2> SUFFICES ASSUME i + 1 <= n, i + 1 <= m PROVE f[i + 1] = g[i + 1]
    OBVIOUS
  <2>1. i + 1 \in 1..n /\ i + 1 \in 1..m /\ (i + 1) - 1 = i /\ f[i] = g[i]
    OBVIOUS
  <2> QED
    BY <2>1 DEF Doubling
<1>3. T \subseteq Nat
  OBVIOUS
<1> HIDE DEF T
<1>4. \A i \in Nat : i \in T
  BY <1>1, <1>2, <1>3, SetInduction
<1> QED
  BY <1>4 DEF T

\* PowerOfTwo doubles from 1 on, without an end.
LEMMA PowersDouble ==
  /\ PowerOfTwo[0] = 1
  /\ \A k \in Nat : PowerOfTwo[k] \in Nat /\ PowerOfTwo[k + 1] = 2 * PowerOfTwo[k]
<1> DEFINE IsPower(P) == P = [k \in Nat |-> IF k = 0 THEN 1 ELSE 2 * P[k - 1]]
           F(n) == CHOOSE f : Doubling(f, n)
           W == [n \in Nat |-> F(n)[n]]
<1>1. \A n \in Nat : Doubling(F(n), n)
  BY DoublingExists
<1> HIDE DEF F
<1>2. W[0] = 1 /\ \A n \in Nat : W[n] \in Nat
  BY <1>1 DEF Doubling
<1>3. ASSUME NEW n \in Nat, n # 0 PROVE W[n] = 2 * W[n - 1]
  <2>1. n - 1 \in Nat /\ n \in 1..n /\ n - 1 <= n
    BY <1>3
  <2>2. F(n)[n] = 2 * F(n)[n - 1]
    BY <1>1, <2>1 DEF Doubling
  <2>3. F(n)[n - 1] = F(n - 1)[n - 1]
    BY <1>1, <2>1, DoublingUnique
  <2> QED
    BY <2>1, <2>2, <2>3
<1>4. IsPower(W)
  <2>1. \A n \in Nat : W[n] = IF n = 0 THEN 1 ELSE 2 * W[n - 1]
    BY <1>2, <1>3
  <2>2. W = [n \in Nat |-> W[n]]
    OBVIOUS
  <2> HIDE DEF W
  <2> QED
    BY <2>1, <2>2
<1> HIDE DEF W
<1>5. IsPower(PowerOfTwo)
  <2>1. PowerOfTwo = CHOOSE P : IsPower(P)
    BY DEF PowerOfTwo
  <2> HIDE DEF IsPower
  <2> QED
    BY <1>4, <2>1
<1>6. PowerOfTwo[0] = 1 /\ \A k \in Nat : PowerOfTwo[k + 1] = 2 * PowerOfTwo[k]
  <2>1. PowerOfTwo[0] = 1
    BY <1>5
  <2>2. ASSUME NEW k \in Nat PROVE PowerOfTwo[k + 1] = 2 * PowerOfTwo[k]
    <3>1. k + 1 \in Nat /\ k + 1 # 0 /\ (k + 1) - 1 = k
      OBVIOUS
    <3> QED
      BY <1>5, <3>1
  <2> QED
    BY <2>1, <2>2
<1> HIDE DEF IsPower
<1> DEFINE T == {k \in Nat : PowerOfTwo[k] \in Nat}
<1>7. 0 \in T /\ \A k \in T : k + 1 \in T
  BY <1>6
<1>8. T \subseteq Nat
  OBVIOUS
<1> HIDE DEF T
<1>9. \A k \in Nat : k \in T
  BY <1>7, <1>8, SetInduction
<1> QED
  BY <1>6, <1>9 DEF T

-----------------------------------------------------------------------------
(* The inductive invariant *)

\* It holds at the start.
LEMMA InitIInv == Init => IInv
<1> SUFFICES ASSUME Init PROVE IInv
  OBVIOUS
<1>1. TypeOK
  <2>1. PICK q \in Questions : fn = q.fn /\ range = q.range /\ network = q.network
    BY DEF Init
  <2>2. /\ fn \in Diagnostic /\ range[1] \in Int /\ range[2] \in Int /\ network.carries \in Int
        /\ low \in Int /\ high \in Int
    BY <2>1, CallsFacts, DiagnosticsAssumption DEF Init
  <2>3. deadline = {} \/ \E d \in deadline : d \in Nat /\ deadline = {d}
    BY DiagnosticsAssumption DEF Init
  <2>4. inFlight \in [Commands -> SUBSET Nat] /\ outcome \in [Commands -> Outcomes]
    BY DEF Init, Outcomes
  <2>5. completion \in [kind : {"none", "ok", "cancelled"}, at : Nat]
    BY DEF Init, NoCompletion
  <2>6. /\ now \in Nat /\ expired \in BOOLEAN /\ cancelled \in BOOLEAN /\ cut \in BOOLEAN /\ lost \in BOOLEAN
        /\ verdict \in {"none", "completed", "timed_out", "cancelled"}
    BY DEF Init
  <2>7. place \in Nat \ {0} /\ best \in SUBSET Int /\ probes \in Nat
    BY DEF Init
  <2> QED
    BY <2>2, <2>3, <2>4, <2>5, <2>6, <2>7 DEF TypeOK
<1>2. Awaited /\ CutEndsLate /\ Judged
  BY DEF Init, Awaited, CutEndsLate, Judged, history
<1>3. Bracketed
  BY DiagnosticsAssumption DEF Init, Bracketed, NoCompletion, history
<1>4. Halved
  <2>1. probes = 0 /\ PowerOfTwo[probes] = 1
    BY PowersDouble DEF Init
  <2>2. high - low + 1 = range[2] - range[1] + 1 /\ high - low + 1 \in Int
    BY <1>1 DEF Init, TypeOK
  <2> QED
    BY <2>1, <2>2 DEF Halved
<1> QED
  BY <1>1, <1>2, <1>3, <1>4 DEF IInv

\* What a diagnostic makes of the outcome of a call has its type.
LEMMA HandleTypes ==
  ASSUME TypeOK, NEW c \in Commands, NEW r \in Outcomes, Handle(c, r)
  PROVE  /\ place' \in Nat \ {0} /\ low' \in Int /\ high' \in Int /\ best' \in SUBSET Int
         /\ probes' \in Nat
         /\ completion' \in [kind : {"none", "ok", "cancelled"}, at : Nat]
<1>1. CASE fn # "host_discovery" /\ Escapes(r)
  BY <1>1 DEF Handle, Put, search, TypeOK
<1>2. CASE ~(fn # "host_discovery" /\ Escapes(r))
  <2>1. UNCHANGED completion
    BY <1>2 DEF Handle
  <2>2. CASE c = "probe"
    <3>1. HandleProbe(r)
      BY <1>2, <2>2, CallsFacts DEF Handle
    <3>2. Mid \in Int /\ BelowMid \in Int
      BY DEF Mid, BelowMid, TypeOK
    <3>3. /\ low' \in Int /\ high' \in Int /\ best' \in SUBSET Int
      <4>1. CASE r \in {"reply", "partial"}
        BY <3>1, <3>2, <4>1 DEF HandleProbe, TypeOK
      <4>2. CASE r \notin {"reply", "partial"}
        BY <3>1, <3>2, <4>2 DEF HandleProbe, TypeOK
      <4> QED
        BY <4>1, <4>2
    <3> QED
      BY <2>1, <3>1, <3>3 DEF HandleProbe, TypeOK
  <2>3. CASE c \in Hosts
    BY <1>2, <2>1, <2>3, CallsFacts DEF Handle, HandleHost, search, TypeOK
  <2>4. CASE c # "probe" /\ c \notin Hosts
    <3>1. HandleCall(c, r)
      BY <1>2, <2>4 DEF Handle
    <3> QED
      BY <2>1, <3>1, CallsFacts DEF HandleCall, search, TypeOK
  <2> QED
    BY <2>2, <2>3, <2>4
<1> QED
  BY <1>1, <1>2

\* The types are kept.
LEMMA TypeNext == TypeOK /\ [Next]_vars => TypeOK'
<1> SUFFICES ASSUME TypeOK, [Next]_vars PROVE TypeOK'
  OBVIOUS
<1>1. ASSUME NEW c \in Commands, Skip(c) PROVE TypeOK'
  <2>1. Handle(c, "unsupported")
    BY <1>1 DEF Skip
  <2> QED
    BY <1>1, <2>1, HandleTypes DEF Skip, TypeOK, Outcomes, given, scope, history
<1>2. ASSUME NEW c \in Commands, Refuse(c) PROVE TypeOK'
  <2>1. PICK r \in {"cancelled", "timeout"} : outcome' = [outcome EXCEPT ![c] = r] /\ Handle(c, r)
    BY <1>2 DEF Refuse
  <2> QED
    BY <1>2, <2>1, HandleTypes DEF Refuse, TypeOK, Outcomes, given, scope, history
<1>3. ASSUME NEW c \in Commands, Run(c) PROVE TypeOK'
  <2>1. StopAt \in Nat
    BY DiagnosticsAssumption DEF TypeOK, StopAt, Earlier
  <2> QED
    BY <1>3, <2>1 DEF Run, TypeOK, given, scope, search, history
<1>4. ASSUME NEW c \in Commands, NEW r \in Outcomes, Finish(c, r), cut' \in BOOLEAN, lost' \in BOOLEAN
      PROVE  TypeOK'
  BY <1>4, HandleTypes DEF Finish, TypeOK, given, scope, history
<1>5. ASSUME NEW c \in Commands, CommandEnds(c) PROVE TypeOK'
  <2>1. PICK r \in Sayable(c) :
          /\ Finish(c, r) /\ UNCHANGED cut
          /\ lost' = (lost \/ (c = "probe" /\ Carried(c) /\ r # "reply"))
    BY <1>5 DEF CommandEnds
  <2>2. r \in Outcomes
    BY <2>1 DEF Sayable, Outcomes
  <2>3. cut' \in BOOLEAN /\ lost' \in BOOLEAN
    BY <2>1 DEF TypeOK
  <2> QED
    BY <1>4, <2>1, <2>2, <2>3
<1>6. ASSUME NEW c \in Commands, CommandTimesOut(c) \/ CommandCancelled(c) PROVE TypeOK'
  <2>1. BudgetOver \in BOOLEAN
    BY DEF TypeOK, BudgetOver
  <2> QED
    BY <1>4, <1>6, <2>1 DEF CommandTimesOut, CommandCancelled, Outcomes, TypeOK
<1>7. CASE SkipMtu \/ RefuseSubnet \/ ReturnResults \/ ReturnMtu \/ ReturnHosts \/ ReturnPorts
  <2>1. completion' \in [kind : {"none", "ok", "cancelled"}, at : Nat]
    BY <1>7 DEF SkipMtu, RefuseSubnet, ReturnResults, ReturnMtu, ReturnHosts, ReturnPorts, Put, TypeOK
  <2>2. UNCHANGED <<given, scope, place, inFlight, outcome, search, verdict, history>>
    BY <1>7 DEF SkipMtu, RefuseSubnet, ReturnResults, ReturnMtu, ReturnHosts, ReturnPorts
  <2> QED
    BY <2>1, <2>2 DEF TypeOK, given, scope, search, history
<1>8. CASE Connect \/ AskPsutil
  <2>1. place' \in Nat \ {0}
    BY <1>8 DEF Connect, AskPsutil
  <2> QED
    BY <1>8, <2>1 DEF Connect, AskPsutil, TypeOK, given, scope, search, history
<1>12. ASSUME NEW port \in Hosts, ConnectTo(port) PROVE TypeOK'
  <2>1. PICK r \in Outcomes : outcome' = [outcome EXCEPT ![port] = r]
    BY <1>12 DEF ConnectTo, Outcomes
  <2> QED
    BY <1>12, <2>1 DEF ConnectTo, TypeOK, given, scope, search, history
<1>10. CASE Expire \/ Cancel \/ Tick
  <2>1. now' \in Nat /\ expired' \in BOOLEAN /\ cancelled' \in BOOLEAN
    <3>1. CASE Expire
      BY <3>1 DEF Expire, TypeOK, given, history
    <3>2. CASE Cancel
      BY <3>2 DEF Cancel, TypeOK, given, history
    <3>3. CASE Tick
      BY <3>3 DEF Tick, TypeOK, given, history
    <3> QED
      BY <1>10, <3>1, <3>2, <3>3
  <2>2. UNCHANGED <<given, deadline, place, inFlight, outcome, search, completion, verdict, history>>
    BY <1>10 DEF Expire, Cancel, Tick
  <2> QED
    BY <2>1, <2>2 DEF TypeOK, given, search, history
<1>11. CASE Complete
  <2>1. verdict' \in {"none", "completed", "timed_out", "cancelled"}
    BY <1>11 DEF Complete
  <2> QED
    BY <1>11, <2>1 DEF Complete, TypeOK, given, scope, search, history
<1>9. CASE UNCHANGED vars
  BY <1>9 DEF vars, TypeOK, given, scope, search, history
<1> QED
  BY <1>1, <1>2, <1>3, <1>5, <1>6, <1>7, <1>8, <1>9, <1>10, <1>11, <1>12 DEF Next

\* The command a step is about is the one its diagnostic waits for.
LEMMA Waiting ==
  ASSUME TypeOK, Awaited, NEW c \in Commands, Due(c) \/ inFlight[c] # {}
  PROVE  /\ Running
         /\ fn = "mtu" => c = "probe" /\ low <= high
         /\ fn = "host_discovery" => c \in Hosts /\ outcome[c] = "none"
         /\ fn \notin {"mtu", "host_discovery"} => place <= Len(Calls[fn]) /\ c = Calls[fn][place]
<1>1. CASE Due(c)
  BY <1>1, CallsFacts DEF Due, TypeOK
<1>2. CASE inFlight[c] # {}
  BY <1>2, CallsFacts DEF Awaited, TypeOK
<1> QED
  BY <1>1, <1>2

Handled(c) == Skip(c) \/ Refuse(c) \/ CommandEnds(c) \/ CommandTimesOut(c) \/ CommandCancelled(c)

\* What the steps that settle a command have in common.
LEMMA HandledFacts ==
  ASSUME TypeOK, Awaited, NEW c \in Commands, Handled(c)
  PROVE  \E r \in Outcomes :
           /\ Handle(c, r)
           /\ outcome' = [outcome EXCEPT ![c] = r]
           /\ inFlight' = [inFlight EXCEPT ![c] = {}]
           /\ UNCHANGED <<given, scope, verdict>>
           /\ Due(c) \/ inFlight[c] # {}
           /\ cut' \in BOOLEAN /\ (lost => lost')
           /\ cut' => cut \/ r = "cancelled" \/ BudgetOver
           /\ cut \/ r = "cancelled" => cut'
           /\ c = "probe" /\ Supported /\ ~cut' =>
                 \/ r = "reply" /\ Mid <= network.carries
                 \/ r \notin {"reply", "partial"} /\ (lost' \/ ~(Mid <= network.carries))
<1>1. CASE Skip(c)
  <2>1. inFlight = [inFlight EXCEPT ![c] = {}]
    BY <1>1 DEF Skip, Due, TypeOK
  <2> QED
    BY <1>1, <2>1 DEF Skip, Outcomes, TypeOK, history
<1>2. CASE Refuse(c)
  <2>1. inFlight = [inFlight EXCEPT ![c] = {}]
    BY <1>2 DEF Refuse, Due, TypeOK
  <2>2. CASE cancelled
    BY <1>2, <2>1, <2>2 DEF Refuse, Outcomes, TypeOK
  <2>3. CASE ~cancelled
    BY <1>2, <2>1, <2>3 DEF Refuse, Outcomes, TypeOK
  <2> QED
    BY <2>2, <2>3
<1>3. CASE CommandEnds(c)
  <2>1. PICK r \in Sayable(c) :
          /\ Finish(c, r) /\ UNCHANGED cut
          /\ lost' = (lost \/ (c = "probe" /\ Carried(c) /\ r # "reply"))
    BY <1>3 DEF CommandEnds
  <2>2. r \in Outcomes /\ r # "cancelled"
    BY <2>1 DEF Sayable, Outcomes
  <2>3. c = "probe" => (Carried(c) <=> Mid <= network.carries)
    BY CallsFacts DEF Carried
  <2>4. c = "probe" => \/ r = "reply" /\ Mid <= network.carries
                       \/ r \notin {"reply", "partial"} /\ (lost' \/ ~(Mid <= network.carries))
    BY <2>1, <2>3 DEF Sayable
  <2>5. lost => lost'
    BY <2>1
  <2> QED
    BY <2>1, <2>2, <2>4, <2>5 DEF Finish, TypeOK
<1>4. CASE CommandTimesOut(c)
  <2>1. Finish(c, "timeout") /\ cut' = (cut \/ BudgetOver) /\ BudgetOver \in BOOLEAN
    BY <1>4 DEF CommandTimesOut, BudgetOver, TypeOK
  <2>2. /\ lost => lost'
        /\ c = "probe" => lost' \/ ~(Mid <= network.carries)
    BY <1>4, CallsFacts DEF CommandTimesOut, Carried
  <2>3. "timeout" \in Outcomes
    BY DEF Outcomes
  <2> QED
    BY <2>1, <2>2, <2>3 DEF Finish, TypeOK
<1>5. CASE CommandCancelled(c)
  BY <1>5 DEF CommandCancelled, Finish, Outcomes, TypeOK
<1> QED
  BY <1>1, <1>2, <1>3, <1>4, <1>5 DEF Handled

\* Only the cancellation that leaves a diagnostic ends it in the middle.
LEMMA HandleEnds ==
  ASSUME NEW c \in Commands, NEW r \in Outcomes, Handle(c, r)
  PROVE  /\ fn # "host_discovery" /\ r = "cancelled" =>
               completion'.kind = "cancelled" /\ UNCHANGED <<place, items, search>>
         /\ ~(fn # "host_discovery" /\ r = "cancelled") => UNCHANGED completion
         /\ c = "probe" /\ r # "cancelled" => HandleProbe(r)
<1>1. Escapes(r) <=> r = "cancelled"
  BY DEF Escapes
<1>2. CASE fn # "host_discovery" /\ r = "cancelled"
  BY <1>1, <1>2 DEF Handle, Put
<1>3. CASE ~(fn # "host_discovery" /\ r = "cancelled")
  <2>1. UNCHANGED completion
    BY <1>1, <1>3 DEF Handle
  <2>2. c = "probe" => HandleProbe(r)
    BY <1>1, <1>3, CallsFacts DEF Handle
  <2> QED
    BY <1>3, <2>1, <2>2
<1> QED
  BY <1>2, <1>3

\* The scans of ports run no command.
LEMMA NoCommandForPorts ==
  ASSUME TypeOK, Awaited, fn \in {"port_scan", "tcp_multi_port"}
  PROVE  \A c \in Commands : inFlight[c] = {}
<1>1. Len(Calls[fn]) = 0
  BY DEF Calls
<1>2. ~(place <= 0)
  BY DEF TypeOK
<1> QED
  BY <1>1, <1>2 DEF Awaited

\* A command runs only while it is waited for, whatever happens.
LEMMA AwaitedNext == TypeOK /\ Awaited /\ [Next]_vars => Awaited'
<1> SUFFICES ASSUME TypeOK, Awaited, [Next]_vars PROVE Awaited'
  OBVIOUS
<1>1. ASSUME NEW c \in Commands, Handled(c) PROVE Awaited'
  <2>1. PICK r \in Outcomes :
          /\ Handle(c, r) /\ outcome' = [outcome EXCEPT ![c] = r]
          /\ inFlight' = [inFlight EXCEPT ![c] = {}]
          /\ UNCHANGED <<given, scope, verdict>> /\ (Due(c) \/ inFlight[c] # {})
    BY <1>1, HandledFacts
  <2>2. SUFFICES ASSUME NEW d \in Commands, inFlight'[d] # {}
                 PROVE  fn = "host_discovery" /\ Running' /\ d \in Hosts /\ outcome'[d] = "none"
    BY <2>1 DEF Awaited, given, history
  <2>3. d # c /\ inFlight[d] # {}
    BY <2>1, <2>2 DEF TypeOK
  <2>4. fn = "host_discovery"
    BY <2>1, <2>3, Waiting
  <2>5. d \in Hosts /\ outcome[d] = "none" /\ Running
    BY <2>3, <2>4, Waiting
  <2>6. Running'
    BY <2>1, <2>4, <2>5, HandleEnds DEF Running
  <2> QED
    BY <2>1, <2>3, <2>4, <2>5, <2>6 DEF TypeOK
<1>2. ASSUME NEW c \in Commands, Run(c) PROVE Awaited'
  <2>1. SUFFICES ASSUME NEW d \in Commands, inFlight'[d] # {}
                 PROVE  /\ Running
                        /\ \/ fn = "mtu" /\ d = "probe" /\ Supported /\ low <= high
                           \/ fn \notin {"mtu", "host_discovery"} /\ place <= Len(Calls[fn]) /\ d = Calls[fn][place]
                           \/ fn = "host_discovery" /\ d \in Hosts /\ outcome[d] = "none"
    BY <1>2 DEF Run, Awaited, Running, Supported, given, search, history
  <2>2. CASE d = c
    BY <1>2, <2>2 DEF Run, Due
  <2>3. CASE d # c
    BY <1>2, <2>1, <2>3 DEF Run, Awaited, TypeOK
  <2> QED
    BY <2>2, <2>3
<1>3. CASE SkipMtu \/ RefuseSubnet \/ Connect \/ AskPsutil \/ ReturnResults \/ ReturnMtu \/ ReturnHosts \/ ReturnPorts
  <2>1. SUFFICES \A c \in Commands : inFlight[c] = {}
    BY <1>3 DEF SkipMtu, RefuseSubnet, Connect, AskPsutil, ReturnResults, ReturnMtu, ReturnHosts, ReturnPorts, Awaited
  <2>2. CASE SkipMtu
    BY <2>2 DEF SkipMtu, Awaited
  <2>8. CASE RefuseSubnet
    BY <2>8 DEF RefuseSubnet, Awaited
  <2>3. CASE Connect \/ AskPsutil
    BY <2>3, CallsFacts DEF Connect, AskPsutil, Awaited
  <2>4. CASE ReturnResults
    BY <2>4, CallsFacts DEF ReturnResults, Awaited, TypeOK
  <2>5. CASE ReturnMtu
    BY <2>5 DEF ReturnMtu, Awaited, TypeOK
  <2>6. CASE ReturnHosts
    BY <2>6 DEF ReturnHosts, Awaited
  <2>7. CASE ReturnPorts
    BY <2>7, NoCommandForPorts DEF ReturnPorts
  <2> QED
    BY <1>3, <2>2, <2>3, <2>4, <2>5, <2>6, <2>7, <2>8
<1>6. ASSUME NEW port \in Hosts, ConnectTo(port) PROVE Awaited'
  <2>1. SUFFICES \A c \in Commands : inFlight[c] = {}
    BY <1>6 DEF ConnectTo, Awaited
  <2> QED
    BY <1>6, NoCommandForPorts DEF ConnectTo
<1>4. CASE Expire \/ Complete \/ Cancel \/ Tick
  BY <1>4 DEF Expire, Complete, Cancel, Tick, Awaited, Running, Supported, given, search, history
<1>5. CASE UNCHANGED vars
  BY <1>5 DEF vars, Awaited, Running, Supported, given, search, history
<1> QED
  BY <1>1, <1>2, <1>3, <1>4, <1>5, <1>6 DEF Next, Handled

\* What was cut short stays late or cancelled.
LEMMA CutNext == TypeOK /\ Awaited /\ CutEndsLate /\ [Next]_vars => CutEndsLate'
<1> SUFFICES ASSUME TypeOK, Awaited, CutEndsLate, [Next]_vars PROVE CutEndsLate'
  OBVIOUS
<1>1. ASSUME NEW c \in Commands, Handled(c) PROVE CutEndsLate'
  <2>1. PICK r \in Outcomes :
          /\ Handle(c, r) /\ outcome' = [outcome EXCEPT ![c] = r]
          /\ UNCHANGED <<given, scope, verdict>> /\ (Due(c) \/ inFlight[c] # {})
          /\ cut' => cut \/ r = "cancelled" \/ BudgetOver
    BY <1>1, HandledFacts
  <2>2. Running /\ (fn = "host_discovery" => c \in Hosts /\ outcome[c] = "none")
    BY <2>1, Waiting
  <2>3. BudgetOver' = BudgetOver
    BY <2>1 DEF BudgetOver, scope
  <2>4. CASE fn # "host_discovery" /\ r = "cancelled"
    BY <2>1, <2>4, HandleEnds DEF CutEndsLate, history
  <2>5. CASE ~(fn # "host_discovery" /\ r = "cancelled")
    <3>1. UNCHANGED completion /\ Running'
      BY <2>1, <2>2, <2>5, HandleEnds DEF Running
    <3>2. CASE cut' /\ ~BudgetOver
      <4>1. fn = "host_discovery" /\ \E h \in Hosts : outcome'[h] = "cancelled"
        <5>1. CASE r = "cancelled"
          BY <2>1, <2>2, <2>5, <5>1, CallsFacts DEF TypeOK
        <5>2. CASE r # "cancelled"
          <6>1. fn = "host_discovery" /\ \E h \in Hosts : outcome[h] = "cancelled"
            BY <2>1, <2>2, <3>2, <5>2 DEF CutEndsLate, Running, history
          <6> QED
            BY <2>1, <2>2, <6>1, CallsFacts DEF TypeOK
        <5> QED
          BY <5>1, <5>2
      <4> QED
        BY <2>1, <3>1, <4>1 DEF CutEndsLate, given, history
    <3> QED
      BY <2>3, <3>1, <3>2 DEF CutEndsLate, history
  <2> QED
    BY <2>4, <2>5
<1>2. ASSUME NEW c \in Commands, Run(c) PROVE CutEndsLate'
  BY <1>2 DEF Run, CutEndsLate, Running, BudgetOver, given, scope, history
<1>3. CASE SkipMtu \/ RefuseSubnet \/ ReturnResults \/ ReturnMtu \/ ReturnHosts \/ ReturnPorts
  <2>1. SUFFICES ASSUME cut
                 PROVE  \/ completion'.kind = "cancelled"
                        \/ completion'.kind = "ok" /\ (expired \/ \E d \in deadline : completion'.at >= d)
    BY <1>3 DEF SkipMtu, RefuseSubnet, ReturnResults, ReturnMtu, ReturnHosts, ReturnPorts, CutEndsLate, scope, history
  <2>2. \/ BudgetOver
        \/ fn = "host_discovery" /\ \E h \in Hosts : outcome[h] = "cancelled"
    BY <1>3, <2>1 DEF SkipMtu, RefuseSubnet, ReturnResults, ReturnMtu, ReturnHosts, ReturnPorts, CutEndsLate, Running, history
  <2>3. \/ Put("cancelled")
        \/ Put("ok") /\ (fn = "host_discovery" => ~ \E h \in Hosts : outcome[h] = "cancelled")
    <3>1. CASE SkipMtu \/ RefuseSubnet \/ ReturnResults \/ ReturnMtu \/ ReturnHosts
      BY <3>1 DEF SkipMtu, RefuseSubnet, ReturnResults, ReturnMtu, ReturnHosts, Escapes, Pools
    <3>2. CASE ReturnPorts
      BY <3>2 DEF ReturnPorts
    <3> QED
      BY <1>3, <3>1, <3>2
  <2> QED
    BY <2>2, <2>3 DEF Put, BudgetOver
<1>4. CASE Connect \/ AskPsutil
  BY <1>4 DEF Connect, AskPsutil, CutEndsLate, Running, BudgetOver, given, scope, history
<1>7. ASSUME NEW port \in Hosts, ConnectTo(port) PROVE CutEndsLate'
  BY <1>7 DEF ConnectTo, CutEndsLate, Running, BudgetOver, given, scope, history
<1>5. CASE Expire \/ Tick
  <2>1. BudgetOver => BudgetOver'
    BY <1>5 DEF Expire, Tick, BudgetOver, TypeOK
  <2>2. UNCHANGED <<given, completion, outcome, history, deadline>> /\ (expired => expired')
    BY <1>5 DEF Expire, Tick
  <2> QED
    BY <2>1, <2>2 DEF CutEndsLate, Running, given, history
<1>6. CASE Complete \/ Cancel \/ UNCHANGED vars
  BY <1>6 DEF Complete, Cancel, vars, CutEndsLate, Running, BudgetOver, given, scope, history
<1> QED
  BY <1>1, <1>2, <1>3, <1>4, <1>5, <1>6, <1>7 DEF Next, Handled

\* A verdict stands.
LEMMA JudgedNext == TypeOK /\ Awaited /\ Judged /\ [Next]_vars => Judged'
<1> SUFFICES ASSUME TypeOK, Awaited, Judged, [Next]_vars, verdict' = "completed"
             PROVE  completion'.kind = "ok" /\ ~expired' /\ \A d \in deadline' : completion'.at < d
  BY DEF Judged
<1>1. CASE Complete
  <2>1. completion.kind = "ok" /\ ~expired /\ ~ \E d \in deadline : TooLate(d)
    BY <1>1 DEF Complete, Running, TypeOK
  <2> QED
    BY <1>1, <2>1 DEF Complete, TooLate, scope, TypeOK
<1>2. CASE ~Complete
  <2>1. verdict = "completed"
    <3>1. ASSUME NEW c \in Commands, Handled(c) PROVE verdict = "completed"
      BY <3>1, HandledFacts
    <3>2. ASSUME NEW c \in Commands, Run(c) PROVE verdict = "completed"
      BY <3>2 DEF Run
    <3>3. CASE SkipMtu \/ RefuseSubnet \/ Connect \/ AskPsutil \/ ReturnResults \/ ReturnMtu \/ ReturnHosts \/ ReturnPorts
      BY <3>3 DEF SkipMtu, RefuseSubnet, Connect, AskPsutil, ReturnResults, ReturnMtu, ReturnHosts, ReturnPorts
    <3>4. CASE Expire \/ Cancel \/ Tick \/ UNCHANGED vars
      BY <3>4 DEF Expire, Cancel, Tick, vars, history
    <3>5. ASSUME NEW port \in Hosts, ConnectTo(port) PROVE verdict = "completed"
      BY <3>5 DEF ConnectTo
    <3> QED
      BY <1>2, <3>1, <3>2, <3>3, <3>4, <3>5 DEF Next, Handled
  <2>2. completion.kind = "ok" /\ ~expired /\ \A d \in deadline : completion.at < d
    BY <2>1 DEF Judged
  <2>3. ~Running
    BY <2>2 DEF Running
  <2>4. UNCHANGED <<completion, expired, deadline>>
    <3>1. ASSUME NEW c \in Commands, Handled(c) PROVE FALSE
      <4>1. Due(c) \/ inFlight[c] # {}
        BY <3>1, HandledFacts
      <4> QED
        BY <2>3, <4>1, Waiting
    <3>2. ASSUME NEW c \in Commands, Run(c) PROVE FALSE
      BY <2>3, <3>2 DEF Run, Due
    <3>3. CASE SkipMtu \/ RefuseSubnet \/ Connect \/ AskPsutil \/ ReturnResults \/ ReturnMtu \/ ReturnHosts \/ ReturnPorts
      BY <2>3, <3>3 DEF SkipMtu, RefuseSubnet, Connect, AskPsutil, ReturnResults, ReturnMtu, ReturnHosts, ReturnPorts
    <3>4. CASE Expire
      BY <2>1, <3>4 DEF Expire
    <3>5. CASE Cancel \/ Tick \/ UNCHANGED vars
      BY <3>5 DEF Cancel, Tick, vars, scope, history
    <3>6. ASSUME NEW port \in Hosts, ConnectTo(port) PROVE FALSE
      BY <2>3, <3>6 DEF ConnectTo
    <3> QED
      BY <1>2, <3>1, <3>2, <3>3, <3>4, <3>5, <3>6 DEF Next, Handled
  <2> QED
    BY <2>2, <2>4
<1> QED
  BY <1>1, <1>2

\* The bracket closes on the largest payload the path carries.
LEMMA BracketedNext == TypeOK /\ Awaited /\ Bracketed /\ [Next]_vars => Bracketed'
<1> SUFFICES ASSUME TypeOK, Awaited, Bracketed, [Next]_vars PROVE Bracketed'
  OBVIOUS
<1>1. ASSUME NEW c \in Commands, Handled(c) PROVE Bracketed'
  <2>1. PICK r \in Outcomes :
          /\ Handle(c, r)
          /\ UNCHANGED <<given, scope, verdict>> /\ (Due(c) \/ inFlight[c] # {})
          /\ cut' \in BOOLEAN /\ (lost => lost') /\ (cut \/ r = "cancelled" => cut')
          /\ c = "probe" /\ Supported /\ ~cut' =>
                 \/ r = "reply" /\ Mid <= network.carries
                 \/ r \notin {"reply", "partial"} /\ (lost' \/ ~(Mid <= network.carries))
    BY <1>1, HandledFacts
  <2>2. SUFFICES ASSUME fn = "mtu", Supported, ~cut' PROVE Bracketed'
    BY <2>1 DEF Bracketed, Supported, given, history
  <2>3. c = "probe" /\ low <= high /\ Running
    BY <2>1, <2>2, Waiting
  <2>4. HandleProbe(r) /\ UNCHANGED completion /\ ~cut
    BY <2>1, <2>2, <2>3, HandleEnds
  <2>5. Mid \in Int /\ low <= Mid /\ Mid <= high
    BY <2>3 DEF Mid, TypeOK
  <2>6. UNCHANGED <<fn, system, range, network>>
    BY <2>1 DEF given
  <2>9. lost => lost'
    BY <2>1
  <2>7. CASE r = "reply" /\ Mid <= network.carries
    <3>1. best' = {Mid} /\ low' = Mid + 1 /\ high' = high
      BY <2>4, <2>7 DEF HandleProbe
    <3> QED
      BY <2>2, <2>3, <2>4, <2>5, <2>6, <2>7, <2>9, <3>1 DEF Bracketed, Running, TypeOK
  <2>8. CASE r \notin {"reply", "partial"} /\ (lost' \/ ~(Mid <= network.carries))
    <3>1. best' = best /\ low' = low /\ high' = Mid - 1
      BY <2>4, <2>8 DEF HandleProbe, BelowMid
    <3> QED
      BY <2>2, <2>3, <2>4, <2>5, <2>6, <2>8, <2>9, <3>1 DEF Bracketed, Running, TypeOK
  <2> QED
    BY <2>1, <2>2, <2>3, <2>7, <2>8
<1>2. ASSUME NEW c \in Commands, Run(c) PROVE Bracketed'
  BY <1>2 DEF Run, Bracketed, Supported, given, search, history
<1>3. CASE SkipMtu \/ RefuseSubnet \/ Connect \/ AskPsutil \/ ReturnResults \/ ReturnHosts \/ ReturnPorts
  BY <1>3 DEF SkipMtu, RefuseSubnet, Connect, AskPsutil, ReturnResults, ReturnHosts, ReturnPorts, Bracketed, Supported,
              given, search, history
<1>6. ASSUME NEW port \in Hosts, ConnectTo(port) PROVE Bracketed'
  BY <1>6 DEF ConnectTo, Bracketed, Supported, given, search, history
<1>4. CASE ReturnMtu
  BY <1>4 DEF ReturnMtu, Put, Bracketed, Supported, given, search, history
<1>5. CASE Expire \/ Complete \/ Cancel \/ Tick \/ UNCHANGED vars
  BY <1>5 DEF Expire, Complete, Cancel, Tick, vars, Bracketed, Supported, given, search, history
<1> QED
  BY <1>1, <1>2, <1>3, <1>4, <1>5, <1>6 DEF Next, Handled

\* Nothing but a probe changes the bounds.
LEMMA HandleSearch ==
  ASSUME NEW c \in Commands, NEW r, Handle(c, r), c # "probe" \/ r = "cancelled", c = "probe" => fn # "host_discovery"
  PROVE  UNCHANGED search
<1>1. CASE fn # "host_discovery" /\ Escapes(r)
  BY <1>1 DEF Handle
<1>2. CASE ~(fn # "host_discovery" /\ Escapes(r))
  <2>1. c # "probe"
    BY <1>2 DEF Escapes
  <2>2. c \in Hosts => HandleHost
    BY <1>2, <2>1 DEF Handle
  <2>3. c \notin Hosts => HandleCall(c, r)
    BY <1>2, <2>1 DEF Handle
  <2> QED
    BY <2>2, <2>3 DEF HandleHost, HandleCall
<1> QED
  BY <1>1, <1>2

\* A probe that leaves at most half of n sizes keeps the product.
LEMMA HalfOf ==
  ASSUME NEW p \in Nat, NEW n \in Int, NEW m \in Nat, 2 * m <= n
  PROVE  (2 * p) * m <= p * n
<1>1. p * (2 * m) <= p * n
  <2>1. \A x, y \in Int : x >= 0 /\ y >= 0 => x * y >= 0
    OBVIOUS
  <2>2. p * (n - 2 * m) >= 0
    BY <2>1
  <2>3. p * (n - 2 * m) = p * n - p * (2 * m)
    OBVIOUS
  <2> QED
    BY <2>2, <2>3
<1>2. (2 * p) * m = p * (2 * m)
  OBVIOUS
<1> QED
  BY <1>1, <1>2

\* Every probe leaves at most half of the sizes, whatever the answer, a timeout or a refusal.
LEMMA HalvedNext == TypeOK /\ Awaited /\ Halved /\ [Next]_vars => Halved'
<1> SUFFICES ASSUME TypeOK, Awaited, Halved, [Next]_vars PROVE Halved'
  OBVIOUS
<1>s. ASSUME UNCHANGED <<search, range>> PROVE Halved'
  BY <1>s DEF Halved, search
<1>1. ASSUME NEW c \in Commands, Handled(c) PROVE Halved'
  <2>1. PICK r \in Outcomes : Handle(c, r) /\ UNCHANGED given /\ (Due(c) \/ inFlight[c] # {})
    BY <1>1, HandledFacts
  <2>2. range' = range
    BY <2>1 DEF given
  <2>3. CASE c = "probe" /\ r # "cancelled"
    <3>1. HandleProbe(r)
      BY <2>1, <2>3, HandleEnds
    <3>2. low <= high
      BY <2>1, <2>3, CallsFacts, Waiting DEF TypeOK, OwnCommands
    <3> DEFINE n == high - low + 1
               m == high' - low' + 1
               p == PowerOfTwo[probes]
               all == range[2] - range[1] + 1
    <3>3. /\ n \in Int /\ n >= 1 /\ all \in Int /\ probes \in Nat /\ probes' = probes + 1
          /\ p \in Nat /\ PowerOfTwo[probes + 1] = 2 * p
      BY <3>1, <3>2, PowersDouble DEF TypeOK, HandleProbe
    <3>4. m \in Nat /\ 2 * m <= n
      <4>1. \/ low' = Mid + 1 /\ high' = high
            \/ low' = low /\ high' = Mid - 1
        BY <3>1 DEF HandleProbe, BelowMid
      <4>2. Mid \in Int /\ low + high <= 2 * Mid + 1 /\ 2 * Mid <= low + high
        BY DEF Mid, TypeOK
      <4> QED
        BY <3>2, <4>1, <4>2 DEF TypeOK
    <3>5. (2 * p) * m <= p * n
      <4> HIDE DEF p, n, m
      <4> QED
        BY <3>3, <3>4, HalfOf
    <3>6. p * n <= all
      BY DEF Halved
    <3>7. p <= p * n
      <4> HIDE DEF p, n
      <4>1. p * (n - 1) >= 0 /\ p * (n - 1) = p * n - p
        <5>1. \A x, y \in Int : x >= 0 /\ y >= 0 => x * y >= 0
          OBVIOUS
        <5> QED
          BY <3>3, <5>1
      <4> QED
        BY <3>3, <4>1
    <3>8. PowerOfTwo[probes'] * m <= all /\ PowerOfTwo[probes' - 1] <= all
      <4>1. PowerOfTwo[probes'] = 2 * p /\ PowerOfTwo[probes' - 1] = p
        <5>1. probes' - 1 = probes
          BY <3>3
        <5> QED
          BY <3>3, <5>1
      <4>2. (2 * p) * m \in Int /\ p * n \in Int
        BY <3>3, <3>4
      <4> HIDE DEF p, n, m, all
      <4> QED
        BY <3>3, <3>5, <3>6, <3>7, <4>1, <4>2
    <3>9. low' <= high' + 1
      BY <3>1, <3>4 DEF HandleProbe, Mid, BelowMid, TypeOK
    <3> QED
      BY <2>2, <3>8, <3>9 DEF Halved
  <2>4. CASE ~(c = "probe" /\ r # "cancelled")
    <3>1. c = "probe" => fn # "host_discovery"
      BY <2>1, CallsFacts, Waiting
    <3>2. UNCHANGED search
      BY <2>1, <2>4, <3>1, HandleSearch
    <3> QED
      BY <1>s, <2>2, <3>2
  <2> QED
    BY <2>3, <2>4
<1>2. ASSUME NEW c \in Commands, Run(c) PROVE Halved'
  BY <1>2, <1>s DEF Run, given
<1>3. ASSUME NEW port \in Hosts, ConnectTo(port) PROVE Halved'
  BY <1>3, <1>s DEF ConnectTo, given
<1>4. CASE SkipMtu \/ RefuseSubnet \/ Connect \/ AskPsutil \/ ReturnResults \/ ReturnMtu \/ ReturnHosts \/ ReturnPorts
  BY <1>4, <1>s DEF SkipMtu, RefuseSubnet, Connect, AskPsutil, ReturnResults, ReturnMtu, ReturnHosts, ReturnPorts, given
<1>5. CASE Expire \/ Complete \/ Cancel \/ Tick \/ UNCHANGED vars
  BY <1>5, <1>s DEF Expire, Complete, Cancel, Tick, vars, given
<1> QED
  BY <1>1, <1>2, <1>3, <1>4, <1>5 DEF Next, Handled

\* The inductive invariant holds throughout.
LEMMA Invariant == Spec => []IInv
<1>1. IInv /\ [Next]_vars => IInv'
  BY TypeNext, AwaitedNext, CutNext, JudgedNext, BracketedNext, HalvedNext DEF IInv
<1> QED
  BY <1>1, InitIInv, PTL DEF Spec

\* The variables keep their types.
THEOREM TypeCorrect == Spec => []TypeOK
<1>1. IInv => TypeOK
  BY DEF IInv
<1> QED
  BY <1>1, Invariant, PTL

\* A completed step is not the work of its budget: of whatever kind the diagnostic, however
\* many addresses, a command that was refused or stopped makes the step late or cancelled.
THEOREM CompletedWhole == Spec => []NothingCutShort
<1>1. IInv => NothingCutShort
  BY DEF IInv, NothingCutShort, TypeOK, CutEndsLate, Judged, Running
<1> QED
  BY <1>1, Invariant, PTL

\* A completed search has found the largest payload of its range that the path carries,
\* whatever the range, unless an answer was lost; and then a smaller one or none.
THEOREM CompletedSearch == Spec => []MtuFound
<1>1. ASSUME IInv PROVE MtuFound
  <2>1. SUFFICES ASSUME verdict = "completed", fn = "mtu", Supported
                 PROVE  /\ best \subseteq {b \in range[1] .. range[2] : b <= network.carries}
                        /\ ~lost => best = {b \in range[1] .. range[2] :
                              b <= network.carries /\ (b = range[2] \/ b + 1 > network.carries)}
    BY DEF MtuFound
  <2>2. completion.kind = "ok" /\ ~cut
    BY <1>1, <2>1 DEF IInv, NothingCutShort, TypeOK, CutEndsLate, Judged, Running
  <2>3. /\ low > high /\ low \in Int /\ high \in Int /\ best \in SUBSET Int
        /\ range[1] \in Int /\ range[2] \in Int /\ network.carries \in Int
        /\ range[1] <= low /\ high <= range[2]
        /\ low = high + 1 \/ (low = range[1] /\ high = range[2])
        /\ best = {} => low = range[1]
        /\ best # {} => best = {low - 1} /\ low > range[1] /\ low - 1 <= network.carries
        /\ high < range[2] => high + 1 > network.carries \/ lost
    BY <1>1, <2>1, <2>2 DEF IInv, Bracketed, TypeOK
  <2>4. CASE best = {}
    BY <2>3, <2>4
  <2>5. CASE best # {}
    BY <2>3, <2>5
  <2> QED
    BY <2>4, <2>5
<1> QED
  BY <1>1, Invariant, PTL

\* ProbesFew holds: the search tries no more sizes than halving the range needs, whatever the range
\* and whatever becomes of the probes (estimate_path_mtu, against mtu_worst_case in budgets.py).
THEOREM SearchHalves == Spec => []ProbesFew
<1>1. IInv => ProbesFew
  BY DEF IInv, Halved, ProbesFew
<1> QED
  BY <1>1, Invariant, PTL
=============================================================================
