------------------------------ MODULE Diagnostics ------------------------------
(***************************************************************************)
(* The diagnostics (netdiag/core/, netdiag/network/) as a step of a scan:  *)
(* each call of process.run may be cut short by the step's budget or a     *)
(* cancellation, nothing cuts a connection or a lookup short, every        *)
(* diagnostic turns a failure into a result, and the runner decides what   *)
(* becomes of it.  What process.run does between spawn and reap is         *)
(* ProcessRun.                                                             *)
(***************************************************************************)
EXTENDS Integers, FiniteSets, SequencesExt

CONSTANTS
    Questions,       \* what is asked of which network: a diagnostic, for the path MTU a range
                     \* <<min_size, max_size>>, and the truth, as in the variables below
    Hosts,           \* the addresses of the subnet, or the ports of a scan
    MaxConcurrent,   \* pool size of host_discovery
    CommandTimeout,  \* the timeout passed to process.run
    Budgets,         \* budgets of the step: {} for None, {b} otherwise
    Horizon          \* bound: the last moment of the clock

Pools       == {"host_discovery", "port_scan", "tcp_multi_port"}
OwnCommands == {"ping", "traceroute", "route", "google", "cloudflare", "quad9", "netsh", "ipconfig",
                "probe"}
Connections == {"system", "https", "connect", "psutil"}   \* they run no command

ASSUME DiagnosticsAssumption ==
    /\ \A q \in Questions : /\ q.range[1] \in Int /\ q.range[2] \in Int
                            /\ q.network.carries \in Int /\ q.network.up \subseteq Hosts
                            /\ q.fn \in {"ping", "traceroute", "gateway", "compare_dns", "wifi", "adapters",
                                         "https", "tcp", "mtu"} \cup Pools
    /\ CommandTimeout \in Nat \ {0} /\ Horizon \in Nat /\ MaxConcurrent \in Nat \ {0}
    /\ \A b \in Budgets : b = {} \/ \E d \in b : d \in Nat /\ b = {d}
    /\ IsFiniteSet(Hosts) /\ Hosts \cap (OwnCommands \cup Connections) = {}

VARIABLES
    fn,          \* the diagnostic
    system,      \* platform.system()
    range,       \* the <<min_size, max_size>> asked for
    network,     \* the truth: the largest payload the path carries, the hosts that are up
    now,         \* the clock
    deadline,    \* of the scope: {} or {moment}
    expired,     \* scope.expire() has been called
    cancelled,   \* the cancel token
    place,       \* the place in the sequence of calls
    inFlight,    \* when process.run will stop each running command
    outcome,     \* what each call of process.run came to, or "none"
    low, high,   \* the bounds of the MTU search
    best,        \* best_mtu: {} for None
    probes,      \* history: how many sizes were tried
    items,       \* the results so far
    completion,  \* what the step's thread has put in the queue
    verdict,     \* the state the runner gives the step
    cut,         \* history: a command was refused or stopped for the budget or a cancellation
    lost         \* history: the path carried a probe, and yet it had no answer in its time

scope   == <<now, deadline, expired, cancelled>>
search  == <<low, high, best, probes>>
given   == <<fn, system, range, network>>
history == <<cut, lost>>
vars    == <<given, scope, place, inFlight, outcome, search, items, completion, verdict, history>>

-----------------------------------------------------------------------------
Calls ==
    [ ping           |-> <<"ping">>,
      traceroute     |-> <<"traceroute">>,
      gateway        |-> <<"route", "ping">>,
      compare_dns    |-> <<"system", "google", "cloudflare", "quad9">>,
      wifi           |-> <<"netsh">>,
      adapters       |-> <<"psutil", "ipconfig">>,
      https          |-> <<"https">>,
      tcp            |-> <<"connect">>,
      mtu            |-> <<>>,
      host_discovery |-> <<>>,
      port_scan      |-> <<>>,
      tcp_multi_port |-> <<>> ]

Diagnostic == DOMAIN Calls
Commands   == OwnCommands \cup Hosts

NoCompletion == [kind |-> "none", at |-> 0]

Init ==
    /\ \E q \in Questions : fn = q.fn /\ range = q.range /\ network = q.network
    /\ system \in {"Linux", "Windows", "Darwin"}
    /\ now = 0 /\ expired = FALSE /\ cancelled = FALSE
    /\ deadline \in Budgets
    /\ place = 1
    /\ inFlight = [c \in Commands |-> {}]
    /\ outcome = [c \in Commands |-> "none"]
    /\ low = range[1] /\ high = range[2]
    /\ best = {} /\ probes = 0
    /\ items = <<>>
    /\ completion = NoCompletion /\ verdict = "none"
    /\ cut = FALSE /\ lost = FALSE

Supported == system = "Windows" \/ (system = "Linux" /\ fn # "wifi")

Running == completion.kind = "none"

Put(kind) == completion' = [kind |-> kind, at |-> now]

Add(test, status, about) == items' = Append(items, [test |-> test, status |-> status, about |-> about])

-----------------------------------------------------------------------------
\* What a diagnostic makes of a call of process.run.  ScanCancelled is no Exception:
\* it leaves every diagnostic, and ends the step.

Escapes(r) == r = "cancelled"

\* ping: how many echo replies its output counts; traceroute: whether any hop, and whether
\* the destination, is among those it lists; nslookup and dig: whether addresses are.
PingStatus(r) ==
    CASE r = "reply"       -> "PASS"
      [] r = "partial"     -> "WARN"
      [] r = "silence"     -> "FAIL"
      [] r = "unsupported" -> "SKIP"
      [] OTHER             -> "ERROR"

ServerStatus(r) == IF r = "partial" THEN "PASS" ELSE PingStatus(r)

\* get_default_gateway returns None for all but an answer; then nothing is pinged.
RouteStatus(r) == IF r \in {"reply", "partial"} THEN "PASS" ELSE "FAIL"

\* adapter_info: whether _fallback_adapters finds an adapter in the output, or has none.
AdapterStatus(r) == RouteStatus(r)

\* wifi_info: connected; connecting, or unreadable; no interface, service, connection or netsh.
WifiStatus(r) == IF r = "silence" THEN "SKIP" ELSE PingStatus(r)

StatusOf(c, r) ==
    CASE c \in {"ping", "traceroute"} -> PingStatus(r)
      [] c = "route"                  -> RouteStatus(r)
      [] c = "ipconfig"               -> AdapterStatus(r)
      [] c = "netsh"                  -> WifiStatus(r)
      [] OTHER                        -> ServerStatus(r)

\* estimate_path_mtu: every exception of _try_size is a probe without an answer.
Lowest   == low                                                          \* mutant
Mid      == (low + high) \div 2
PastMid  == Mid - 2                                                      \* mutant
BelowMid == Mid - 1

HandleProbe(r) ==
    /\ IF r \in {"reply", "partial"}
       THEN best' = {Mid} /\ low' = Mid + 1 /\ UNCHANGED high
       ELSE high' = BelowMid /\ UNCHANGED <<low, best>>
    /\ probes' = probes + 1
    /\ UNCHANGED <<place, items>>

HandleCall(c, r) ==
    /\ Add(c, StatusOf(c, r), {})
    /\ place' = IF c = "route" /\ RouteStatus(r) = "FAIL" THEN Len(Calls[fn]) + 1 ELSE place + 1
    /\ UNCHANGED search

\* The pool keeps the outcome, which future.result() returns or raises later.
HandleHost == UNCHANGED <<place, items, search>>

Handle(c, r) ==
    IF fn # "host_discovery" /\ Escapes(r)
    THEN Put("cancelled") /\ UNCHANGED <<place, items, search>>
    ELSE /\ CASE c = "probe" -> HandleProbe(r)
              [] c \in Hosts -> HandleHost
              [] OTHER       -> HandleCall(c, r)
         /\ UNCHANGED completion

-----------------------------------------------------------------------------
\* The calls

\* What the diagnostic calls next: one command at a time, or any address for which a
\* thread of the pool is free.
Due(c) ==
    /\ Running /\ inFlight[c] = {}
    /\ \/ c = "probe" /\ fn = "mtu" /\ Supported /\ low <= high
       \/ fn \notin {"mtu", "host_discovery"} /\ place <= Len(Calls[fn]) /\ c = Calls[fn][place]
       \/ /\ fn = "host_discovery" /\ c \in Hosts /\ outcome[c] = "none"
          /\ Cardinality({h \in Hosts : inFlight[h] # {}}) < MaxConcurrent

\* No command is known for the platform.
Skip(c) ==
    /\ Due(c) /\ ~Supported
    /\ outcome' = [outcome EXCEPT ![c] = "unsupported"]
    /\ Handle(c, "unsupported")
    /\ UNCHANGED <<given, scope, inFlight, verdict, history>>

SkipMtu ==
    /\ Running /\ fn = "mtu" /\ ~Supported
    /\ Add("path_mtu", "SKIP", {})
    /\ Put("ok")
    /\ UNCHANGED <<given, scope, place, inFlight, outcome, search, verdict, history>>

BudgetOver == expired \/ \E d \in deadline : now >= d

\* process.run: check_cancelled, then the budget, then the command is started.
Refuse(c) ==
    /\ Due(c) /\ Supported
    /\ cancelled \/ BudgetOver
    /\ LET r == IF cancelled THEN "cancelled" ELSE "timeout"
       IN  outcome' = [outcome EXCEPT ![c] = r] /\ Handle(c, r)
    /\ cut' = TRUE
    /\ UNCHANGED <<given, scope, inFlight, verdict, lost>>

Earlier(a, b) == IF a < b THEN a ELSE b

StopAt == IF deadline = {} THEN now + CommandTimeout
          ELSE Earlier(now + CommandTimeout, CHOOSE d \in deadline : TRUE)

Run(c) ==
    /\ Due(c) /\ Supported
    /\ ~cancelled /\ ~BudgetOver
    /\ inFlight' = [inFlight EXCEPT ![c] = {StopAt}]
    /\ UNCHANGED <<given, scope, place, outcome, search, items, completion, verdict, history>>

\* What a command may say: a probe or a host answers only when the network lets it.
Carried(c) ==
    CASE c = "probe" -> Mid <= network.carries
      [] c \in Hosts -> c \in network.up
      [] OTHER       -> TRUE

Sayable(c) ==
    {"silence", "error"} \cup (IF Carried(c) THEN {"reply"} ELSE {})
                         \cup (IF c \in Hosts \cup {"probe"} THEN {} ELSE {"partial"})

Finish(c, r) ==
    /\ inFlight[c] # {}
    /\ inFlight' = [inFlight EXCEPT ![c] = {}]
    /\ outcome' = [outcome EXCEPT ![c] = r]
    /\ Handle(c, r)
    /\ UNCHANGED <<given, scope, verdict>>

\* The command ends by itself, as late as this may be.
CommandEnds(c) ==
    \E r \in Sayable(c) :
        /\ Finish(c, r)
        /\ lost' = (lost \/ (c = "probe" /\ Carried(c) /\ r # "reply"))
        /\ UNCHANGED cut

\* The poll loop sees the cancellation first, then that the time is out: the command's
\* own, or for the budget.
CommandTimesOut(c) ==
    /\ ~cancelled
    /\ \E t \in inFlight[c] : now >= t \/ BudgetOver
    /\ Finish(c, "timeout")
    /\ cut' = (cut \/ BudgetOver)
    /\ lost' = (lost \/ (c = "probe" /\ Carried(c)))

CommandCancelled(c) ==
    /\ cancelled
    /\ Finish(c, "cancelled")
    /\ cut' = TRUE
    /\ UNCHANGED lost

\* resolve_hostname, urlopen and connect_ex run no command, and nothing stops them.
Connect ==
    /\ Running /\ fn \in {"compare_dns", "https", "tcp"} /\ place = 1
    /\ \E status \in {"PASS", "FAIL", "ERROR"} : Add(Calls[fn][1], status, {})
    /\ place' = 2
    /\ UNCHANGED <<given, scope, inFlight, outcome, search, completion, verdict, history>>

\* _try_psutil_adapters: the adapters, or None without the library.
AskPsutil ==
    /\ Running /\ fn = "adapters" /\ place = 1
    /\ \/ \E status \in {"PASS", "FAIL"} : Add("psutil", status, {}) /\ place' = 3
       \/ place' = 2 /\ UNCHANGED items
    /\ UNCHANGED <<given, scope, inFlight, outcome, search, completion, verdict, history>>

\* A thread of the pool connects to a port: open, closed, or no answer.
ConnectTo(port) ==
    /\ Running /\ fn \in {"port_scan", "tcp_multi_port"} /\ outcome[port] = "none"
    /\ \E r \in {"silence", "error"} \cup (IF port \in network.up THEN {"reply"} ELSE {}) :
          outcome' = [outcome EXCEPT ![port] = r]
    /\ UNCHANGED <<given, scope, place, inFlight, search, items, completion, verdict, history>>

-----------------------------------------------------------------------------
\* The end of a diagnostic

ReturnResults ==
    /\ Running /\ fn \notin {"mtu"} \cup Pools /\ place > Len(Calls[fn])
    /\ Put("ok")
    /\ UNCHANGED <<given, scope, place, inFlight, outcome, search, items, verdict, history>>

ReturnMtu ==
    /\ Running /\ fn = "mtu" /\ Supported /\ low > high
    /\ Add("path_mtu", IF best = {} THEN "FAIL" ELSE "PASS", best)
    /\ Put("ok")
    /\ UNCHANGED <<given, scope, place, inFlight, outcome, search, verdict, history>>

\* The subnet is none: host_discovery returns before it has a pool.
RefuseSubnet ==
    /\ Running /\ fn = "host_discovery"
    /\ \A h \in Hosts : outcome[h] = "none" /\ inFlight[h] = {}
    /\ Add("host_discovery", "ERROR", {})
    /\ Put("ok")
    /\ UNCHANGED <<given, scope, place, inFlight, outcome, search, verdict, history>>

\* The pool is left when every future is done; a ScanCancelled among them is raised.
ReturnHosts ==
    /\ Running /\ fn = "host_discovery"
    /\ \A h \in Hosts : outcome[h] # "none"
    /\ IF \E h \in Hosts : Escapes(outcome[h])
       THEN Put("cancelled") /\ UNCHANGED items
       ELSE Add("host_discovery", "PASS", {h \in Hosts : outcome[h] = "reply"}) /\ Put("ok")
    /\ UNCHANGED <<given, scope, place, inFlight, outcome, search, verdict, history>>

PortStatus(r) == CASE r = "reply" -> "PASS" [] r = "silence" -> "FAIL" [] OTHER -> "ERROR"

\* One result of a scan, or one of each port, in their order whatever the pool's.
ReturnPorts ==
    /\ Running /\ fn \in {"port_scan", "tcp_multi_port"}
    /\ \A port \in Hosts : outcome[port] # "none"
    /\ IF fn = "port_scan"
       THEN Add("tcp_port_scan", "PASS", {port \in Hosts : outcome[port] = "reply"})
       ELSE items' = [i \in 1 .. Cardinality(Hosts) |->
                        LET port == SetToSeq(Hosts)[i]
                        IN  [test |-> "tcp_connect", status |-> PortStatus(outcome[port]), about |-> {port}]]
    /\ Put("ok")
    /\ UNCHANGED <<given, scope, place, inFlight, outcome, search, verdict, history>>

-----------------------------------------------------------------------------
\* The runner, the user, the clock

\* _enforce_budgets finds the deadline passed.
Expire ==
    /\ verdict = "none" /\ ~expired
    /\ \E d \in deadline : now >= d
    /\ expired' = TRUE
    /\ UNCHANGED <<given, now, deadline, cancelled, place, inFlight, outcome, search, items,
                   completion, verdict, history>>

After(d)   == completion.at > d                                          \* mutant
TooLate(d) == completion.at >= d

\* _complete
Complete ==
    /\ ~Running /\ verdict = "none"
    /\ verdict' = IF completion.kind = "cancelled" THEN "cancelled"
                  ELSE IF expired \/ \E d \in deadline : TooLate(d) THEN "timed_out"
                  ELSE "completed"
    /\ UNCHANGED <<given, scope, place, inFlight, outcome, search, items, completion, history>>

Cancel ==
    /\ ~cancelled
    /\ cancelled' = TRUE
    /\ UNCHANGED <<given, now, deadline, expired, place, inFlight, outcome, search, items,
                   completion, verdict, history>>

Tick ==
    /\ now < Horizon /\ verdict = "none"
    /\ now' = now + 1
    /\ UNCHANGED <<given, deadline, expired, cancelled, place, inFlight, outcome, search, items,
                   completion, verdict, history>>

Next ==
    \/ \E c \in Commands :
          \/ Skip(c) \/ Refuse(c) \/ Run(c)
          \/ CommandEnds(c) \/ CommandTimesOut(c) \/ CommandCancelled(c)
    \/ \E port \in Hosts : ConnectTo(port)
    \/ SkipMtu \/ RefuseSubnet \/ Connect \/ AskPsutil
    \/ ReturnResults \/ ReturnMtu \/ ReturnHosts \/ ReturnPorts
    \/ Expire \/ Complete \/ Cancel \/ Tick

Spec == Init /\ [][Next]_vars

-----------------------------------------------------------------------------
Outcomes == {"none", "reply", "partial", "silence", "error", "timeout", "cancelled", "unsupported"}

TypeOK ==
    /\ fn \in Diagnostic
    /\ range[1] \in Int /\ range[2] \in Int /\ network.carries \in Int
    /\ now \in Nat /\ expired \in BOOLEAN /\ cancelled \in BOOLEAN
    /\ cut \in BOOLEAN /\ lost \in BOOLEAN
    /\ deadline = {} \/ \E d \in deadline : d \in Nat /\ deadline = {d}
    /\ place \in Nat \ {0}
    /\ inFlight \in [Commands -> SUBSET Nat]
    /\ outcome \in [Commands -> Outcomes]
    /\ low \in Int /\ high \in Int /\ best \in SUBSET Int /\ probes \in Nat
    /\ completion \in [kind : {"none", "ok", "cancelled"}, at : Nat]
    /\ verdict \in {"none", "completed", "timed_out", "cancelled"}

\* A command runs only while its diagnostic waits for it.
Awaited ==
    \A c \in Commands : inFlight[c] # {} =>
        /\ Running
        /\ \/ fn = "mtu" /\ c = "probe" /\ Supported /\ low <= high
           \/ fn \notin {"mtu", "host_discovery"} /\ place <= Len(Calls[fn]) /\ c = Calls[fn][place]
           \/ fn = "host_discovery" /\ c \in Hosts /\ outcome[c] = "none"

\* What was cut short ends late or cancelled.
CutEndsLate ==
    cut => \/ completion.kind = "cancelled"
           \/ completion.kind = "ok" /\ (expired \/ \E d \in deadline : completion.at >= d)
           \/ Running /\ BudgetOver
           \/ Running /\ fn = "host_discovery" /\ \E h \in Hosts : outcome[h] = "cancelled"

Judged ==
    verdict = "completed" =>
        completion.kind = "ok" /\ ~expired /\ \A d \in deadline : completion.at < d

\* While nothing was cut short: below low, what the path carries; above high, what it does
\* not, unless an answer was lost.
Bracketed ==
    fn = "mtu" /\ Supported /\ ~cut =>
        /\ range[1] <= low /\ high <= range[2]
        /\ low <= high + 1 \/ (low = range[1] /\ high = range[2])
        /\ best = {} => low = range[1]
        /\ best # {} => best = {low - 1} /\ low > range[1] /\ low - 1 <= network.carries
        /\ high < range[2] => high + 1 > network.carries \/ lost
        /\ completion.kind = "ok" => low > high

PowerOfTwo[k \in Nat] == IF k = 0 THEN 1 ELSE 2 * PowerOfTwo[k - 1]

\* Each probe leaves at most half of the sizes.
Halved ==
    /\ PowerOfTwo[probes] * (high - low + 1) <= range[2] - range[1] + 1
    /\ probes > 0 => low <= high + 1 /\ PowerOfTwo[probes - 1] <= range[2] - range[1] + 1

IInv == TypeOK /\ Awaited /\ CutEndsLate /\ Judged /\ Bracketed /\ Halved

-----------------------------------------------------------------------------
\* What a completed step reports does not owe to its budget or to a cancellation: a
\* command that was refused or stopped for one of them, and that the diagnostic turned
\* into a failure, a smaller MTU or an absent host, makes the step TIMED_OUT or CANCELLED.
NothingCutShort == verdict = "completed" => ~cut

\* A completed search has found a payload of its range that the path carries, and unless an
\* answer was lost the largest of them.
MtuFound ==
    verdict = "completed" /\ fn = "mtu" /\ Supported =>
        /\ best \subseteq {b \in range[1] .. range[2] : b <= network.carries}
        /\ lost \/ best = {b \in range[1] .. range[2] :
                              b <= network.carries /\ (b = range[2] \/ b + 1 > network.carries)}

\* It tries no more sizes than the budget of the step counts, whatever happens to the
\* probes: k probes are enough for 2^k - 1 sizes.
ProbesFew == probes > 0 => PowerOfTwo[probes - 1] <= range[2] - range[1] + 1
=============================================================================
