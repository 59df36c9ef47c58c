------------------------------ MODULE ScanPlans ------------------------------
(***************************************************************************)
(* The plans that the commands and the window build                        *)
(* (netdiag/runner/plans.py) and the budgets of their steps (budgets.py),  *)
(* as input of the validation.  A step names the function it binds and     *)
(* what bounds that function's time: `args`, the counts and timeouts it is *)
(* called with.  Seconds are integers.  There is one target, so a lane is  *)
(* its prefix; labels and test names are left out.                         *)
(***************************************************************************)
EXTENDS PlanValidation

CONSTANTS
    Timeouts,    \* the probe timeouts the window may pass: its settings keep them positive
    TcpTimeouts, \* the --timeout of `netdiag tcp`, which nothing bounds
    MtuRanges,   \* the <<min, max>> sizes of `netdiag mtu`
    PortCounts,  \* the numbers of ports of `netdiag tcp` and `netdiag scan`
    HostCounts   \* the numbers of addresses of `netdiag discover`

ASSUME CountsAssumption ==
    /\ Timeouts \subseteq Nat /\ PortCounts \subseteq Nat /\ HostCounts \subseteq Nat
    /\ TcpTimeouts \subseteq Int
    /\ MtuRanges \subseteq Int \X Int

-----------------------------------------------------------------------------
\* budgets.py

Larger(a, b) == IF a > b THEN a ELSE b

CeilDiv(a, b) == (a + b - 1) \div b

\* _TABLE: <<worst case with default arguments, budget>>
BudgetTable ==
    [ dns |-> <<5, 15>>, dns_compare |-> <<20, 30>>, ping |-> <<19, 25>>, https |-> <<10, 20>>,
      tcp |-> <<5, 10>>, gateway |-> <<11, 20>>, mtu |-> <<55, 75>>, traceroute |-> <<60, 75>>,
      wifi |-> <<10, 15>>, adapters |-> <<10, 15>>, tls_expiry |-> <<10, 20>>,
      tls_versions |-> <<70, 90>>, tls_hostname |-> <<20, 30>>, http_headers |-> <<10, 20>>,
      dnssec |-> <<30, 40>>, open_resolver |-> <<10, 20>>, tcp_exposure |-> <<9, 20>> ]

DefaultBudget(name) == BudgetTable[name][2]

Margin == 10

Waves(n, concurrency) == Larger(1, CeilDiv(n, concurrency))

PortScanBudget(n, timeout, concurrency) == Waves(n, concurrency) * timeout + Margin

HostDiscoveryBudget(n, timeout, concurrency) == Waves(n, concurrency) * (timeout + 2) + Margin

Unscaled(name, worst) == DefaultBudget(name)                             \* mutant
ScaledBudget(name, worst) ==
    Larger(DefaultBudget(name), worst + DefaultBudget(name) - BudgetTable[name][1])

PingWorstCase(count, timeout) == timeout + count + 5

PowerOfTwo[k \in Nat] == IF k = 0 THEN 1 ELSE 2 * PowerOfTwo[k - 1]

\* math.ceil(math.log2(n)), exact for the sizes in question
CeilLog2(n) == CHOOSE k \in 0 .. n : PowerOfTwo[k] >= n /\ (k = 0 \/ PowerOfTwo[k - 1] < n)

MtuWorstCase(min, max) == Larger(1, CeilLog2(Larger(1, max - min + 2))) * (3 + 2)

-----------------------------------------------------------------------------
\* plans.py: the steps

NewStep(id, fn, args, budget) ==
    [ id |-> id, fn |-> fn, args |-> args, budget |-> {budget}, after |-> {}, lanes |-> {},
      pinned |-> FALSE, relabelled |-> FALSE ]

Pinned(s)    == [s EXCEPT !.pinned = TRUE]
Relabel(s)   == [s EXCEPT !.relabelled = TRUE]
Behind(s, d) == [s EXCEPT !.after = d]
OnLane(s, l) == [s EXCEPT !.lanes = {l}]

PingCount == 4

\* `probe` is the window's probe timeout, 0 for None; max(1, int(probe_timeout)).
TimeoutOr(probe, default) == IF probe = 0 THEN default ELSE Larger(1, probe)

DnsStep == NewStep("dns", "resolve_hostname", <<>>, DefaultBudget("dns"))

PingStep(probe, after) ==
    LET t == TimeoutOr(probe, 10)
    IN  Relabel(Pinned(OnLane(Behind(
            NewStep("ping", "ping", <<PingCount, t>>,
                    ScaledBudget("ping", PingWorstCase(PingCount, t))), after), "icmp")))

HttpsStep(probe) ==
    LET t == TimeoutOr(probe, 10)
    IN  NewStep("https", "https_connectivity", <<t>>, ScaledBudget("https", t))

TcpStep(id, timeout, after) ==
    Relabel(Behind(NewStep(id, "tcp_connect", <<timeout>>, ScaledBudget("tcp", timeout)), after))

GatewayStep(relabelled) ==
    [NewStep("gateway", "gateway_diagnostics", <<>>, DefaultBudget("gateway"))
        EXCEPT !.relabelled = relabelled]

MtuStep(after, pin, sizes) ==
    [OnLane(Behind(NewStep("mtu", "estimate_path_mtu", sizes,
                           ScaledBudget("mtu", MtuWorstCase(sizes[1], sizes[2]))), after), "icmp")
        EXCEPT !.pinned = pin, !.relabelled = pin]

TracerouteStep(after, pin) ==
    [OnLane(Behind(NewStep("traceroute", "traceroute", <<>>, DefaultBudget("traceroute")),
                   after), "icmp")
        EXCEPT !.pinned = pin, !.relabelled = pin]

WifiStep(relabelled) ==
    [NewStep("wifi", "wifi_info", <<>>, DefaultBudget("wifi")) EXCEPT !.relabelled = relabelled]

TlsStep(id, fn, name, after) ==
    OnLane(Behind(NewStep(id, fn, <<>>, DefaultBudget(name)), after), "tls")

AfterDns(after)  == {"dns", "tls.expiry"}                                \* mutant
AfterOnly(after) == after                                                \* mutant
TlsAfter(after)  == after \cup {"tls.expiry"}

SecuritySteps(after) ==
    LET tlsAfter == TlsAfter(after)
    IN  << TlsStep("tls.expiry", "check_certificate_expiry", "tls_expiry", after),
           TlsStep("tls.versions", "check_tls_protocol_versions", "tls_versions", tlsAfter),
           TlsStep("tls.hostname", "check_certificate_hostname", "tls_hostname", tlsAfter),
           NewStep("http_headers", "check_http_security_headers", <<>>,
                   DefaultBudget("http_headers")),
           NewStep("dnssec", "check_dnssec", <<>>, DefaultBudget("dnssec")),
           NewStep("open_resolver", "check_open_resolver", <<>>, DefaultBudget("open_resolver")),
           Behind(NewStep("tcp_exposure", "check_tcp_exposure", <<>>,
                          DefaultBudget("tcp_exposure")), after) >>

-----------------------------------------------------------------------------
\* plans.py: the plans

DefaultSizes == <<68, 1500>>

When(condition, seq) == IF condition THEN seq ELSE <<>>

BuildPlan(diagnostics, extended, security, wifi, probe, cli) ==
    LET after   == IF diagnostics THEN {"dns"} ELSE {}
        tcp     == IF probe = 0 THEN 3 ELSE probe
        longer  == When(extended, <<MtuStep(after, TRUE, DefaultSizes),
                                    TracerouteStep(after, TRUE)>>)
        gateway == <<GatewayStep(cli)>>
    IN  When(diagnostics,
             << DnsStep, PingStep(probe, after), HttpsStep(probe),
                TcpStep("tcp:80", tcp, after), TcpStep("tcp:443", tcp, after) >>
             \o (IF cli THEN longer \o gateway ELSE gateway \o longer)
             \o When(wifi, <<WifiStep(cli)>>))
        \o When(security, SecuritySteps(after))

CliPlans ==
    {BuildPlan(TRUE, FALSE, FALSE, wifi, 0, TRUE) : wifi \in BOOLEAN}
    \cup {BuildPlan(TRUE, TRUE, FALSE, wifi, 0, TRUE) : wifi \in BOOLEAN}
    \cup {BuildPlan(FALSE, FALSE, TRUE, FALSE, 0, TRUE)}
    \cup {BuildPlan(TRUE, TRUE, TRUE, wifi, 0, TRUE) : wifi \in BOOLEAN}

GuiPlan(mode, probe) ==
    BuildPlan(mode \in {"diagnose", "full"}, mode = "full", mode \in {"security", "full"},
              FALSE, probe, FALSE)

GuiPlans == {GuiPlan(mode, probe) : mode \in {"diagnose", "security", "full"}, probe \in Timeouts}

DnsPlans ==
    {<<DnsStep>>, <<NewStep("dns_compare", "compare_dns_servers", <<>>,
                            DefaultBudget("dns_compare"))>>}

MtuPlans == {<<MtuStep({}, FALSE, sizes)>> : sizes \in MtuRanges}

TcpPlan(n, t) == <<NewStep("tcp", "tcp_multi_port", <<n, t>>, PortScanBudget(n, t, 10))>>

TcpPlans == {TcpPlan(n, t) : n \in PortCounts, t \in TcpTimeouts}

TraceroutePlan == <<TracerouteStep({}, FALSE)>>

DiscoverPlans ==
    {<<NewStep("discover", "host_discovery", <<n, 2>>, HostDiscoveryBudget(n, 2, 50))>> :
        n \in HostCounts}

ScanPlansOf ==
    {<<NewStep("scan", "port_scan", <<n, 2>>, PortScanBudget(n, 2, 20))>> : n \in PortCounts}

NetworkPlan ==
    << NewStep("adapters", "adapter_info", <<>>, DefaultBudget("adapters")), WifiStep(FALSE),
       GatewayStep(TRUE) >>

BuiltPlans ==
    CliPlans \cup GuiPlans \cup DnsPlans \cup MtuPlans \cup TcpPlans \cup DiscoverPlans
    \cup ScanPlansOf \cup {TraceroutePlan, NetworkPlan}

Built == steps \in BuiltPlans

-----------------------------------------------------------------------------
\* What the bound functions do, as far as the order and the time of a plan matter.

\* The scan cache: values one step writes and others read.
Writes(s) ==
    CASE s.fn = "resolve_hostname"         -> {"address"}
      [] s.fn = "check_certificate_expiry" -> {"handshake"}
      [] OTHER                             -> {}

TlsChecks == {"check_certificate_expiry", "check_tls_protocol_versions",
              "check_certificate_hostname"}

IcmpTools == {"ping", "estimate_path_mtu", "traceroute"}

ConnectsByAddress == TlsChecks \cup {"tcp_connect", "check_tcp_exposure"}

Reads(s) ==
    {v \in {"address", "handshake"} :
        \/ v = "address" /\ (s.pinned \/ s.fn \in ConnectsByAddress)
        \/ v = "handshake" /\ s.fn \in TlsChecks \ {"check_certificate_expiry"}}

\* The most sizes estimate_path_mtu tries among n: half of the rest is left after each.
MostProbes(n) ==
    LET P[k \in 0 .. Larger(0, n)] == IF k = 0 THEN 0 ELSE 1 + P[k \div 2]
    IN  P[Larger(0, n)]

\* The functions whose every wait has a timeout of the whole wait: commands, and connects to an
\* address.  (A connect to a name waits for its lookup first, which has no timeout: without a
\* recorded address the functions that connect are covered for the rest of their time only.)
TimedFunctions ==
    IcmpTools \cup {"compare_dns_servers", "tcp_connect", "tcp_multi_port", "gateway_diagnostics",
                    "wifi_info", "adapter_info", "check_tcp_exposure", "port_scan",
                    "host_discovery"}

\* The longest such a function can take: its timeouts, one after another.  A socket takes no
\* negative timeout and does not wait for one of 0.
LongestRun(s) ==
    CASE s.fn = "ping"                -> s.args[2] + s.args[1] + 5
      [] s.fn = "estimate_path_mtu"   -> MostProbes(s.args[2] - s.args[1] + 1) * (3 + 2)
      [] s.fn = "traceroute"          -> 60
      [] s.fn = "compare_dns_servers" -> 3 * 5
      [] s.fn = "gateway_diagnostics" -> 5 + (3 + 3 + 5)
      [] s.fn = "tcp_connect"         -> s.args[1]
      [] s.fn = "tcp_multi_port"      -> CeilDiv(s.args[1], 10) * Larger(0, s.args[2])
      [] s.fn = "port_scan"           -> CeilDiv(s.args[1], 20) * s.args[2]
      [] s.fn = "host_discovery"      -> CeilDiv(s.args[1], 50) * (s.args[2] + 2)
      [] s.fn = "check_tcp_exposure"  -> CeilDiv(21, 10) * 3
      [] OTHER                        -> 10

-----------------------------------------------------------------------------
\* The steps that are over whenever step s runs.
Ancestors(s) ==
    LET A[n \in 0 .. Len(steps)] ==
            IF n = 0 THEN DepsOf(steps, s)
                     ELSE A[n - 1] \cup UNION {DepsOf(steps, d) : d \in A[n - 1]}
    IN  A[Len(steps)]

\* The timeouts of `netdiag tcp` that eat up the margin of the budget, over all waves of ports.
HopelessTimeouts(n) == {t \in TcpTimeouts : Waves(n, 10) * t <= - Margin}

HopelessPlans == UNION {{TcpPlan(n, t) : t \in HopelessTimeouts(n)} : n \in PortCounts}

\* Every plan the program builds passes the validation, whatever is asked of it, but one: that of
\* `netdiag tcp` is turned away exactly if its negative timeout leaves its step no budget.
BuiltAccepted ==
    pc \in {"accepted", "rejected"} /\ Built =>
        (pc = "rejected" <=> steps \in HopelessPlans)

\* A step that uses a value which another step of its plan records (the resolved
\* address, the certificate handshake) runs after that step, in every plan.
WritersFirst ==
    pc = "accepted" /\ Built =>
        \A i, j \in DOMAIN steps :
            Writes(steps[i]) \cap Reads(steps[j]) # {} => steps[i].id \in Ancestors(steps[j].id)

\* The runner stops no such step while one of its own timeouts could still end it,
\* whatever the timeout, the range of sizes and the numbers of ports and hosts.
BudgetCovers ==
    pc = "accepted" /\ Built =>
        \A i \in DOMAIN steps :
            steps[i].fn \in TimedFunctions =>
                \A b \in steps[i].budget : b > LongestRun(steps[i])
=============================================================================
