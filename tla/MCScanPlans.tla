---------------------------- MODULE MCScanPlans ----------------------------
(* All plans the program builds, and all small sets of steps. *)
EXTENDS ScanPlans

StepIn(s, deps, b) == [id |-> s, after |-> deps, budget |-> b]

\* Two steps that may be ill-formed: equal ids, unknown and own dependencies, bad budgets.
Loose == {StepIn(s, d, b) : s \in {"a", "b"}, d \in SUBSET {"a", "b", "x"}, b \in {{}, {0}}}

\* Every graph of three steps, and of four steps with one dependency each at most.
Graphs3 ==
    LET D == SUBSET {"a", "b", "c"}
    IN  {<<StepIn("a", p, {}), StepIn("b", q, {1}), StepIn("c", r, {})>> :
            p \in D, q \in D, r \in D}

Graphs4 ==
    LET D == {{}, {"a"}, {"b"}, {"c"}, {"d"}}
    IN  {<<StepIn("a", p, {}), StepIn("b", q, {}), StepIn("c", r, {}), StepIn("d", t, {})>> :
            p \in D, q \in D, r \in D, t \in D}

MCInputs ==
    BuiltPlans \cup {<<s, t>> : s \in Loose, t \in Loose} \cup Graphs3 \cup Graphs4 \cup {<<>>}

MCIds ==
    {"a", "b", "c", "d", "x", "dns", "dns_compare", "ping", "https", "tcp", "tcp:80", "tcp:443",
     "gateway", "mtu", "traceroute", "wifi", "adapters", "tls.expiry", "tls.versions",
     "tls.hostname", "http_headers", "dnssec", "open_resolver", "tcp_exposure", "scan", "discover"}

\* Waits, no wait, and less than none: over up to ten waves of ports, budgets above, at and below 0.
MCTcpTimeouts == {-11, -10, -9, -5, -1, 0, 3, 60}

\* From one size to jumbo frames, an empty range included.
MCMtuRanges == {<<68, 1500>>, <<1400, 1500>>, <<1500, 1500>>, <<1500, 68>>, <<68, 9000>>,
                <<0, 63>>, <<0, 64>>}
=============================================================================
