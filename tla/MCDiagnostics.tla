---------------------------- MODULE MCDiagnostics ----------------------------
(* Ranges of one size, of a power of two of them, one less, and none. *)
EXTENDS Diagnostics

MCRanges == {<<3, 9>>, <<2, 9>>, <<5, 5>>, <<6, 5>>}

Question(f, r, p, up) == [fn |-> f, range |-> r, network |-> [carries |-> p, up |-> up]]

MCQuestions ==
    {Question("mtu", r, p, {}) : r \in MCRanges, p \in {1, 2, 5, 8, 9, 12}}
    \cup {Question(f, <<0, 0>>, 0, up) : f \in Pools, up \in {{}, {"a", "c"}}}
    \cup {Question(f, <<0, 0>>, 0, {}) :
              f \in {"ping", "traceroute", "gateway", "compare_dns", "wifi", "adapters", "https", "tcp"}}

MCBudgets == {{}, {1}, {3}}
=============================================================================
