---------------------------- MODULE MCCommandLine ---------------------------
(* Small plans for ScanRunner, cut from the ones netdiag/runner/plans.py builds. *)
EXTENDS CommandLine, TLC

CONSTANTS dns, ping, mtu, icmp

Diagnostics == {<<"diagnostic">>}

\* Two ICMP steps in one lane: ping waits for DNS, path MTU starts beside it.
PlanLane    == <<dns, ping, mtu>>
AfterLane   == (dns :> {}) @@ (ping :> {dns}) @@ (mtu :> {})
LanesLane   == (dns :> {}) @@ (ping :> {icmp}) @@ (mtu :> {icmp})
OneResult   == [s \in Steps |-> Diagnostics]
OutputsLane == (dns :> {<<"diagnostic", "finding">>, <<>>}) @@ (ping :> Diagnostics)
               @@ (mtu :> {<<"finding">>})
=============================================================================
