---------------------------- MODULE MCSecurityAudit ----------------------------
(* The TLS checks together; the others share nothing, and are run one by one. *)
EXTENDS SecurityAudit

MCAudits ==
    {TlsChecks} \cup {{c} : c \in {"http_headers", "dnssec", "open_resolver", "tcp_exposure"}}

MCCerts ==
    {[days |-> -1, selfSigned |-> TRUE], [days |-> 0, selfSigned |-> FALSE],
     [days |-> 14, selfSigned |-> TRUE]}
=============================================================================
