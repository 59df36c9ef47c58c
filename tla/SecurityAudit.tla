----------------------------- MODULE SecurityAudit -----------------------------
(***************************************************************************)
(* The security checks of one scan (netdiag/security/): what each finds,   *)
(* as the target answers, fails and changes from one connection to the     *)
(* next.  The three TLS checks share a certificate handshake through the   *)
(* scan cache, and a lane, which an abandoned one keeps no longer.  A      *)
(* connection with its handshake is one action, and so is a query.         *)
(***************************************************************************)
EXTENDS Integers, FiniteSets, SequencesExt

CONSTANTS
    Audits,      \* the sets of checks that may be run together
    Certs,       \* certificates the target may show: days left, self-signed or not
    Offered,     \* versions a handshake without restriction may negotiate
    Untestable,  \* versions the local OpenSSL cannot be pinned to
    Headers,     \* REQUIRED_HEADERS
    Ports        \* the ports of SERVICE_NAMES

TlsChecks == {"tls.expiry", "tls.versions", "tls.hostname"}
Checks    == TlsChecks \cup {"http_headers", "dnssec", "open_resolver", "tcp_exposure"}

VersionsToTest == <<"SSLv3", "TLSv1.0", "TLSv1.1", "TLSv1.2", "TLSv1.3">>
Versions       == ToSet(VersionsToTest)
Deprecated     == {"SSLv3", "TLSv1.0", "TLSv1.1"}

ASSUME AuditAssumption ==
    /\ \A a \in Audits : a \subseteq Checks
    /\ \A x \in Certs : x.days \in Int /\ x.selfSigned \in BOOLEAN
    /\ Offered \subseteq Versions \ Untestable

VARIABLES
    at,         \* where each check is: "absent", "waiting", a stage, or "returned"
    findings,   \* the findings of each check, in order
    abandoned,  \* TLS checks the runner has given up; their threads run on
    entry,      \* the handshake in the scan cache, or NoHandshake
    fetching,   \* the check that holds the lock of its key, or "nobody"
    version,    \* the place in VersionsToTest
    ports,      \* what the connect to each port came to
    dnspython,  \* dnspython can be imported
    relied      \* history: what the target did that each check went by

vars == <<at, findings, abandoned, entry, fetching, version, ports, dnspython, relied>>

shared == <<abandoned, entry, fetching, version, ports, dnspython>>

NoHandshake == [status |-> "none", version |-> "none", cert |-> {}]

Init ==
    /\ \E a \in Audits : at = [c \in Checks |-> IF c \in a THEN "waiting" ELSE "absent"]
    /\ findings = [c \in Checks |-> <<>>]
    /\ abandoned = {}
    /\ entry = NoHandshake
    /\ fetching = "nobody"
    /\ version = 1
    /\ ports = [p \in Ports |-> "untried"]
    /\ dnspython \in BOOLEAN
    /\ relied = {}

GoTo(c, stage) == at' = [at EXCEPT ![c] = stage]

Finding(status, about) == <<[status |-> status, about |-> about]>>

Return(c, fs) == GoTo(c, "returned") /\ findings' = [findings EXCEPT ![c] = @ \o fs]

GoBy(c, what, data) == relied' = relied \cup {<<c, what, data>>}

-----------------------------------------------------------------------------
\* The runner

Live(c) == at[c] \notin {"absent", "waiting", "returned"}

Over(c) == at[c] \in {"absent", "returned"} \/ c \in abandoned

FirstStage(c) ==
    CASE c = "tls.expiry"    -> "retrieve"
      [] c = "tls.versions"  -> "probe"
      [] c = "tls.hostname"  -> "verify"
      [] c = "http_headers"  -> "request"
      [] c = "dnssec"        -> IF dnspython THEN "query" ELSE "dig"
      [] c = "open_resolver" -> IF dnspython THEN "resolve" ELSE "dig"
      [] c = "tcp_exposure"  -> "ports"

Start(c) ==
    /\ at[c] = "waiting"
    /\ c \in TlsChecks =>
          /\ \A d \in TlsChecks : Live(d) => d \in abandoned
          /\ c # "tls.expiry" => Over("tls.expiry")
    /\ GoTo(c, FirstStage(c))
    /\ UNCHANGED <<findings, shared, relied>>

Abandon(c) ==
    /\ c \in TlsChecks \ abandoned /\ Live(c)
    /\ abandoned' = abandoned \cup {c}
    /\ UNCHANGED <<at, findings, entry, fetching, version, ports, dnspython, relied>>

-----------------------------------------------------------------------------
\* tls.py: the certificate handshake, once per scan

Handshakes ==
    {[status |-> "OK", version |-> v, cert |-> {x}] : v \in Offered, x \in Certs}
    \cup {[status |-> s, version |-> v, cert |-> {}] :
              s \in {"PARSE_FAILED", "CRYPTOGRAPHY_UNAVAILABLE"}, v \in Offered}
    \cup {[status |-> "CONNECTION_FAILED", version |-> "none", cert |-> {}]}

Reusable(r) == r.status \in {"OK", "PARSE_FAILED", "CRYPTOGRAPHY_UNAVAILABLE"}

CachedVersion == entry.version

ExpiryFinding(r) ==
    CASE r.status = "CONNECTION_FAILED"        -> Finding("SKIP", "connection")
      [] r.status = "CRYPTOGRAPHY_UNAVAILABLE" -> Finding("SKIP", "library")
      [] r.status = "PARSE_FAILED"             -> Finding("ERROR", "parse")
      [] r.status = "OK" ->
            LET days == (CHOOSE x \in r.cert : TRUE).days
            IN  IF days < 0 THEN Finding("FAIL", "expired")
                ELSE IF days < 14 THEN Finding("FAIL", "expiring")
                ELSE Finding("PASS", "valid")

SelfSignedFinding(r) ==
    IF r.status = "OK"
    THEN IF \A x \in r.cert : x.selfSigned THEN Finding("FAIL", "self-signed")
                                           ELSE Finding("FAIL", "self-issued")
    ELSE Finding("FAIL", "self_signed")

\* What check_certificate_expiry, or check_certificate_hostname, makes of a handshake.
Conclude(c, r) ==
    /\ GoBy(c, "handshake", {r})
    /\ Return(c, IF c = "tls.expiry" THEN ExpiryFinding(r) ELSE SelfSignedFinding(r))

ReuseHandshake(c) ==
    /\ at[c] = "retrieve"
    /\ entry # NoHandshake
    /\ Conclude(c, entry)
    /\ UNCHANGED shared

AnyTime    == TRUE                                                       \* mutant
NobodyElse == fetching = "nobody"

BeginFetch(c) ==
    /\ at[c] = "retrieve"
    /\ entry = NoHandshake /\ NobodyElse
    /\ fetching' = c
    /\ GoTo(c, "fetch")
    /\ UNCHANGED <<findings, abandoned, entry, version, ports, dnspython, relied>>

KeptBusy(r) == IF Reusable(r) THEN "nobody" ELSE fetching                \* mutant
Unlocked(r) == "nobody"

FetchEnds(c) ==
    /\ at[c] = "fetch"
    /\ \E r \in Handshakes :
          /\ entry' = IF Reusable(r) THEN r ELSE entry
          /\ fetching' = Unlocked(r)
          /\ Conclude(c, r)
    /\ UNCHANGED <<abandoned, version, ports, dnspython>>

-----------------------------------------------------------------------------
\* tls.py: the protocol versions

ProbeReuses ==
    /\ at["tls.versions"] = "probe"
    /\ GoTo("tls.versions", IF CachedVersion \in {"TLSv1.3", "TLSv1.2"} THEN "look" ELSE "TLSv1.3")
    /\ UNCHANGED <<findings, shared, relied>>

ProbeConnects ==
    /\ at["tls.versions"] \in {"TLSv1.3", "TLSv1.2"} \ Untestable
    /\ GoTo("tls.versions", "look")
    /\ UNCHANGED <<findings, shared, relied>>

ProbeFails ==
    /\ \/ /\ at["tls.versions"] = "TLSv1.3"
          /\ GoTo("tls.versions", "TLSv1.2")
          /\ UNCHANGED findings
       \/ /\ at["tls.versions"] = "TLSv1.2"
          /\ Return("tls.versions", Finding("SKIP", "service"))
    /\ UNCHANGED <<shared, relied>>

VersionFindings(v, status) ==
    CASE status = "SUPPORTED"     -> IF v \in Deprecated THEN Finding("FAIL", v) ELSE <<>>
      [] status = "INCONCLUSIVE"  -> Finding("INCONCLUSIVE", v)
      [] status = "UNAVAILABLE"   -> Finding("ERROR", v)

\* The next version, or the end of the loop.
Tested(status) ==
    LET fs == VersionFindings(VersionsToTest[version], status)
    IN  /\ version' = version + 1
        /\ IF version = Len(VersionsToTest)
           THEN Return("tls.versions", fs)
           ELSE /\ GoTo("tls.versions", "look")
                /\ findings' = [findings EXCEPT !["tls.versions"] = @ \o fs]
        /\ UNCHANGED <<abandoned, entry, fetching, ports, dnspython>>

AnyMatches(v)    == CachedVersion # "none"                               \* mutant
NeverMatches(v)  == FALSE                                                \* mutant
CachedMatches(v) == CachedVersion = v

LookForVersion ==
    LET v == VersionsToTest[version]
    IN  /\ at["tls.versions"] = "look"
        /\ CASE v \in Untestable                       -> Tested("INCONCLUSIVE") /\ UNCHANGED relied
             [] v \notin Untestable /\ CachedMatches(v) ->
                    Tested("SUPPORTED") /\ GoBy("tls.versions", CachedVersion, {})
             [] OTHER -> /\ GoTo("tls.versions", "connect")
                         /\ UNCHANGED <<findings, shared, relied>>

TestVersion ==
    /\ at["tls.versions"] = "connect"
    /\ \/ Tested("SUPPORTED") /\ GoBy("tls.versions", VersionsToTest[version], {})
       \/ Tested("INCONCLUSIVE") /\ UNCHANGED relied
       \/ Tested("UNAVAILABLE") /\ UNCHANGED relied

-----------------------------------------------------------------------------
\* tls.py: the host name

\* Errors of the verification, as _classify_verification_error tells them apart.
Kinds == {"hostname_mismatch", "self_signed", "expired", "other"}

\* An SSL error of another kind is an OSError.
VerifyFails(outcome) ==
    CASE outcome = "network"    -> Finding("SKIP", "connection")
      [] outcome = "unexpected" -> Finding("ERROR", "unexpected")
      [] outcome = "expired"    -> <<>>
      [] OTHER                  -> Finding("FAIL", outcome)

CheckHostname ==
    /\ at["tls.hostname"] = "verify"
    /\ \/ /\ Return("tls.hostname", Finding("PASS", "valid"))
          /\ UNCHANGED relied
       \/ /\ GoTo("tls.hostname", "retrieve")
          /\ GoBy("tls.hostname", "self_signed", {})
          /\ UNCHANGED findings
       \/ \E kind \in Kinds \ {"self_signed"} :
             Return("tls.hostname", VerifyFails(kind)) /\ GoBy("tls.hostname", kind, {})
       \/ \E trouble \in {"network", "unexpected"} :
             Return("tls.hostname", VerifyFails(trouble)) /\ UNCHANGED relied
    /\ UNCHANGED shared

-----------------------------------------------------------------------------
\* http_security.py

\* Findings come in the order of the table.
Missing(present) ==
    LET absent == SetToSeq(Headers \ present)
    IN  [i \in DOMAIN absent |-> Finding("OBSERVATION", absent[i])[1]]

CheckHeaders ==
    /\ at["http_headers"] = "request"
    /\ \/ \E present \in SUBSET Headers, shown \in BOOLEAN :
             Return("http_headers",
                    Missing(present) \o IF shown THEN Finding("OBSERVATION", "server") ELSE <<>>)
       \/ \E present \in SUBSET Headers : Return("http_headers", Missing(present))
       \/ Return("http_headers", Finding("SKIP", "connection"))
       \/ Return("http_headers", Finding("ERROR", "unexpected"))
    /\ UNCHANGED <<shared, relied>>

-----------------------------------------------------------------------------
\* dns_security.py

DnssecFindings(status) ==
    CASE status = "KEYS_DETECTED"    -> <<>>
      [] status = "NOT_DETECTED"     -> Finding("OBSERVATION", "dnssec")
      [] status = "INCONCLUSIVE"     -> Finding("INCONCLUSIVE", "dnssec")
      [] status = "TOOL_UNAVAILABLE" -> Finding("SKIP", "dnssec")
      [] status = "ERROR"            -> Finding("ERROR", "dnssec")

\* What _dnskey_query may return: INCONCLUSIVE for SERVFAIL, NXDOMAIN, a timeout, a refusal.
Answers == {"KEYS_DETECTED", "NOT_DETECTED", "INCONCLUSIVE", "ERROR"}

EveryAnswer(status) == TRUE                                              \* mutant
Conclusive(status)  == status # "NOT_DETECTED"

QueryName ==
    /\ at["dnssec"] = "query"
    /\ \E a \in Answers :
          /\ GoBy("dnssec", "name", {a})
          /\ IF Conclusive(a)
             THEN Return("dnssec", DnssecFindings(a))
             ELSE GoTo("dnssec", "apex") /\ UNCHANGED findings
    /\ UNCHANGED shared

\* _find_zone_apex: no zone below the root, the name itself, or a zone above it.
FindApex ==
    /\ at["dnssec"] = "apex"
    /\ \/ Return("dnssec", DnssecFindings("INCONCLUSIVE")) /\ UNCHANGED relied
       \/ Return("dnssec", DnssecFindings("NOT_DETECTED")) /\ GoBy("dnssec", "apex", {"itself"})
       \/ GoTo("dnssec", "zone") /\ UNCHANGED <<findings, relied>>
    /\ UNCHANGED shared

QueryApex ==
    /\ at["dnssec"] = "zone"
    /\ \E a \in Answers :
          GoBy("dnssec", "apex", {a}) /\ Return("dnssec", DnssecFindings(a))
    /\ UNCHANGED shared

\* dig +short exits with 0 and prints nothing for SERVFAIL and NXDOMAIN too.
Dig ==
    /\ at["dnssec"] = "dig"
    /\ \E status \in Answers \cup {"TOOL_UNAVAILABLE"} : Return("dnssec", DnssecFindings(status))
    /\ UNCHANGED <<shared, relied>>

\* accepted: {TRUE}, {FALSE} or, for None, {}
ResolverFindings(accepted) ==
    CASE accepted = {TRUE}  -> Finding("FAIL", "open_resolver")
      [] accepted = {FALSE} -> <<>>
      [] accepted = {}      -> Finding("INCONCLUSIVE", "open_resolver")

ResolveServer ==
    /\ at["open_resolver"] = "resolve"
    /\ \/ Return("open_resolver", ResolverFindings({}))
       \/ GoTo("open_resolver", "ask") /\ UNCHANGED findings
    /\ UNCHANGED <<shared, relied>>

\* Any answer to the recursive query, NXDOMAIN and an empty one included, counts as accepted.
AskServer ==
    /\ at["open_resolver"] \in {"ask", "dig"}
    /\ \/ Return("open_resolver", ResolverFindings({TRUE})) /\ GoBy("open_resolver", "answer", {})
       \/ Return("open_resolver", ResolverFindings({FALSE})) /\ UNCHANGED relied
       \/ Return("open_resolver", ResolverFindings({})) /\ UNCHANGED relied
    /\ UNCHANGED shared

-----------------------------------------------------------------------------
\* exposure.py

\* "failed": _check_port raised, for a name that cannot be resolved for example.
CheckPort(p) ==
    /\ at["tcp_exposure"] = "ports" /\ ports[p] = "untried"
    /\ \E outcome \in {"reachable", "closed", "failed"} : ports' = [ports EXCEPT ![p] = outcome]
    /\ UNCHANGED <<at, findings, abandoned, entry, fetching, version, dnspython, relied>>

Reachable == {p \in Ports : ports[p] = "reachable"}

CollectPorts ==
    /\ at["tcp_exposure"] = "ports"
    /\ \A p \in Ports : ports[p] # "untried"
    /\ Return("tcp_exposure",
              IF Reachable = {} THEN Finding("PASS", "ports")
              ELSE LET open == SetToSortSeq(Reachable, <)
                   IN  [i \in DOMAIN open |-> Finding("OBSERVATION", open[i])[1]])
    /\ UNCHANGED <<shared, relied>>

-----------------------------------------------------------------------------
RunTls(c) ==
    \/ c # "tls.versions" /\ (ReuseHandshake(c) \/ BeginFetch(c) \/ FetchEnds(c))
    \/ c = "tls.versions" /\ (ProbeReuses \/ ProbeConnects \/ ProbeFails \/ LookForVersion \/ TestVersion)
    \/ c = "tls.hostname" /\ CheckHostname

Run(c) ==
    \/ c \in TlsChecks /\ RunTls(c)
    \/ c = "http_headers" /\ CheckHeaders
    \/ c = "dnssec" /\ (QueryName \/ FindApex \/ QueryApex \/ Dig)
    \/ c = "open_resolver" /\ (ResolveServer \/ AskServer)
    \/ c = "tcp_exposure" /\ (CollectPorts \/ \E p \in Ports : CheckPort(p))

Next == \E c \in Checks : Start(c) \/ Abandon(c) \/ Run(c)

Spec == Init /\ [][Next]_vars

\* The runner starts what may start, and every connection and query has a timeout.
FairSpec == Spec /\ \A c \in Checks : WF_vars(Start(c)) /\ WF_vars(Run(c))

-----------------------------------------------------------------------------
Found(c) == ToSet(findings[c])

HandshakesOf(c) == UNION {f[3] : f \in {g \in relied : g[1] = c /\ g[2] = "handshake"}}

\* A FAIL rests on what the target did in this scan, never on a failed connection: on a
\* handshake at that deprecated version, a certificate that was read, a verification that
\* the certificate did not pass, an answer to the recursive query.  And no deprecated
\* version that was negotiated goes unreported.
FailEarned ==
    /\ \A f \in Found("tls.versions") : f.status = "FAIL" => <<"tls.versions", f.about, {}>> \in relied
    /\ at["tls.versions"] = "returned" =>
          \A v \in Deprecated : <<"tls.versions", v, {}>> \in relied =>
              [status |-> "FAIL", about |-> v] \in Found("tls.versions")
    /\ \A f \in Found("tls.expiry") : f.status = "FAIL" =>
          \E r \in HandshakesOf("tls.expiry") : \E x \in r.cert : x.days < 14
    /\ \A f \in Found("tls.hostname") : f.status = "FAIL" =>
          \E kind \in Kinds : <<"tls.hostname", kind, {}>> \in relied
    /\ \A f \in Found("open_resolver") : f.status = "FAIL" => <<"open_resolver", "answer", {}>> \in relied

\* One certificate handshake serves the whole scan: the checks that speak of a certificate,
\* those of abandoned steps included, speak of the same one.
OneHandshake ==
    \A r, s \in HandshakesOf("tls.expiry") \cup HandshakesOf("tls.hostname") :
        Reusable(r) /\ Reusable(s) => r = s

\* The report does not contradict itself: what the certificate check negotiated, the
\* version check neither fails to confirm nor calls inconclusive or unreachable.
NoContradiction ==
    "tls.expiry" \notin abandoned =>
        \A r \in HandshakesOf("tls.expiry"), f \in Found("tls.versions") :
            /\ r.version \in {"TLSv1.2", "TLSv1.3"} => f.about # "service"
            /\ f.about = r.version => f.status = "FAIL"

\* With dnspython, "not detected" is said of a zone whose apex has been asked and has no
\* keys, and nothing is said only of one that has keys.
DnssecEarned ==
    dnspython =>
        /\ \A f \in Found("dnssec") : f.status = "OBSERVATION" =>
              \/ <<"dnssec", "apex", {"NOT_DETECTED"}>> \in relied
              \/ {<<"dnssec", "apex", {"itself"}>>, <<"dnssec", "name", {"NOT_DETECTED"}>>} \subseteq relied
        /\ at["dnssec"] = "returned" /\ Found("dnssec") = {} =>
              \E which \in {"name", "apex"} : <<"dnssec", which, {"KEYS_DETECTED"}>> \in relied

\* Every check returns, also one that waits for the handshake of an abandoned one.
ChecksReturn == <>(\A c \in Checks : at[c] \in {"absent", "returned"})

\* "All closed or filtered" is said only of ports that a connection was tried to.
PassMeansTried ==
    \A f \in Found("tcp_exposure") : f.status = "PASS" => \A p \in Ports : ports[p] = "closed"
-----------------------------------------------------------------------------
(* The inductive invariant behind FailEarned, OneHandshake, NoContradiction and DnssecEarned *)

Statuses == {"PASS", "FAIL", "SKIP", "ERROR", "OBSERVATION", "INCONCLUSIVE"}
Subjects == Versions \cup Kinds
            \cup {"connection", "library", "parse", "expiring", "valid", "self-signed", "self-issued",
                  "service", "unexpected", "dnssec", "open_resolver"}
Reported == [status : Statuses, about : Subjects]

\* (The findings of the headers and of the ports are not followed.)
Types ==
    /\ DOMAIN at = Checks /\ DOMAIN findings = Checks
    /\ \A c \in Checks \ {"http_headers", "tcp_exposure"} : findings[c] \in Seq(Reported)
    /\ entry \in Handshakes \cup {NoHandshake}
    /\ version \in Nat

\* Whoever fetches has the key's lock, and finds the cache empty; what a check went by is what
\* the cache keeps, unless it is not kept at all.
FetchedOnce ==
    /\ \A c \in Checks : at[c] = "fetch" => fetching = c /\ entry = NoHandshake
    /\ \A c \in {"tls.expiry", "tls.hostname"} : \A r \in HandshakesOf(c) :
          r \in Handshakes /\ (Reusable(r) => entry = r)

\* The version check follows the certificate check, unless that was abandoned, and what that
\* has negotiated it need not try.
VersionsFollow ==
    LET known == UNION {{r.version} : r \in HandshakesOf("tls.expiry")}
    IN  /\ at["tls.versions"] # "returned" => version \in DOMAIN VersionsToTest
        /\ known # {} => at["tls.expiry"] = "returned"
        /\ "tls.expiry" \notin abandoned =>
              /\ at["tls.versions"] \notin {"absent", "waiting"} => at["tls.expiry"] \in {"absent", "returned"}
              /\ at["tls.versions"] \in {"TLSv1.3", "TLSv1.2"} => known \cap {"TLSv1.2", "TLSv1.3"} = {}
              /\ at["tls.versions"] = "connect" => VersionsToTest[version] \notin known
              /\ at["tls.versions"] \in {"absent", "waiting"} => Found("tls.versions") = {}

\* A deprecated version is reported as it is met.
VersionsTrue ==
    /\ \A f \in Found("tls.versions") : f.status = "FAIL" => <<"tls.versions", f.about, {}>> \in relied
    /\ \A v \in Deprecated : <<"tls.versions", v, {}>> \in relied =>
          [status |-> "FAIL", about |-> v] \in Found("tls.versions")

ExpiryTrue ==
    \A f \in Found("tls.expiry") : f.status = "FAIL" =>
        \E r \in HandshakesOf("tls.expiry") : \E x \in r.cert : x.days < 14

HostnameTrue ==
    /\ at["tls.hostname"] \in {"retrieve", "fetch"} => <<"tls.hostname", "self_signed", {}>> \in relied
    /\ \A f \in Found("tls.hostname") : f.status = "FAIL" =>
          \E kind \in Kinds : <<"tls.hostname", kind, {}>> \in relied

ResolverTrue ==
    \A f \in Found("open_resolver") : f.status = "FAIL" => <<"open_resolver", "answer", {}>> \in relied

DnssecTrue ==
    dnspython =>
        /\ at["dnssec"] # "dig"
        /\ at["dnssec"] = "apex" => <<"dnssec", "name", {"NOT_DETECTED"}>> \in relied
        /\ DnssecEarned

IInv ==
    /\ Types /\ FetchedOnce /\ VersionsFollow /\ VersionsTrue /\ ExpiryTrue /\ HostnameTrue
    /\ ResolverTrue /\ DnssecTrue /\ NoContradiction

-----------------------------------------------------------------------------
(* The safety behind ChecksReturn *)

Stages == {"absent", "waiting", "returned", "retrieve", "fetch", "probe", "TLSv1.3", "TLSv1.2",
           "look", "connect", "verify", "request", "query", "apex", "zone", "dig", "resolve", "ask",
           "ports"}

\* The most steps a check may still take from a stage, with the version loop at v; each port the
\* exposure check tries is one beside them.
StepsLeft(stage, v) ==
    CASE stage \in {"absent", "returned"}                               -> 0
      [] stage \in {"fetch", "zone", "ask", "dig", "request", "ports"}  -> 1
      [] stage \in {"retrieve", "apex", "resolve"}                      -> 2
      [] stage \in {"verify", "query"}                                  -> 3
      [] stage = "look"    -> 2 * (5 - v) + 2
      [] stage = "connect" -> 2 * (5 - v) + 1
      [] stage = "TLSv1.2" -> 11
      [] stage = "TLSv1.3" -> 12
      [] stage = "probe"   -> 13
      [] stage = "waiting" -> 14

ToGo(c) == StepsLeft(at[c], version)

Tried == {p \in Ports : ports[p] # "untried"}

Staged ==
    \A c \in Checks : at[c] \in Stages /\ (at[c] \in {"look", "connect"} => c = "tls.versions")

\* The lock of the handshake is held only by a check that is at the handshake, also when the
\* runner has given that check up; and no check has more than so many steps to go.
LockInUse ==
    /\ fetching # "nobody" => fetching \in TlsChecks /\ at[fetching] = "fetch"
    /\ \A c \in Checks : ToGo(c) \in 0..14

\* Every step brings the audit closer to its end: a check has fewer steps to go, or a port more
\* is tried, or a check more is given up, and none of that is ever taken back.
CloserToEnd ==
    [][/\ \A c \in Checks : ToGo(c)' <= ToGo(c)
       /\ Tried \subseteq Tried' /\ abandoned \subseteq abandoned'
       /\ \/ \E c \in Checks : ToGo(c)' < ToGo(c)
          \/ Tried' # Tried
          \/ abandoned' # abandoned]_vars
=============================================================================
