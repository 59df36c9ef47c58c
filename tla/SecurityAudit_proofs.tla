-------------------------- MODULE SecurityAudit_proofs --------------------------
(***************************************************************************)
(* Proofs about the security checks of one scan, for any certificates,     *)
(* versions, headers and ports, and any sets of checks run together.       *)
(***************************************************************************)
EXTENDS SecurityAudit, TLAPS

Followed == Checks \ {"http_headers", "tcp_exposure"}

\* What a sequence of findings holds, once others are behind them.
LEMMA Behind ==
  ASSUME NEW S, NEW s \in Seq(S), NEW t \in Seq(S)
  PROVE  s \o t \in Seq(S) /\ ToSet(s \o t) = ToSet(s) \cup ToSet(t)
<1> DEFINE p == s \o t
<1>1. /\ p \in Seq(S) /\ Len(s) \in Nat /\ Len(t) \in Nat /\ Len(p) = Len(s) + Len(t)
      /\ \A i \in 1..Len(s) : p[i] = s[i]
      /\ \A i \in 1..Len(t) : p[Len(s) + i] = t[i]
  OBVIOUS
<1>2. DOMAIN s = 1..Len(s) /\ DOMAIN t = 1..Len(t) /\ DOMAIN p = 1..Len(p)
  BY <1>1
<1> HIDE DEF p
<1>3. ASSUME NEW i \in 1..Len(s) PROVE s[i] \in ToSet(p)
  <2>1. i \in 1..Len(p) /\ p[i] = s[i]
    BY <1>1, <1>3
  <2> QED
    BY <1>2, <2>1 DEF ToSet
<1>4. ASSUME NEW i \in 1..Len(t) PROVE t[i] \in ToSet(p)
  <2>1. Len(s) + i \in 1..Len(p) /\ p[Len(s) + i] = t[i]
    BY <1>1, <1>4
  <2> QED
    BY <1>2, <2>1 DEF ToSet
<1>5. ASSUME NEW i \in 1..Len(p) PROVE p[i] \in ToSet(s) \cup ToSet(t)
  <2>1. CASE i \in 1..Len(s)
    BY <1>1, <1>2, <2>1 DEF ToSet
  <2>2. CASE i \notin 1..Len(s)
    <3>1. i - Len(s) \in 1..Len(t) /\ Len(s) + (i - Len(s)) = i
      BY <1>1, <1>5, <2>2
    <3>2. p[i] = t[i - Len(s)]
      BY <1>1, <3>1
    <3> QED
      BY <1>2, <3>1, <3>2 DEF ToSet
  <2> QED
    BY <2>1, <2>2
<1>6. ToSet(p) = ToSet(s) \cup ToSet(t)
  BY <1>2, <1>3, <1>4, <1>5 DEF ToSet
<1> QED
  BY <1>1, <1>6 DEF p

\* No finding, and one.
LEMMA NoFinding == <<>> \in Seq(Reported) /\ ToSet(<<>>) = {}
BY DEF ToSet

LEMMA OneFinding ==
  ASSUME NEW status \in Statuses, NEW about \in Subjects
  PROVE  /\ Finding(status, about) \in Seq(Reported)
         /\ \A f \in ToSet(Finding(status, about)) : f.status = status /\ f.about = about
         /\ [status |-> status, about |-> about] \in ToSet(Finding(status, about))
<1> DEFINE f == [status |-> status, about |-> about]
<1>1. f \in Reported /\ f.status = status /\ f.about = about
  BY DEF Reported
<1>2. Finding(status, about) = <<f>>
  BY DEF Finding
<1> HIDE DEF f
<1>3. <<f>> \in Seq(Reported) /\ ToSet(<<f>>) = {f}
  BY <1>1 DEF ToSet
<1>4. f = [status |-> status, about |-> about]
  BY DEF f
<1> QED
  BY <1>1, <1>2, <1>3, <1>4

\* A check reports.
LEMMA Reports ==
  ASSUME Types, NEW c \in Followed, NEW fs \in Seq(Reported),
         findings' = [findings EXCEPT ![c] = @ \o fs]
  PROVE  findings'[c] \in Seq(Reported) /\ Found(c)' = Found(c) \cup ToSet(fs)
<1>1. findings[c] \in Seq(Reported) /\ findings'[c] = findings[c] \o fs
  BY DEF Types, Followed
<1>2. /\ findings[c] \o fs \in Seq(Reported)
      /\ ToSet(findings[c] \o fs) = ToSet(findings[c]) \cup ToSet(fs)
  BY <1>1, Behind
<1> QED
  BY <1>1, <1>2 DEF Found

\* A check goes by something: no other check has gone by a handshake for it.
LEMMA GoesBy ==
  ASSUME NEW c, NEW what, NEW data, GoBy(c, what, data)
  PROVE  /\ \A d : d # c => HandshakesOf(d)' = HandshakesOf(d)
         /\ what = "handshake" => HandshakesOf(c)' = HandshakesOf(c) \cup data
         /\ what # "handshake" => HandshakesOf(c)' = HandshakesOf(c)
<1> DEFINE new == <<c, what, data>>
<1>1. new[1] = c /\ new[2] = what /\ new[3] = data
  OBVIOUS
<1>2. relied' = relied \cup {new}
  BY DEF GoBy
<1> HIDE DEF new
<1>3. ASSUME NEW d
      PROVE  {g \in relied' : g[1] = d /\ g[2] = "handshake"}
                = {g \in relied : g[1] = d /\ g[2] = "handshake"}
                  \cup (IF c = d /\ what = "handshake" THEN {new} ELSE {})
  BY <1>1, <1>2
<1>4. ASSUME NEW d, ~(c = d /\ what = "handshake")
      PROVE  HandshakesOf(d)' = HandshakesOf(d)
  BY <1>3, <1>4 DEF HandshakesOf
<1>5. ASSUME what = "handshake"
      PROVE  HandshakesOf(c)' = HandshakesOf(c) \cup data
  <2> DEFINE old == {g \in relied : g[1] = c /\ g[2] = "handshake"}
  <2>1. {g \in relied' : g[1] = c /\ g[2] = "handshake"} = old \cup {new}
    BY <1>3, <1>5
  <2>2. UNION {f[3] : f \in old \cup {new}} = (UNION {f[3] : f \in old}) \cup new[3]
    OBVIOUS
  <2>3. HandshakesOf(c)' = UNION {f[3] : f \in old \cup {new}}
    BY <2>1 DEF HandshakesOf
  <2> QED
    BY <1>1, <2>2, <2>3 DEF HandshakesOf
<1> QED
  BY <1>4, <1>5

-----------------------------------------------------------------------------
(* A step of one check leaves the others alone *)

Own(c) ==
    /\ UNCHANGED at \/ \E stage : GoTo(c, stage)
    /\ UNCHANGED findings \/ \E fs : findings' = [findings EXCEPT ![c] = @ \o fs]
    /\ UNCHANGED relied \/ \E what, data : GoBy(c, what, data)
    /\ UNCHANGED <<dnspython, abandoned>>

LEMMA RunOwn ==
  ASSUME NEW c \in Checks, Run(c)
  PROVE  Own(c)
<1> USE DEF Own, shared, Return
<1>1. ASSUME NEW r, Conclude(c, r), UNCHANGED <<dnspython, abandoned>> PROVE Own(c)
  BY <1>1 DEF Conclude
<1>2. ASSUME NEW status, Tested(status), c = "tls.versions",
             UNCHANGED relied \/ \E what, data : GoBy(c, what, data)
      PROVE  Own(c)
  BY <1>2 DEF Tested
<1>3. CASE ReuseHandshake(c) \/ BeginFetch(c) \/ FetchEnds(c)
  BY <1>1, <1>3 DEF ReuseHandshake, BeginFetch, FetchEnds
<1>4. CASE c = "tls.versions" /\ (ProbeReuses \/ ProbeConnects \/ ProbeFails)
  BY <1>4 DEF ProbeReuses, ProbeConnects, ProbeFails
<1>5. CASE c = "tls.versions" /\ (LookForVersion \/ TestVersion)
  BY <1>2, <1>5 DEF LookForVersion, TestVersion
<1>6. CASE c = "tls.hostname" /\ CheckHostname
  BY <1>6 DEF CheckHostname
<1>7. CASE c = "http_headers" /\ CheckHeaders
  BY <1>7 DEF CheckHeaders
<1>8. CASE c = "dnssec" /\ (QueryName \/ FindApex \/ QueryApex \/ Dig)
  BY <1>8 DEF QueryName, FindApex, QueryApex, Dig
<1>9. CASE c = "open_resolver" /\ (ResolveServer \/ AskServer)
  BY <1>9 DEF ResolveServer, AskServer
<1>10. CASE c = "tcp_exposure" /\ (CollectPorts \/ \E p \in Ports : CheckPort(p))
  BY <1>10 DEF CollectPorts, CheckPort
<1> QED
  BY <1>3, <1>4, <1>5, <1>6, <1>7, <1>8, <1>9, <1>10 DEF Run, RunTls

LEMMA OthersKept ==
  ASSUME Types, NEW c \in Checks, Own(c)
  PROVE  /\ DOMAIN at' = Checks /\ DOMAIN findings' = Checks
         /\ relied \subseteq relied' /\ UNCHANGED <<dnspython, abandoned>>
         /\ \A d \in Checks \ {c} :
               /\ at'[d] = at[d] /\ findings'[d] = findings[d]
               /\ Found(d)' = Found(d) /\ HandshakesOf(d)' = HandshakesOf(d)
               /\ \A what, data : <<d, what, data>> \in relied' => <<d, what, data>> \in relied
<1>1. DOMAIN at' = Checks /\ \A d \in Checks \ {c} : at'[d] = at[d]
  BY DEF Own, Types, GoTo
<1>2. DOMAIN findings' = Checks /\ \A d \in Checks \ {c} : findings'[d] = findings[d]
  BY DEF Own, Types
<1>3. relied \subseteq relied' /\ UNCHANGED <<dnspython, abandoned>>
  BY DEF Own, GoBy
<1>4. \A d \in Checks \ {c} : HandshakesOf(d)' = HandshakesOf(d)
  <2>1. CASE UNCHANGED relied
    BY <2>1 DEF HandshakesOf
  <2>2. CASE \E what, data : GoBy(c, what, data)
    BY <2>2, GoesBy
  <2> QED
    BY <2>1, <2>2 DEF Own
<1>5. \A d \in Checks \ {c} : \A what, data : <<d, what, data>> \in relied' => <<d, what, data>> \in relied
  BY DEF Own, GoBy
<1> QED
  BY <1>1, <1>2, <1>3, <1>4, <1>5 DEF Found

\* The runner's steps, and none: only where a check is may change, from waiting to its first stage.
LEMMA RunnerKeeps ==
  ASSUME Types, (\E c \in Checks : Start(c) \/ Abandon(c)) \/ UNCHANGED vars
  PROVE  /\ UNCHANGED <<findings, relied, entry, fetching, version, dnspython>>
         /\ DOMAIN at' = Checks /\ abandoned \subseteq abandoned'
         /\ \A d \in Checks : at'[d] = at[d] \/ (at[d] = "waiting" /\ at'[d] = FirstStage(d))
         /\ at'["tls.versions"] = at["tls.versions"] \/ Over("tls.expiry")
         /\ \A d \in Checks : Found(d)' = Found(d) /\ HandshakesOf(d)' = HandshakesOf(d)
<1>1. /\ UNCHANGED <<findings, relied, entry, fetching, version, dnspython>>
      /\ DOMAIN at' = Checks /\ abandoned \subseteq abandoned'
      /\ \A d \in Checks : at'[d] = at[d] \/ (at[d] = "waiting" /\ at'[d] = FirstStage(d))
  BY DEF Start, Abandon, vars, shared, Types, GoTo
<1>2. at'["tls.versions"] = at["tls.versions"] \/ Over("tls.expiry")
  <2>1. CASE Start("tls.versions")
    BY <2>1 DEF Start, TlsChecks
  <2>2. CASE \E c \in Checks \ {"tls.versions"} : Start(c)
    BY <2>2 DEF Start, GoTo
  <2>3. CASE UNCHANGED at
    BY <2>3
  <2> QED
    BY <2>1, <2>2, <2>3 DEF Abandon, vars
<1> QED
  BY <1>1, <1>2 DEF Found, HandshakesOf

-----------------------------------------------------------------------------
(* What the checks find *)

LEMMA VersionList ==
  /\ DOMAIN VersionsToTest = 1..5 /\ Len(VersionsToTest) = 5
  /\ Versions = {"SSLv3", "TLSv1.0", "TLSv1.1", "TLSv1.2", "TLSv1.3"}
  /\ \A i \in 1..5 : VersionsToTest[i] \in Versions
<1>1. DOMAIN VersionsToTest = 1..5 /\ Len(VersionsToTest) = 5
  BY DEF VersionsToTest
<1>2. /\ VersionsToTest[1] = "SSLv3" /\ VersionsToTest[2] = "TLSv1.0" /\ VersionsToTest[3] = "TLSv1.1"
      /\ VersionsToTest[4] = "TLSv1.2" /\ VersionsToTest[5] = "TLSv1.3"
  BY DEF VersionsToTest
<1>3. \A i \in 1..5 : i = 1 \/ i = 2 \/ i = 3 \/ i = 4 \/ i = 5
  OBVIOUS
<1> HIDE DEF VersionsToTest
<1>4. Versions = {VersionsToTest[i] : i \in 1..5}
  BY <1>1 DEF Versions, ToSet
<1> QED
  BY <1>1, <1>2, <1>3, <1>4

\* What can be said, said.
LEMMA Told ==
  ASSUME NEW status \in {"PASS", "FAIL", "SKIP", "ERROR", "OBSERVATION", "INCONCLUSIVE"},
         NEW about, \/ about \in Versions
                    \/ about \in {"hostname_mismatch", "self_signed", "expired", "other", "connection",
                                  "library", "parse", "expiring", "valid", "self-signed", "self-issued",
                                  "service", "unexpected", "dnssec", "open_resolver"}
  PROVE  /\ Finding(status, about) \in Seq(Reported)
         /\ \A f \in ToSet(Finding(status, about)) : f.status = status /\ f.about = about
         /\ [status |-> status, about |-> about] \in ToSet(Finding(status, about))
<1>1. status \in Statuses /\ about \in Subjects
  BY DEF Statuses, Subjects, Kinds
<1> QED
  BY <1>1, OneFinding

LEMMA ExpiryFinds ==
  ASSUME NEW r \in Handshakes
  PROVE  /\ ExpiryFinding(r) \in Seq(Reported)
         /\ \A f \in ToSet(ExpiryFinding(r)) : f.status = "FAIL" => \E x \in r.cert : x.days < 14
<1>1. CASE r.status = "OK"
  <2>1. PICK c \in Certs : r.cert = {c}
    BY <1>1 DEF Handshakes
  <2>2. c.days \in Int
    BY AuditAssumption
  <2> DEFINE days == (CHOOSE x \in r.cert : TRUE).days
  <2>3. days = c.days
    BY <2>1
  <2>4. ExpiryFinding(r) = IF days < 0 THEN Finding("FAIL", "expired")
                           ELSE IF days < 14 THEN Finding("FAIL", "expiring")
                           ELSE Finding("PASS", "valid")
    BY <1>1 DEF ExpiryFinding
  <2> HIDE DEF days
  <2>5. \/ ExpiryFinding(r) = Finding("FAIL", "expired") /\ c.days < 14
        \/ ExpiryFinding(r) = Finding("FAIL", "expiring") /\ c.days < 14
        \/ ExpiryFinding(r) = Finding("PASS", "valid")
    BY <2>2, <2>3, <2>4
  <2>6. c \in r.cert
    BY <2>1
  <2>7. CASE ExpiryFinding(r) = Finding("FAIL", "expired") /\ c.days < 14
    <3>1. Finding("FAIL", "expired") \in Seq(Reported)
      BY Told
    <3> QED
      BY <2>6, <2>7, <3>1
  <2>8. CASE ExpiryFinding(r) = Finding("FAIL", "expiring") /\ c.days < 14
    <3>1. Finding("FAIL", "expiring") \in Seq(Reported)
      BY Told
    <3> QED
      BY <2>6, <2>8, <3>1
  <2>9. CASE ExpiryFinding(r) = Finding("PASS", "valid")
    <3>1. Finding("PASS", "valid") \in Seq(Reported) /\ \A f \in ToSet(Finding("PASS", "valid")) : f.status = "PASS"
      BY Told
    <3> QED
      BY <2>9, <3>1
  <2> QED
    BY <2>5, <2>7, <2>8, <2>9
<1>2. CASE r.status = "CONNECTION_FAILED"
  BY <1>2, Told DEF ExpiryFinding
<1>3. CASE r.status = "CRYPTOGRAPHY_UNAVAILABLE"
  BY <1>3, Told DEF ExpiryFinding
<1>4. CASE r.status = "PARSE_FAILED"
  BY <1>4, Told DEF ExpiryFinding
<1>5. r.status \in {"OK", "CONNECTION_FAILED", "CRYPTOGRAPHY_UNAVAILABLE", "PARSE_FAILED"}
  BY DEF Handshakes
<1> QED
  BY <1>1, <1>2, <1>3, <1>4, <1>5

LEMMA SelfSignedFinds == ASSUME NEW r PROVE SelfSignedFinding(r) \in Seq(Reported)
<1>1. \A about \in {"self-signed", "self-issued", "self_signed"} : Finding("FAIL", about) \in Seq(Reported)
  BY Told
<1> QED
  BY <1>1 DEF SelfSignedFinding

LEMMA VersionFinds ==
  ASSUME NEW v \in Versions, NEW status \in {"SUPPORTED", "INCONCLUSIVE", "UNAVAILABLE"}
  PROVE  /\ VersionFindings(v, status) \in Seq(Reported)
         /\ \A f \in ToSet(VersionFindings(v, status)) :
               f.about = v /\ (f.status = "FAIL" <=> status = "SUPPORTED")
         /\ status = "SUPPORTED" /\ v \in Deprecated =>
               [status |-> "FAIL", about |-> v] \in ToSet(VersionFindings(v, status))
<1>2. CASE status = "SUPPORTED" /\ v \in Deprecated
  BY <1>2, Told DEF VersionFindings
<1>3. CASE status = "SUPPORTED" /\ v \notin Deprecated
  <2>1. VersionFindings(v, status) = <<>>
    BY <1>3 DEF VersionFindings
  <2> QED
    BY <1>3, <2>1, NoFinding
<1>4. CASE status = "INCONCLUSIVE"
  <2>1. VersionFindings(v, status) = Finding("INCONCLUSIVE", v)
    BY <1>4 DEF VersionFindings
  <2>2. \A f \in ToSet(Finding("INCONCLUSIVE", v)) : f.status = "INCONCLUSIVE" /\ f.about = v
    BY Told
  <2>3. Finding("INCONCLUSIVE", v) \in Seq(Reported)
    BY Told
  <2> QED
    BY <1>4, <2>1, <2>2, <2>3
<1>5. CASE status = "UNAVAILABLE"
  <2>1. VersionFindings(v, status) = Finding("ERROR", v)
    BY <1>5 DEF VersionFindings
  <2>2. \A f \in ToSet(Finding("ERROR", v)) : f.status = "ERROR" /\ f.about = v
    BY Told
  <2>3. Finding("ERROR", v) \in Seq(Reported)
    BY Told
  <2> QED
    BY <1>5, <2>1, <2>2, <2>3
<1> QED
  BY <1>2, <1>3, <1>4, <1>5

LEMMA VerifyFinds ==
  ASSUME NEW outcome \in (Kinds \ {"self_signed"}) \cup {"network", "unexpected"}
  PROVE  /\ VerifyFails(outcome) \in Seq(Reported)
         /\ \A f \in ToSet(VerifyFails(outcome)) : f.status = "FAIL" => outcome \in Kinds
<1>1. CASE outcome = "network"
  BY <1>1, Told DEF VerifyFails
<1>2. CASE outcome = "unexpected"
  BY <1>2, Told DEF VerifyFails
<1>3. CASE outcome = "expired"
  BY <1>3, NoFinding DEF VerifyFails
<1>4. CASE outcome \in {"hostname_mismatch", "other"}
  BY <1>4, Told DEF VerifyFails
<1> QED
  BY <1>1, <1>2, <1>3, <1>4 DEF Kinds

LEMMA DnssecFinds ==
  ASSUME NEW status \in Answers \cup {"TOOL_UNAVAILABLE"}
  PROVE  /\ DnssecFindings(status) \in Seq(Reported)
         /\ \A f \in ToSet(DnssecFindings(status)) : f.status = "OBSERVATION" => status = "NOT_DETECTED"
         /\ ToSet(DnssecFindings(status)) = {} => status = "KEYS_DETECTED"
<1>2. CASE status = "KEYS_DETECTED"
  BY <1>2, NoFinding DEF DnssecFindings
<1>3. CASE status = "NOT_DETECTED"
  BY <1>3, Told DEF DnssecFindings
<1>4. CASE status = "INCONCLUSIVE"
  BY <1>4, Told DEF DnssecFindings
<1>5. CASE status = "TOOL_UNAVAILABLE"
  BY <1>5, Told DEF DnssecFindings
<1>6. CASE status = "ERROR"
  BY <1>6, Told DEF DnssecFindings
<1> QED
  BY <1>2, <1>3, <1>4, <1>5, <1>6 DEF Answers

LEMMA ResolverFinds ==
  ASSUME NEW accepted \in {{TRUE}, {FALSE}, {}}
  PROVE  /\ ResolverFindings(accepted) \in Seq(Reported)
         /\ \A f \in ToSet(ResolverFindings(accepted)) : f.status = "FAIL" => accepted = {TRUE}
<1>2. CASE accepted = {TRUE}
  BY <1>2, Told DEF ResolverFindings
<1>3. CASE accepted = {FALSE}
  <2>1. ResolverFindings(accepted) = <<>>
    BY <1>3 DEF ResolverFindings
  <2> QED
    BY <2>1, NoFinding
<1>4. CASE accepted = {}
  BY <1>4, Told DEF ResolverFindings
<1> QED
  BY <1>2, <1>3, <1>4

-----------------------------------------------------------------------------
(* Steps of the TLS checks *)

\* A certificate or host name check concludes from a handshake.
LEMMA Concluded ==
  ASSUME Types, NEW c \in {"tls.expiry", "tls.hostname"}, NEW r \in Handshakes, Conclude(c, r)
  PROVE  /\ at'[c] = "returned" /\ findings'[c] \in Seq(Reported)
         /\ HandshakesOf(c)' = HandshakesOf(c) \cup {r}
         /\ relied \subseteq relied'
         /\ c = "tls.expiry" => Found(c)' = Found(c) \cup ToSet(ExpiryFinding(r))
         /\ \A what : \A data : <<c, what, data>> \in relied' => <<c, what, data>> \in relied \/ what = "handshake"
<1>1. c \in Checks /\ c \in Followed
  BY DEF Followed, Checks, TlsChecks
<1>2. at'[c] = "returned"
  BY <1>1 DEF Conclude, Return, GoTo, Types
<1>3. HandshakesOf(c)' = HandshakesOf(c) \cup {r}
  BY GoesBy DEF Conclude
<1>4. relied \subseteq relied' /\ \A what : \A data :
         <<c, what, data>> \in relied' => <<c, what, data>> \in relied \/ what = "handshake"
  BY DEF Conclude, GoBy
<1>5. CASE c = "tls.expiry"
  <2>1. findings' = [findings EXCEPT ![c] = @ \o ExpiryFinding(r)]
    BY <1>5 DEF Conclude, Return
  <2>2. ExpiryFinding(r) \in Seq(Reported)
    BY ExpiryFinds
  <2>3. findings'[c] \in Seq(Reported) /\ Found(c)' = Found(c) \cup ToSet(ExpiryFinding(r))
    BY <1>1, <2>1, <2>2, Reports
  <2> QED
    BY <1>2, <1>3, <1>4, <2>3
<1>6. CASE c = "tls.hostname"
  <2>1. findings' = [findings EXCEPT ![c] = @ \o SelfSignedFinding(r)]
    BY <1>6 DEF Conclude, Return
  <2>2. SelfSignedFinding(r) \in Seq(Reported)
    BY SelfSignedFinds
  <2>3. findings'[c] \in Seq(Reported)
    BY <1>1, <2>1, <2>2, Reports
  <2> QED
    BY <1>2, <1>3, <1>4, <1>6, <2>3
<1> QED
  BY <1>5, <1>6

\* It reuses the handshake in the cache, or asks the target.
LEMMA FetchSteps ==
  ASSUME Types, FetchedOnce, NEW c \in {"tls.expiry", "tls.hostname"},
         ReuseHandshake(c) \/ BeginFetch(c) \/ FetchEnds(c)
  PROVE  /\ version' = version
         /\ \/ /\ at[c] = "retrieve" /\ at'[c] = "fetch" /\ entry = NoHandshake /\ entry' = entry
               /\ fetching = "nobody" /\ fetching' = c /\ findings' = findings /\ relied' = relied
            \/ \E r \in Handshakes :
                  /\ at[c] \in {"retrieve", "fetch"} /\ Conclude(c, r)
                  /\ Reusable(r) => entry' = r
                  /\ entry' = entry \/ (entry = NoHandshake /\ at[c] = "fetch" /\ entry' = r)
                  /\ at[c] = "retrieve" => entry' = entry /\ fetching' = fetching
<1>1. c \in Checks
  BY DEF Checks, TlsChecks
<1>2. CASE ReuseHandshake(c)
  <2>1. entry \in Handshakes
    BY <1>2 DEF ReuseHandshake, Types
  <2> QED
    BY <1>2, <2>1 DEF ReuseHandshake, shared
<1>3. CASE BeginFetch(c)
  BY <1>1, <1>3 DEF BeginFetch, NobodyElse, GoTo, Types
<1>4. CASE FetchEnds(c)
  <2>1. entry = NoHandshake /\ at[c] = "fetch"
    BY <1>1, <1>4 DEF FetchEnds, FetchedOnce
  <2>2. PICK r \in Handshakes : entry' = (IF Reusable(r) THEN r ELSE entry) /\ Conclude(c, r)
    BY <1>4 DEF FetchEnds
  <2>3. version' = version
    BY <1>4 DEF FetchEnds
  <2> QED
    BY <2>1, <2>2, <2>3
<1> QED
  BY <1>2, <1>3, <1>4

\* A version is tested, or one that is known is not.
LEMMA VersionTested ==
  ASSUME Types, VersionsFollow, LookForVersion \/ TestVersion
  PROVE  /\ at["tls.versions"] \in {"look", "connect"} /\ UNCHANGED <<entry, fetching>>
         /\ version \in 1..5 /\ VersionsToTest[version] \in Versions
         /\ \/ \E status \in {"SUPPORTED", "INCONCLUSIVE", "UNAVAILABLE"} :
                  /\ version' = version + 1
                  /\ at'["tls.versions"] = "returned" \/ (at'["tls.versions"] = "look" /\ version' \in 1..5)
                  /\ findings'["tls.versions"] \in Seq(Reported)
                  /\ Found("tls.versions")' =
                        Found("tls.versions") \cup ToSet(VersionFindings(VersionsToTest[version], status))
                  /\ IF status = "SUPPORTED" THEN GoBy("tls.versions", VersionsToTest[version], {})
                                             ELSE UNCHANGED relied
                  /\ \/ at["tls.versions"] = "connect" \/ VersionsToTest[version] \in Untestable
                     \/ status = "SUPPORTED"
            \/ /\ at["tls.versions"] = "look" /\ at'["tls.versions"] = "connect"
               /\ UNCHANGED <<version, findings, relied>> /\ entry.version # VersionsToTest[version]
<1> DEFINE v == VersionsToTest[version]
<1>1. at["tls.versions"] \in {"look", "connect"}
  BY DEF LookForVersion, TestVersion
<1>2. version \in 1..5 /\ v \in Versions
  BY <1>1, VersionList DEF VersionsFollow
<1>3. "tls.versions" \in Checks /\ "tls.versions" \in Followed
  BY DEF Followed, Checks, TlsChecks
<1>4. ASSUME NEW status \in {"SUPPORTED", "INCONCLUSIVE", "UNAVAILABLE"}, Tested(status)
      PROVE  /\ version' = version + 1 /\ UNCHANGED <<entry, fetching>>
             /\ at'["tls.versions"] = "returned" \/ (at'["tls.versions"] = "look" /\ version' \in 1..5)
             /\ findings'["tls.versions"] \in Seq(Reported)
             /\ Found("tls.versions")' = Found("tls.versions") \cup ToSet(VersionFindings(v, status))
  <2>1. findings' = [findings EXCEPT !["tls.versions"] = @ \o VersionFindings(v, status)]
    BY <1>4 DEF Tested, Return
  <2>2. version' = version + 1 /\ UNCHANGED <<entry, fetching>>
    BY <1>4 DEF Tested
  <2>3. VersionFindings(v, status) \in Seq(Reported)
    BY <1>2, VersionFinds
  <2>4. at'["tls.versions"] = "returned" \/ (at'["tls.versions"] = "look" /\ version # 5)
    BY <1>3, <1>4, VersionList DEF Tested, Return, GoTo, Types
  <2>5. version # 5 => version + 1 \in 1..5
    BY <1>2
  <2> HIDE DEF v
  <2>6. findings'["tls.versions"] \in Seq(Reported)
        /\ Found("tls.versions")' = Found("tls.versions") \cup ToSet(VersionFindings(v, status))
    BY <1>3, <2>1, <2>3, Reports
  <2> QED
    BY <2>2, <2>4, <2>5, <2>6
<1>5. CASE LookForVersion
  <2>1. CASE v \in Untestable
    <3>1. Tested("INCONCLUSIVE") /\ UNCHANGED relied
      BY <1>5, <2>1 DEF LookForVersion
    <3> QED
      BY <1>1, <1>2, <1>4, <2>1, <3>1
  <2>2. CASE v \notin Untestable /\ entry.version = v
    <3>1. Tested("SUPPORTED") /\ GoBy("tls.versions", v, {})
      BY <1>5, <2>2 DEF LookForVersion, CachedMatches, CachedVersion
    <3> QED
      BY <1>1, <1>2, <1>4, <3>1
  <2>3. CASE v \notin Untestable /\ entry.version # v
    <3>1. /\ at["tls.versions"] = "look" /\ GoTo("tls.versions", "connect")
          /\ UNCHANGED <<findings, shared, relied>>
      BY <1>5, <2>3 DEF LookForVersion, CachedMatches, CachedVersion
    <3> QED
      BY <1>1, <1>2, <1>3, <2>3, <3>1 DEF shared, GoTo, Types
  <2> QED
    BY <2>1, <2>2, <2>3
<1>6. CASE TestVersion
  <2>1. at["tls.versions"] = "connect"
    BY <1>6 DEF TestVersion
  <2>2. \/ Tested("SUPPORTED") /\ GoBy("tls.versions", v, {})
        \/ Tested("INCONCLUSIVE") /\ UNCHANGED relied
        \/ Tested("UNAVAILABLE") /\ UNCHANGED relied
    BY <1>6 DEF TestVersion
  <2>3. CASE Tested("SUPPORTED") /\ GoBy("tls.versions", v, {})
    BY <1>1, <1>2, <1>4, <2>1, <2>3
  <2>4. CASE Tested("INCONCLUSIVE") /\ UNCHANGED relied
    BY <1>1, <1>2, <1>4, <2>1, <2>4
  <2>5. CASE Tested("UNAVAILABLE") /\ UNCHANGED relied
    BY <1>1, <1>2, <1>4, <2>1, <2>5
  <2> QED
    BY <2>2, <2>3, <2>4, <2>5
<1> QED
  BY <1>5, <1>6

\* The probe before the versions: it goes by the handshake in the cache, or connects.
LEMMA ProbeSteps ==
  ASSUME Types, ProbeReuses \/ ProbeConnects \/ ProbeFails
  PROVE  /\ UNCHANGED <<entry, fetching, version, relied>>
         /\ findings'["tls.versions"] \in Seq(Reported)
         /\ \/ /\ at["tls.versions"] = "probe" /\ at'["tls.versions"] \in {"look", "TLSv1.3"}
               /\ Found("tls.versions")' = Found("tls.versions")
               /\ at'["tls.versions"] = "TLSv1.3" => entry.version \notin {"TLSv1.2", "TLSv1.3"}
            \/ /\ at["tls.versions"] \in {"TLSv1.3", "TLSv1.2"} /\ at'["tls.versions"] \in {"look", "TLSv1.2"}
               /\ Found("tls.versions")' = Found("tls.versions")
            \/ /\ at["tls.versions"] = "TLSv1.2" /\ at'["tls.versions"] = "returned"
               /\ \A f \in Found("tls.versions")' :
                     f \in Found("tls.versions") \/ (f.status = "SKIP" /\ f.about = "service")
<1>1. "tls.versions" \in Checks /\ "tls.versions" \in Followed
  BY DEF Followed, Checks, TlsChecks
<1>2. UNCHANGED <<entry, fetching, version, relied>>
  BY DEF ProbeReuses, ProbeConnects, ProbeFails, shared
<1>3. ASSUME UNCHANGED findings
      PROVE  findings'["tls.versions"] \in Seq(Reported) /\ Found("tls.versions")' = Found("tls.versions")
  BY <1>1, <1>3 DEF Types, Followed, Found
<1>4. CASE ProbeReuses
  <2>1. UNCHANGED findings /\ at["tls.versions"] = "probe"
        /\ at'["tls.versions"] = IF entry.version \in {"TLSv1.3", "TLSv1.2"} THEN "look" ELSE "TLSv1.3"
    BY <1>1, <1>4 DEF ProbeReuses, CachedVersion, GoTo, Types
  <2> QED
    BY <1>2, <1>3, <2>1
<1>5. CASE ProbeConnects
  <2>1. UNCHANGED findings /\ at["tls.versions"] \in {"TLSv1.3", "TLSv1.2"} /\ at'["tls.versions"] = "look"
    BY <1>1, <1>5 DEF ProbeConnects, GoTo, Types
  <2> QED
    BY <1>2, <1>3, <2>1
<1>6. CASE ProbeFails /\ at["tls.versions"] = "TLSv1.3"
  <2>1. UNCHANGED findings /\ at'["tls.versions"] = "TLSv1.2"
    BY <1>1, <1>6 DEF ProbeFails, GoTo, Types
  <2> QED
    BY <1>2, <1>3, <1>6, <2>1
<1>7. CASE ProbeFails /\ at["tls.versions"] = "TLSv1.2"
  <2>1. Return("tls.versions", Finding("SKIP", "service"))
    BY <1>7 DEF ProbeFails
  <2>2. at'["tls.versions"] = "returned"
    BY <1>1, <2>1 DEF Return, GoTo, Types
  <2>3. /\ Finding("SKIP", "service") \in Seq(Reported)
        /\ \A f \in ToSet(Finding("SKIP", "service")) : f.status = "SKIP" /\ f.about = "service"
    BY Told
  <2>4. findings' = [findings EXCEPT !["tls.versions"] = @ \o Finding("SKIP", "service")]
    BY <2>1 DEF Return
  <2>5. /\ findings'["tls.versions"] \in Seq(Reported)
        /\ Found("tls.versions")' = Found("tls.versions") \cup ToSet(Finding("SKIP", "service"))
    BY <1>1, <2>3, <2>4, Reports
  <2> QED
    BY <1>2, <1>7, <2>2, <2>3, <2>5
<1> QED
  BY <1>4, <1>5, <1>6, <1>7 DEF ProbeFails

\* The verification of the host name.
LEMMA HostnameSteps ==
  ASSUME Types, CheckHostname
  PROVE  /\ UNCHANGED <<entry, fetching, version>>
         /\ findings'["tls.hostname"] \in Seq(Reported)
         /\ HandshakesOf("tls.hostname")' = HandshakesOf("tls.hostname")
         /\ relied \subseteq relied'
         /\ at["tls.hostname"] = "verify" /\ at'["tls.hostname"] \in {"retrieve", "returned"}
         /\ at'["tls.hostname"] = "retrieve" => <<"tls.hostname", "self_signed", {}>> \in relied'
         /\ \A f \in Found("tls.hostname")' : f \in Found("tls.hostname") \/
               (f.status = "FAIL" => \E kind \in Kinds : <<"tls.hostname", kind, {}>> \in relied')
<1> DEFINE h == "tls.hostname"
<1>1. h \in Checks /\ h \in Followed
  BY DEF Followed, Checks, TlsChecks
<1>2. UNCHANGED <<entry, fetching, version>> /\ at[h] = "verify"
  BY DEF CheckHostname, shared
<1> HIDE DEF h
<1>3. ASSUME NEW fs \in Seq(Reported), Return(h, fs)
      PROVE  /\ at'[h] = "returned" /\ findings'[h] \in Seq(Reported)
             /\ Found(h)' = Found(h) \cup ToSet(fs)
  <2>1. findings' = [findings EXCEPT ![h] = @ \o fs]
    BY <1>3 DEF Return
  <2>2. at'[h] = "returned"
    BY <1>1, <1>3 DEF Return, GoTo, Types
  <2> QED
    BY <1>1, <2>1, <2>2, Reports
<1>4. ASSUME UNCHANGED relied PROVE HandshakesOf(h)' = HandshakesOf(h) /\ relied \subseteq relied'
  BY <1>4 DEF HandshakesOf
<1>5. ASSUME NEW kind \in Kinds, GoBy(h, kind, {})
      PROVE  /\ HandshakesOf(h)' = HandshakesOf(h) /\ relied \subseteq relied'
             /\ <<h, kind, {}>> \in relied'
  <2>1. kind # "handshake"
    BY DEF Kinds
  <2>2. HandshakesOf(h)' = HandshakesOf(h)
    BY <1>5, <2>1, GoesBy
  <2> QED
    BY <1>5, <2>2 DEF GoBy
<1>6. CASE Return(h, Finding("PASS", "valid")) /\ UNCHANGED relied
  <2>1. /\ Finding("PASS", "valid") \in Seq(Reported)
        /\ \A f \in ToSet(Finding("PASS", "valid")) : f.status = "PASS"
    BY Told
  <2> QED
    BY <1>2, <1>3, <1>4, <1>6, <2>1 DEF h
<1>7. CASE GoTo(h, "retrieve") /\ GoBy(h, "self_signed", {}) /\ UNCHANGED findings
  <2>1. at'[h] = "retrieve" /\ findings'[h] \in Seq(Reported) /\ Found(h)' = Found(h)
    BY <1>1, <1>7 DEF GoTo, Types, Followed, Found
  <2>2. "self_signed" \in Kinds
    BY DEF Kinds
  <2> QED
    BY <1>2, <1>5, <1>7, <2>1, <2>2 DEF h
<1>8. ASSUME NEW kind \in Kinds \ {"self_signed"}, Return(h, VerifyFails(kind)), GoBy(h, kind, {})
      PROVE  /\ at'[h] = "returned" /\ findings'[h] \in Seq(Reported)
             /\ HandshakesOf(h)' = HandshakesOf(h) /\ relied \subseteq relied'
             /\ <<h, kind, {}>> \in relied'
  <2>1. VerifyFails(kind) \in Seq(Reported)
    BY VerifyFinds
  <2> QED
    BY <1>3, <1>5, <1>8, <2>1
<1>9. CASE \E kind \in Kinds \ {"self_signed"} : Return(h, VerifyFails(kind)) /\ GoBy(h, kind, {})
  BY <1>2, <1>8, <1>9 DEF h
<1>10. ASSUME NEW trouble \in {"network", "unexpected"}, Return(h, VerifyFails(trouble)), UNCHANGED relied
      PROVE  /\ at'[h] = "returned" /\ findings'[h] \in Seq(Reported)
             /\ HandshakesOf(h)' = HandshakesOf(h) /\ relied \subseteq relied'
             /\ \A f \in Found(h)' : f \in Found(h) \/ f.status # "FAIL"
  <2>1. /\ VerifyFails(trouble) \in Seq(Reported) /\ trouble \notin Kinds
        /\ \A f \in ToSet(VerifyFails(trouble)) : f.status = "FAIL" => trouble \in Kinds
    BY VerifyFinds DEF Kinds
  <2> QED
    BY <1>3, <1>4, <1>10, <2>1
<1>11. CASE \E trouble \in {"network", "unexpected"} : Return(h, VerifyFails(trouble)) /\ UNCHANGED relied
  BY <1>2, <1>10, <1>11 DEF h
<1> QED
  BY <1>6, <1>7, <1>9, <1>11 DEF CheckHostname, h

-----------------------------------------------------------------------------
(* Steps of the other checks *)

LEMMA OthersCache ==
  ASSUME Types, NEW c \in Checks \ TlsChecks, Run(c)
  PROVE  UNCHANGED <<entry, fetching, version>> /\ at'[c] # "fetch"
<1>1. UNCHANGED <<entry, fetching, version>>
  BY DEF Run, shared, TlsChecks, CheckHeaders, QueryName, FindApex, QueryApex, Dig, ResolveServer, AskServer,
         CollectPorts, CheckPort
<1>2. \/ \E stage \in {"apex", "zone", "ask", "returned"} : GoTo(c, stage)
      \/ at' = at /\ at[c] = "ports"
  BY DEF Run, TlsChecks, CheckHeaders, QueryName, FindApex, QueryApex, Dig, ResolveServer, AskServer,
         CollectPorts, CheckPort, Return
<1> QED
  BY <1>1, <1>2 DEF GoTo, Types

LEMMA ResolverSteps ==
  ASSUME Types, ResolveServer \/ AskServer
  PROVE  /\ findings'["open_resolver"] \in Seq(Reported) /\ relied \subseteq relied'
         /\ \A f \in Found("open_resolver")' : f \in Found("open_resolver") \/
               (f.status = "FAIL" => <<"open_resolver", "answer", {}>> \in relied')
<1> DEFINE o == "open_resolver"
<1>1. o \in Checks /\ o \in Followed
  BY DEF Followed, Checks, TlsChecks
<1> HIDE DEF o
<1>2. relied \subseteq relied'
  BY DEF ResolveServer, AskServer, GoBy
<1>3. ASSUME NEW accepted \in {{TRUE}, {FALSE}, {}}, Return(o, ResolverFindings(accepted))
      PROVE  /\ findings'[o] \in Seq(Reported)
             /\ \A f \in Found(o)' : f \in Found(o) \/ (f.status = "FAIL" => accepted = {TRUE})
  <2>1. /\ ResolverFindings(accepted) \in Seq(Reported)
        /\ \A f \in ToSet(ResolverFindings(accepted)) : f.status = "FAIL" => accepted = {TRUE}
    BY ResolverFinds
  <2>2. findings' = [findings EXCEPT ![o] = @ \o ResolverFindings(accepted)]
    BY <1>3 DEF Return
  <2>3. findings'[o] \in Seq(Reported) /\ Found(o)' = Found(o) \cup ToSet(ResolverFindings(accepted))
    BY <1>1, <2>1, <2>2, Reports
  <2> QED
    BY <2>1, <2>3
<1>4. CASE UNCHANGED findings
  BY <1>1, <1>2, <1>4 DEF o, Types, Followed, Found
<1>5. CASE Return(o, ResolverFindings({TRUE})) /\ GoBy(o, "answer", {})
  <2>1. <<o, "answer", {}>> \in relied'
    BY <1>5 DEF GoBy
  <2> QED
    BY <1>2, <1>3, <1>5, <2>1 DEF o
<1>6. CASE Return(o, ResolverFindings({FALSE}))
  <2>1. {FALSE} # {TRUE}
    OBVIOUS
  <2> QED
    BY <1>2, <1>3, <1>6, <2>1 DEF o
<1>7. CASE Return(o, ResolverFindings({}))
  <2>1. {} # {TRUE}
    OBVIOUS
  <2> QED
    BY <1>2, <1>3, <1>7, <2>1 DEF o
<1> QED
  BY <1>4, <1>5, <1>6, <1>7 DEF ResolveServer, AskServer, o

LEMMA DnssecSteps ==
  ASSUME Types, DnssecTrue, QueryName \/ FindApex \/ QueryApex \/ Dig
  PROVE  findings'["dnssec"] \in Seq(Reported) /\ DnssecTrue'
<1> DEFINE d == "dnssec"
<1> DEFINE Earned(r) == \/ <<d, "apex", {"NOT_DETECTED"}>> \in r
                        \/ {<<d, "apex", {"itself"}>>, <<d, "name", {"NOT_DETECTED"}>>} \subseteq r
<1> DEFINE Keys(r) == \E which \in {"name", "apex"} : <<d, which, {"KEYS_DETECTED"}>> \in r
<1>1. d \in Checks /\ d \in Followed
  BY DEF Followed, Checks, TlsChecks
<1>2. relied \subseteq relied' /\ dnspython' = dnspython
  BY DEF QueryName, FindApex, QueryApex, Dig, GoBy, shared
<1>3. /\ (\A f \in Found(d) : f.status = "OBSERVATION" => Earned(relied)) \/ ~dnspython
      /\ (at[d] = "dig" => ~dnspython)
      /\ at[d] = "apex" => <<d, "name", {"NOT_DETECTED"}>> \in relied \/ ~dnspython
  BY DEF DnssecTrue, DnssecEarned
<1>4. ASSUME findings'[d] \in Seq(Reported),
             at'[d] # "dig" \/ ~dnspython,
             at'[d] = "apex" => <<d, "name", {"NOT_DETECTED"}>> \in relied',
             dnspython => \A f \in Found(d)' : f.status = "OBSERVATION" => Earned(relied'),
             dnspython /\ at'[d] = "returned" /\ Found(d)' = {} => Keys(relied')
      PROVE  findings'[d] \in Seq(Reported) /\ DnssecTrue'
  BY <1>2, <1>4 DEF DnssecTrue, DnssecEarned
<1> HIDE DEF d
<1>5. Earned(relied) => Earned(relied')
  BY <1>2
<1>6. ASSUME NEW status \in Answers \cup {"TOOL_UNAVAILABLE"}, Return(d, DnssecFindings(status)),
             dnspython => (status = "NOT_DETECTED" => Earned(relied')),
             dnspython => (status = "KEYS_DETECTED" => Keys(relied'))
      PROVE  findings'[d] \in Seq(Reported) /\ DnssecTrue'
  <2> HIDE DEF Earned, Keys
  <2>1. /\ DnssecFindings(status) \in Seq(Reported)
        /\ \A f \in ToSet(DnssecFindings(status)) : f.status = "OBSERVATION" => status = "NOT_DETECTED"
        /\ ToSet(DnssecFindings(status)) = {} => status = "KEYS_DETECTED"
    BY DnssecFinds
  <2>2. findings' = [findings EXCEPT ![d] = @ \o DnssecFindings(status)]
    BY <1>6 DEF Return
  <2>3. findings'[d] \in Seq(Reported) /\ Found(d)' = Found(d) \cup ToSet(DnssecFindings(status))
    BY <1>1, <2>1, <2>2, Reports
  <2>4. at'[d] = "returned"
    BY <1>1, <1>6 DEF Return, GoTo, Types
  <2>5. dnspython => \A f \in Found(d)' : f.status = "OBSERVATION" => Earned(relied')
    BY <1>3, <1>5, <1>6, <2>1, <2>3
  <2>6. dnspython /\ Found(d)' = {} => Keys(relied')
    BY <1>6, <2>1, <2>3
  <2> QED
    BY <1>4, <2>3, <2>4, <2>5, <2>6
<1>7. ASSUME UNCHANGED findings, at'[d] = "apex" \/ at'[d] = "zone",
             at'[d] = "apex" => <<d, "name", {"NOT_DETECTED"}>> \in relied'
      PROVE  findings'[d] \in Seq(Reported) /\ DnssecTrue'
  <2> HIDE DEF Earned, Keys
  <2>1. findings'[d] \in Seq(Reported) /\ Found(d)' = Found(d)
    BY <1>1, <1>7 DEF Types, Followed, Found
  <2> QED
    BY <1>3, <1>4, <1>5, <1>7, <2>1
<1>8. CASE QueryName
  <2>1. PICK a \in Answers : /\ GoBy(d, "name", {a})
                             /\ IF a # "NOT_DETECTED" THEN Return(d, DnssecFindings(a))
                                                      ELSE GoTo(d, "apex") /\ UNCHANGED findings
    BY <1>8 DEF QueryName, Conclusive, d
  <2>2. <<d, "name", {a}>> \in relied'
    BY <2>1 DEF GoBy
  <2>3. CASE a # "NOT_DETECTED"
    BY <1>6, <2>1, <2>2, <2>3 DEF d
  <2>4. CASE a = "NOT_DETECTED"
    <3>1. at'[d] = "apex" /\ UNCHANGED findings
      BY <1>1, <2>1, <2>4 DEF GoTo, Types
    <3> QED
      BY <1>7, <2>2, <2>4, <3>1 DEF d
  <2> QED
    BY <2>3, <2>4
<1>9. CASE FindApex
  <2>1. at[d] = "apex"
    BY <1>9 DEF FindApex, d
  <2>2. CASE Return(d, DnssecFindings("INCONCLUSIVE"))
    <3>1. "INCONCLUSIVE" \in Answers \cup {"TOOL_UNAVAILABLE"}
      BY DEF Answers
    <3> QED
      BY <1>6, <2>2, <3>1 DEF d
  <2>3. CASE Return(d, DnssecFindings("NOT_DETECTED")) /\ GoBy(d, "apex", {"itself"})
    <3>1. "NOT_DETECTED" \in Answers \cup {"TOOL_UNAVAILABLE"}
      BY DEF Answers
    <3>2. dnspython => Earned(relied')
      BY <1>2, <1>3, <2>1, <2>3 DEF GoBy
    <3> QED
      BY <1>6, <2>3, <3>1, <3>2 DEF d
  <2>4. CASE GoTo(d, "zone") /\ UNCHANGED findings
    <3>1. at'[d] = "zone"
      BY <1>1, <2>4 DEF GoTo, Types
    <3> QED
      BY <1>7, <2>4, <3>1 DEF d
  <2> QED
    BY <1>9, <2>2, <2>3, <2>4 DEF FindApex, d
<1>10. CASE QueryApex
  <2>1. PICK a \in Answers : GoBy(d, "apex", {a}) /\ Return(d, DnssecFindings(a))
    BY <1>10 DEF QueryApex, d
  <2>2. <<d, "apex", {a}>> \in relied'
    BY <2>1 DEF GoBy
  <2> QED
    BY <1>6, <2>1, <2>2 DEF d
<1>11. CASE Dig
  <2>1. ~dnspython
    BY <1>3, <1>11 DEF Dig, d
  <2>2. PICK status \in Answers \cup {"TOOL_UNAVAILABLE"} : Return(d, DnssecFindings(status))
    BY <1>11 DEF Dig, d
  <2> QED
    BY <1>6, <2>1, <2>2 DEF d
<1> QED
  BY <1>8, <1>9, <1>10, <1>11 DEF d

-----------------------------------------------------------------------------
(* The parts of the invariant, under a step of a check *)

LEMMA RunCases ==
  ASSUME NEW c \in Checks, Run(c)
  PROVE  \/ c \in {"tls.expiry", "tls.hostname"} /\ (ReuseHandshake(c) \/ BeginFetch(c) \/ FetchEnds(c))
         \/ c = "tls.versions" /\ (ProbeReuses \/ ProbeConnects \/ ProbeFails)
         \/ c = "tls.versions" /\ (LookForVersion \/ TestVersion)
         \/ c = "tls.hostname" /\ CheckHostname
         \/ c = "dnssec" /\ (QueryName \/ FindApex \/ QueryApex \/ Dig)
         \/ c = "open_resolver" /\ (ResolveServer \/ AskServer)
         \/ c \in {"http_headers", "tcp_exposure"}
BY DEF Run, RunTls, TlsChecks

\* What the certificate check has negotiated is what the cache keeps, or nothing.
LEMMA KnownVersion ==
  ASSUME FetchedOnce, NEW r \in HandshakesOf("tls.expiry")
  PROVE  /\ r.version \in (Versions \ Untestable) \cup {"none"}
         /\ r.version = entry.version \/ r.version = "none"
<1>1. r \in Handshakes /\ (Reusable(r) => entry = r)
  BY DEF FetchedOnce
<1>2. r.version \in Offered \cup {"none"} /\ (Reusable(r) \/ r.version = "none")
  BY <1>1 DEF Handshakes, Reusable
<1> QED
  BY <1>1, <1>2, AuditAssumption

LEMMA TypesRun ==
  ASSUME Types, FetchedOnce, VersionsFollow, DnssecTrue, NEW c \in Checks, Run(c)
  PROVE  Types'
<1>1. /\ DOMAIN at' = Checks /\ DOMAIN findings' = Checks
      /\ \A d \in Checks \ {c} : findings'[d] = findings[d]
  BY RunOwn, OthersKept
<1>2. ASSUME c \in Followed => findings'[c] \in Seq(Reported), version' \in Nat,
             entry' \in Handshakes \cup {NoHandshake}
      PROVE  Types'
  BY <1>1, <1>2 DEF Types, Followed
<1>3. entry \in Handshakes \cup {NoHandshake} /\ version \in Nat
      /\ (c \in Followed => findings[c] \in Seq(Reported))
  BY DEF Types, Followed
<1>4. CASE c \in {"tls.expiry", "tls.hostname"} /\ (ReuseHandshake(c) \/ BeginFetch(c) \/ FetchEnds(c))
  <2>1. CASE entry' = entry /\ findings' = findings /\ version' = version
    BY <1>2, <1>3, <2>1
  <2>2. CASE version' = version /\ \E r \in Handshakes : Conclude(c, r) /\ (entry' = entry \/ entry' = r)
    <3>1. PICK r \in Handshakes : Conclude(c, r) /\ (entry' = entry \/ entry' = r)
      BY <2>2
    <3>2. findings'[c] \in Seq(Reported)
      BY <1>4, <3>1, Concluded
    <3> QED
      BY <1>2, <1>3, <2>2, <3>1, <3>2
  <2> QED
    BY <1>4, <2>1, <2>2, FetchSteps
<1>5. CASE c = "tls.versions" /\ (ProbeReuses \/ ProbeConnects \/ ProbeFails)
  BY <1>2, <1>3, <1>5, ProbeSteps
<1>6. CASE c = "tls.versions" /\ (LookForVersion \/ TestVersion)
  <2>1. /\ version' \in Nat /\ entry' = entry
        /\ findings'[c] \in Seq(Reported) \/ findings' = findings
    BY <1>6, VersionTested
  <2> QED
    BY <1>2, <1>3, <2>1
<1>7. CASE c = "tls.hostname" /\ CheckHostname
  BY <1>2, <1>3, <1>7, HostnameSteps
<1>8. CASE c \notin TlsChecks
  <2>1. entry' = entry /\ version' = version
    BY <1>8, OthersCache
  <2>2. CASE c = "dnssec" /\ (QueryName \/ FindApex \/ QueryApex \/ Dig)
    BY <1>2, <1>3, <2>1, <2>2, DnssecSteps
  <2>3. CASE c = "open_resolver" /\ (ResolveServer \/ AskServer)
    BY <1>2, <1>3, <2>1, <2>3, ResolverSteps
  <2>4. CASE c \in {"http_headers", "tcp_exposure"}
    BY <1>2, <1>3, <2>1, <2>4 DEF Followed
  <2> QED
    BY <1>8, <2>2, <2>3, <2>4, RunCases DEF TlsChecks
<1> QED
  BY <1>4, <1>5, <1>6, <1>7, <1>8, RunCases DEF TlsChecks

LEMMA FetchedOnceRun ==
  ASSUME Types, FetchedOnce, VersionsFollow, NEW c \in Checks, Run(c)
  PROVE  FetchedOnce'
<1>1. \A d \in Checks \ {c} : at'[d] = at[d] /\ HandshakesOf(d)' = HandshakesOf(d)
  BY RunOwn, OthersKept
<1>2. {"tls.expiry", "tls.hostname"} \subseteq Checks
  BY DEF Checks, TlsChecks
<1>3. ASSUME UNCHANGED <<entry, fetching>>, at'[c] # "fetch",
             c \in {"tls.expiry", "tls.hostname"} => HandshakesOf(c)' = HandshakesOf(c)
      PROVE  FetchedOnce'
  BY <1>1, <1>2, <1>3 DEF FetchedOnce
<1>4. CASE c \in {"tls.expiry", "tls.hostname"} /\ (ReuseHandshake(c) \/ BeginFetch(c) \/ FetchEnds(c))
  <2>1. CASE /\ at'[c] = "fetch" /\ entry = NoHandshake /\ entry' = entry
             /\ fetching = "nobody" /\ fetching' = c /\ relied' = relied
    <3>1. \A d \in Checks : HandshakesOf(d)' = HandshakesOf(d)
      BY <2>1 DEF HandshakesOf
    <3>2. \A d \in Checks : at[d] # "fetch"
      BY <2>1 DEF FetchedOnce, Checks, TlsChecks
    <3> QED
      BY <1>1, <1>2, <2>1, <3>1, <3>2 DEF FetchedOnce
  <2>2. ASSUME NEW r \in Handshakes, at[c] \in {"retrieve", "fetch"}, Conclude(c, r),
               Reusable(r) => entry' = r,
               entry' = entry \/ (entry = NoHandshake /\ at[c] = "fetch" /\ entry' = r),
               at[c] = "retrieve" => entry' = entry /\ fetching' = fetching
        PROVE  FetchedOnce'
    <3>1. at'[c] = "returned" /\ HandshakesOf(c)' = HandshakesOf(c) \cup {r}
      BY <1>4, <2>2, Concluded
    <3>2. ASSUME NEW d \in Checks, at'[d] = "fetch" PROVE fetching' = d /\ entry' = NoHandshake
      <4>1. d # c /\ at[d] = "fetch"
        BY <1>1, <3>1, <3>2
      <4>2. fetching = d /\ entry = NoHandshake /\ at[c] # "fetch"
        BY <4>1 DEF FetchedOnce
      <4> QED
        BY <2>2, <4>2
    <3>3. ASSUME NEW d \in {"tls.expiry", "tls.hostname"}, NEW x \in HandshakesOf(d)'
          PROVE  x \in Handshakes /\ (Reusable(x) => entry' = x)
      <4>1. CASE x \in HandshakesOf(d)
        <5>1. x \in Handshakes /\ (Reusable(x) => entry = x)
          BY <4>1 DEF FetchedOnce
        <5>2. Reusable(x) => entry # NoHandshake
          BY <5>1 DEF Reusable, NoHandshake
        <5> QED
          BY <2>2, <5>1, <5>2
      <4>2. CASE x \notin HandshakesOf(d)
        <5>1. d = c
          BY <1>1, <1>2, <3>3, <4>2
        <5>2. x = r
          BY <3>1, <3>3, <4>2, <5>1
        <5> QED
          BY <2>2, <5>2
      <4> QED
        BY <4>1, <4>2
    <3> QED
      BY <3>2, <3>3 DEF FetchedOnce, Reusable, Handshakes
  <2> QED
    BY <1>4, <2>1, <2>2, FetchSteps
<1>5. CASE c = "tls.versions" /\ (ProbeReuses \/ ProbeConnects \/ ProbeFails)
  <2>1. UNCHANGED <<entry, fetching>> /\ at'[c] # "fetch"
    BY <1>5, ProbeSteps
  <2> QED
    BY <1>3, <1>5, <2>1
<1>6. CASE c = "tls.versions" /\ (LookForVersion \/ TestVersion)
  <2>1. UNCHANGED <<entry, fetching>> /\ at'[c] # "fetch"
    BY <1>6, VersionTested
  <2> QED
    BY <1>3, <1>6, <2>1
<1>7. CASE c = "tls.hostname" /\ CheckHostname
  <2>1. UNCHANGED <<entry, fetching>> /\ at'[c] # "fetch" /\ HandshakesOf(c)' = HandshakesOf(c)
    BY <1>7, HostnameSteps
  <2> QED
    BY <1>3, <2>1
<1>8. CASE c \notin TlsChecks
  <2>1. UNCHANGED <<entry, fetching>> /\ at'[c] # "fetch"
    BY <1>8, OthersCache
  <2> QED
    BY <1>3, <1>8, <2>1 DEF TlsChecks
<1> QED
  BY <1>4, <1>5, <1>6, <1>7, <1>8, RunCases DEF TlsChecks

LEMMA VersionsFollowRun ==
  ASSUME Types, FetchedOnce, VersionsFollow, NEW c \in Checks, Run(c)
  PROVE  VersionsFollow'
<1> DEFINE known == UNION {{r.version} : r \in HandshakesOf("tls.expiry")}
<1>1. /\ DOMAIN at' = Checks /\ abandoned' = abandoned
      /\ \A d \in Checks \ {c} : /\ at'[d] = at[d] /\ Found(d)' = Found(d)
                                 /\ HandshakesOf(d)' = HandshakesOf(d)
  BY RunOwn, OthersKept
<1>2. "tls.expiry" \in Checks /\ "tls.versions" \in Checks
  BY DEF Checks, TlsChecks
<1>3. known \subseteq {entry.version, "none"}
  BY KnownVersion
<1>4. ASSUME c # "tls.expiry" PROVE known' = known /\ at'["tls.expiry"] = at["tls.expiry"]
  BY <1>1, <1>2, <1>4
<1>5. CASE c = "tls.expiry"
  <2>1. at[c] \in {"retrieve", "fetch"} /\ version' = version
        /\ ((at'[c] = "fetch" /\ relied' = relied) \/ at'[c] = "returned")
    BY <1>5, RunCases, FetchSteps, Concluded
  <2>2. known = {}
    BY <1>5, <2>1 DEF VersionsFollow
  <2>3. at'[c] = "fetch" => known' = {}
    BY <2>1, <2>2 DEF HandshakesOf
  <2>4. /\ at'["tls.versions"] = at["tls.versions"] /\ Found("tls.versions")' = Found("tls.versions")
        /\ c \notin abandoned => at["tls.versions"] \in {"absent", "waiting"}
    BY <1>1, <1>2, <1>5, <2>1 DEF VersionsFollow
  <2> QED
    BY <1>1, <1>5, <2>1, <2>3, <2>4 DEF VersionsFollow
<1>6. CASE c = "tls.versions" /\ (ProbeReuses \/ ProbeConnects \/ ProbeFails)
  <2>1. /\ version' = version /\ at[c] \in {"probe", "TLSv1.3", "TLSv1.2"}
        /\ at'[c] \in {"look", "TLSv1.3", "TLSv1.2", "returned"}
        /\ at'[c] = "TLSv1.3" => entry.version \notin {"TLSv1.2", "TLSv1.3"}
        /\ at'[c] = "TLSv1.2" => at[c] \in {"TLSv1.3", "TLSv1.2"}
    BY <1>6, ProbeSteps
  <2>2. at'[c] = "TLSv1.3" => known \cap {"TLSv1.2", "TLSv1.3"} = {}
    BY <1>3, <2>1
  <2> HIDE DEF known
  <2> QED
    BY <1>1, <1>4, <1>6, <2>1, <2>2 DEF VersionsFollow, known
<1>7. CASE c = "tls.versions" /\ (LookForVersion \/ TestVersion)
  <2>1. /\ at[c] \in {"look", "connect"}
        /\ \/ at'[c] = "returned"
           \/ at'[c] = "look" /\ version' \in 1..5
           \/ /\ at'[c] = "connect" /\ version' = version /\ VersionsToTest[version] \in Versions
              /\ entry.version # VersionsToTest[version]
    BY <1>7, VersionTested
  <2>2. at'[c] = "connect" => VersionsToTest[version] \notin known
    BY <1>3, <2>1, VersionList
  <2> HIDE DEF known
  <2> QED
    BY <1>1, <1>4, <1>7, <2>1, <2>2, VersionList DEF VersionsFollow, known
<1>8. CASE c \notin {"tls.expiry", "tls.versions"}
  <2>1. version' = version
    BY <1>8, RunCases, FetchSteps, HostnameSteps, OthersCache DEF TlsChecks
  <2> QED
    BY <1>1, <1>2, <1>4, <1>8, <2>1 DEF VersionsFollow
<1> QED
  BY <1>5, <1>6, <1>7, <1>8, RunCases

LEMMA VersionsTrueRun ==
  ASSUME Types, VersionsFollow, VersionsTrue, NEW c \in Checks, Run(c)
  PROVE  VersionsTrue'
<1> DEFINE t == "tls.versions"
<1>1. t \in Checks /\ relied \subseteq relied'
  BY RunOwn, OthersKept DEF Checks, TlsChecks
<1>2. CASE c # t
  <2>1. /\ Found(t)' = Found(t)
        /\ \A what, data : <<t, what, data>> \in relied' => <<t, what, data>> \in relied
    BY <1>1, <1>2, RunOwn, OthersKept
  <2> QED
    BY <1>1, <2>1 DEF VersionsTrue
<1>3. CASE c = t /\ (ProbeReuses \/ ProbeConnects \/ ProbeFails)
  <2>1. relied' = relied /\ Found(t) \subseteq Found(t)' /\ \A f \in Found(t)' : f \in Found(t) \/ f.status = "SKIP"
    <3>1. Found(t) \subseteq Found(t)'
      <4>1. CASE UNCHANGED findings
        BY <4>1 DEF Found
      <4>2. CASE Return(t, Finding("SKIP", "service"))
        <5>1. Finding("SKIP", "service") \in Seq(Reported)
          BY Told
        <5>2. findings' = [findings EXCEPT ![t] = @ \o Finding("SKIP", "service")]
          BY <4>2 DEF Return
        <5> HIDE DEF t
        <5>3. t \in Followed
          BY DEF t, Followed, Checks, TlsChecks
        <5>4. Found(t)' = Found(t) \cup ToSet(Finding("SKIP", "service"))
          BY <5>1, <5>2, <5>3, Reports
        <5> QED
          BY <5>4
      <4> QED
        BY <1>3, <4>1, <4>2 DEF ProbeReuses, ProbeConnects, ProbeFails
    <3> QED
      BY <1>3, <3>1, ProbeSteps
  <2> QED
    BY <2>1 DEF VersionsTrue
<1>4. CASE c = t /\ (LookForVersion \/ TestVersion)
  <2> DEFINE v == VersionsToTest[version]
  <2>1. v \in Versions
    BY <1>4, VersionTested
  <2>2. CASE UNCHANGED <<findings, relied>>
    BY <2>2 DEF VersionsTrue, Found
  <2>3. ASSUME NEW status \in {"SUPPORTED", "INCONCLUSIVE", "UNAVAILABLE"},
               Found(t)' = Found(t) \cup ToSet(VersionFindings(v, status)),
               IF status = "SUPPORTED" THEN GoBy(t, v, {}) ELSE UNCHANGED relied
        PROVE  VersionsTrue'
    <3> HIDE DEF v
    <3>1. /\ \A f \in ToSet(VersionFindings(v, status)) : f.about = v /\ (f.status = "FAIL" <=> status = "SUPPORTED")
          /\ status = "SUPPORTED" /\ v \in Deprecated =>
                [status |-> "FAIL", about |-> v] \in ToSet(VersionFindings(v, status))
      BY <2>1, VersionFinds
    <3>2. ASSUME NEW f \in Found(t)', f.status = "FAIL" PROVE <<t, f.about, {}>> \in relied'
      <4>1. CASE f \in Found(t)
        BY <1>1, <3>2, <4>1 DEF VersionsTrue
      <4>2. CASE f \in ToSet(VersionFindings(v, status))
        BY <2>3, <3>1, <3>2, <4>2 DEF GoBy
      <4> QED
        BY <2>3, <3>2, <4>1, <4>2
    <3>3. ASSUME NEW w \in Deprecated, <<t, w, {}>> \in relied'
          PROVE  [status |-> "FAIL", about |-> w] \in Found(t)'
      <4>1. CASE <<t, w, {}>> \in relied
        BY <2>3, <4>1 DEF VersionsTrue
      <4>2. CASE <<t, w, {}>> \notin relied
        <5>1. status = "SUPPORTED" /\ w = v
          BY <2>3, <3>3, <4>2 DEF GoBy
        <5> QED
          BY <2>3, <3>1, <3>3, <5>1
      <4> QED
        BY <4>1, <4>2
    <3> QED
      BY <3>2, <3>3 DEF VersionsTrue
  <2> QED
    BY <1>4, <2>2, <2>3, VersionTested
<1> QED
  BY <1>2, <1>3, <1>4, RunCases

LEMMA ExpiryTrueRun ==
  ASSUME Types, FetchedOnce, ExpiryTrue, NEW c \in Checks, Run(c)
  PROVE  ExpiryTrue'
<1> DEFINE e == "tls.expiry"
<1>1. e \in Checks
  BY DEF Checks, TlsChecks
<1>2. CASE c # e
  <2>1. Found(e)' = Found(e) /\ HandshakesOf(e)' = HandshakesOf(e)
    BY <1>1, <1>2, RunOwn, OthersKept
  <2> QED
    BY <2>1 DEF ExpiryTrue
<1>3. CASE c = e
  <2>1. CASE UNCHANGED <<findings, relied>>
    BY <2>1 DEF ExpiryTrue, Found, HandshakesOf
  <2>2. ASSUME NEW r \in Handshakes, Conclude(e, r) PROVE ExpiryTrue'
    <3>1. HandshakesOf(e)' = HandshakesOf(e) \cup {r} /\ Found(e)' = Found(e) \cup ToSet(ExpiryFinding(r))
      BY <2>2, Concluded
    <3>2. \A f \in ToSet(ExpiryFinding(r)) : f.status = "FAIL" => \E x \in r.cert : x.days < 14
      BY ExpiryFinds
    <3> QED
      BY <3>1, <3>2 DEF ExpiryTrue
  <2> QED
    BY <1>3, <2>1, <2>2, RunCases, FetchSteps
<1> QED
  BY <1>2, <1>3

LEMMA HostnameTrueRun ==
  ASSUME Types, FetchedOnce, HostnameTrue, NEW c \in Checks, Run(c)
  PROVE  HostnameTrue'
<1> DEFINE h == "tls.hostname"
<1>1. h \in Checks /\ relied \subseteq relied'
  BY RunOwn, OthersKept DEF Checks, TlsChecks
<1>2. CASE c # h
  <2>1. Found(h)' = Found(h) /\ at'[h] = at[h]
    BY <1>1, <1>2, RunOwn, OthersKept
  <2> QED
    BY <1>1, <2>1 DEF HostnameTrue
<1>3. CASE c = h /\ (ReuseHandshake(c) \/ BeginFetch(c) \/ FetchEnds(c))
  <2>1. at[h] \in {"retrieve", "fetch"}
    BY <1>3 DEF ReuseHandshake, BeginFetch, FetchEnds
  <2>2. <<h, "self_signed", {}>> \in relied' /\ "self_signed" \in Kinds
    BY <1>1, <2>1 DEF HostnameTrue, Kinds
  <2> QED
    BY <2>2 DEF HostnameTrue
<1>4. CASE c = h /\ CheckHostname
  <2>1. /\ at'[h] \in {"retrieve", "returned"}
        /\ at'[h] = "retrieve" => <<h, "self_signed", {}>> \in relied'
        /\ \A f \in Found(h)' : f \in Found(h) \/
              (f.status = "FAIL" => \E kind \in Kinds : <<h, kind, {}>> \in relied')
    BY <1>4, HostnameSteps
  <2> QED
    BY <1>1, <2>1 DEF HostnameTrue
<1> QED
  BY <1>2, <1>3, <1>4, RunCases

LEMMA ResolverTrueRun ==
  ASSUME Types, ResolverTrue, NEW c \in Checks, Run(c)
  PROVE  ResolverTrue'
<1>1. "open_resolver" \in Checks /\ relied \subseteq relied'
  BY RunOwn, OthersKept DEF Checks
<1>2. CASE c # "open_resolver"
  <2>1. Found("open_resolver")' = Found("open_resolver")
    BY <1>1, <1>2, RunOwn, OthersKept
  <2> QED
    BY <1>1, <2>1 DEF ResolverTrue
<1>3. CASE ResolveServer \/ AskServer
  BY <1>1, <1>3, ResolverSteps DEF ResolverTrue
<1> QED
  BY <1>2, <1>3, RunCases

LEMMA DnssecTrueRun ==
  ASSUME Types, DnssecTrue, NEW c \in Checks, Run(c)
  PROVE  DnssecTrue'
<1>1. "dnssec" \in Checks /\ relied \subseteq relied' /\ dnspython' = dnspython
  BY RunOwn, OthersKept DEF Checks
<1>2. CASE c # "dnssec"
  <2>1. Found("dnssec")' = Found("dnssec") /\ at'["dnssec"] = at["dnssec"]
    BY <1>1, <1>2, RunOwn, OthersKept
  <2> QED
    BY <1>1, <2>1 DEF DnssecTrue, DnssecEarned
<1>3. CASE QueryName \/ FindApex \/ QueryApex \/ Dig
  BY <1>3, DnssecSteps
<1> QED
  BY <1>2, <1>3, RunCases

LEMMA NoContradictionRun ==
  ASSUME Types, FetchedOnce, VersionsFollow, NoContradiction, NEW c \in Checks, Run(c)
  PROVE  NoContradiction'
<1>1. /\ abandoned' = abandoned
      /\ \A d \in Checks \ {c} : /\ Found(d)' = Found(d) /\ HandshakesOf(d)' = HandshakesOf(d)
  BY RunOwn, OthersKept
<1>2. "tls.expiry" \in Checks /\ "tls.versions" \in Checks
  BY DEF Checks, TlsChecks
<1>3. SUFFICES ASSUME "tls.expiry" \notin abandoned,
                      NEW r \in HandshakesOf("tls.expiry")', NEW f \in Found("tls.versions")'
               PROVE  /\ r.version \in {"TLSv1.2", "TLSv1.3"} => f.about # "service"
                      /\ f.about = r.version => f.status = "FAIL"
  BY <1>1 DEF NoContradiction
<1>4. CASE r \in HandshakesOf("tls.expiry") /\ f \in Found("tls.versions")
  BY <1>3, <1>4 DEF NoContradiction
<1>5. CASE c \notin {"tls.expiry", "tls.versions"}
  BY <1>1, <1>2, <1>4, <1>5
<1>6. CASE c = "tls.expiry"
  <2>1. at[c] \in {"retrieve", "fetch"}
    BY <1>6, RunCases, FetchSteps
  <2>2. Found("tls.versions") = {}
    BY <1>3, <1>6, <2>1 DEF VersionsFollow
  <2> QED
    BY <1>1, <1>2, <1>6, <2>2
<1>7. CASE c = "tls.versions"
  <2>1. r \in HandshakesOf("tls.expiry")
    BY <1>1, <1>2, <1>7
  <2>2. r.version \in (Versions \ Untestable) \cup {"none"} /\ "service" \notin Versions /\ "none" \notin Versions
    BY <2>1, KnownVersion, VersionList
  <2>3. CASE f \in Found("tls.versions")
    BY <1>4, <2>1, <2>3
  <2>4. CASE ProbeReuses \/ ProbeConnects \/ ProbeFails
    <3>1. CASE at["tls.versions"] = "TLSv1.2" /\ f.about = "service"
      <4>1. r.version \notin {"TLSv1.2", "TLSv1.3"}
        BY <1>3, <2>1, <3>1 DEF VersionsFollow
      <4> QED
        BY <2>2, <3>1, <4>1
    <3> QED
      BY <1>3, <2>3, <2>4, <3>1, ProbeSteps
  <2>5. CASE LookForVersion \/ TestVersion
    <3> DEFINE v == VersionsToTest[version]
    <3>1. v \in Versions
      BY <2>5, VersionTested
    <3>2. CASE UNCHANGED findings
      BY <1>3, <2>3, <3>2 DEF Found
    <3>3. ASSUME NEW status \in {"SUPPORTED", "INCONCLUSIVE", "UNAVAILABLE"},
                 Found("tls.versions")' = Found("tls.versions") \cup ToSet(VersionFindings(v, status)),
                 at["tls.versions"] = "connect" \/ v \in Untestable \/ status = "SUPPORTED",
                 f \notin Found("tls.versions")
          PROVE  /\ r.version \in {"TLSv1.2", "TLSv1.3"} => f.about # "service"
                 /\ f.about = r.version => f.status = "FAIL"
      <4>1. at["tls.versions"] = "connect" => r.version # v
        BY <1>3, <2>1 DEF VersionsFollow
      <4> HIDE DEF v
      <4>2. f \in ToSet(VersionFindings(v, status))
        BY <1>3, <3>3
      <4>3. f.about = v /\ (f.status = "FAIL" <=> status = "SUPPORTED")
        BY <3>1, <4>2, VersionFinds
      <4> QED
        BY <2>2, <3>1, <3>3, <4>1, <4>3
    <3> QED
      BY <2>3, <2>5, <3>2, <3>3, VersionTested
  <2> QED
    BY <1>7, <2>4, <2>5, RunCases
<1> QED
  BY <1>5, <1>6, <1>7

-----------------------------------------------------------------------------
(* The invariant *)

LEMMA IInvInit == Init => IInv
<1> SUFFICES ASSUME Init PROVE IInv
  OBVIOUS
<1>1. /\ DOMAIN at = Checks /\ DOMAIN findings = Checks /\ relied = {} /\ abandoned = {}
      /\ \A c \in Checks : at[c] \in {"waiting", "absent"} /\ findings[c] = <<>>
      /\ entry = NoHandshake /\ version = 1
  BY DEF Init
<1>2. \A c \in Checks : Found(c) = {}
  BY <1>1, NoFinding DEF Found
<1>3. \A c : HandshakesOf(c) = {}
  BY <1>1 DEF HandshakesOf
<1>4. {"tls.expiry", "tls.versions", "tls.hostname", "dnssec", "open_resolver"} \subseteq Checks
  BY DEF Checks, TlsChecks
<1>5. Types
  BY <1>1, NoFinding DEF Types
<1>6. FetchedOnce /\ ExpiryTrue /\ NoContradiction
  BY <1>1, <1>2, <1>3, <1>4 DEF FetchedOnce, ExpiryTrue, NoContradiction
<1>7. VersionsFollow
  BY <1>1, <1>2, <1>3, <1>4, VersionList DEF VersionsFollow
<1>8. VersionsTrue /\ HostnameTrue /\ ResolverTrue
  BY <1>1, <1>2, <1>4 DEF VersionsTrue, HostnameTrue, ResolverTrue
<1>9. DnssecTrue
  BY <1>1, <1>2, <1>4 DEF DnssecTrue, DnssecEarned
<1> QED
  BY <1>5, <1>6, <1>7, <1>8, <1>9 DEF IInv

\* The runner starts and abandons checks, and they find nothing by that.
LEMMA IInvRunner ==
  ASSUME IInv, (\E c \in Checks : Start(c) \/ Abandon(c)) \/ UNCHANGED vars
  PROVE  IInv'
<1>1. /\ UNCHANGED <<findings, relied, entry, fetching, version, dnspython>>
      /\ DOMAIN at' = Checks /\ abandoned \subseteq abandoned'
      /\ \A d \in Checks : at'[d] = at[d] \/ (at[d] = "waiting" /\ at'[d] = FirstStage(d))
      /\ at'["tls.versions"] = at["tls.versions"] \/ Over("tls.expiry")
      /\ \A d \in Checks : Found(d)' = Found(d) /\ HandshakesOf(d)' = HandshakesOf(d)
  BY RunnerKeeps DEF IInv
<1>2. {"tls.expiry", "tls.versions", "tls.hostname", "dnssec", "open_resolver"} \subseteq Checks
  BY DEF Checks, TlsChecks
<1>3. /\ \A d \in Checks : FirstStage(d) # "fetch"
      /\ FirstStage("tls.expiry") = "retrieve" /\ FirstStage("tls.versions") = "probe"
      /\ FirstStage("tls.hostname") = "verify" /\ FirstStage("dnssec") = IF dnspython THEN "query" ELSE "dig"
  BY DEF FirstStage, Checks, TlsChecks
<1>4. Types'
  BY <1>1 DEF IInv, Types
<1>5. FetchedOnce'
  BY <1>1, <1>2, <1>3 DEF IInv, FetchedOnce, Reusable, Handshakes
<1>6. VersionsFollow'
  <2> DEFINE known == UNION {{r.version} : r \in HandshakesOf("tls.expiry")}
  <2>1. known' = known
    BY <1>1, <1>2
  <2>2. known # {} => at'["tls.expiry"] = "returned"
    BY <1>1, <1>2 DEF IInv, VersionsFollow
  <2>3. at'["tls.versions"] # "returned" => version' \in DOMAIN VersionsToTest
    BY <1>1, <1>2 DEF IInv, VersionsFollow
  <2>4. ASSUME "tls.expiry" \notin abandoned',
               at'["tls.versions"] \notin {"absent", "waiting"}
        PROVE  at'["tls.expiry"] \in {"absent", "returned"}
    <3>1. at["tls.expiry"] \in {"absent", "returned"}
      BY <1>1, <1>2, <2>4 DEF IInv, VersionsFollow, Over
    <3> QED
      BY <1>1, <1>2, <3>1
  <2>5. \/ at'["tls.versions"] = at["tls.versions"]
        \/ at["tls.versions"] = "waiting" /\ at'["tls.versions"] = "probe"
    BY <1>1, <1>2, <1>3
  <2> HIDE DEF known
  <2>6. "tls.expiry" \notin abandoned' =>
           /\ at'["tls.versions"] \in {"TLSv1.3", "TLSv1.2"} => known \cap {"TLSv1.2", "TLSv1.3"} = {}
           /\ at'["tls.versions"] = "connect" => VersionsToTest[version] \notin known
           /\ at'["tls.versions"] \in {"absent", "waiting"} => Found("tls.versions") = {}
    BY <1>1, <2>5 DEF IInv, VersionsFollow, known
  <2> QED
    BY <1>1, <1>2, <2>1, <2>2, <2>3, <2>4, <2>6 DEF VersionsFollow, known
<1>7. VersionsTrue' /\ ExpiryTrue' /\ ResolverTrue'
  BY <1>1, <1>2 DEF IInv, VersionsTrue, ExpiryTrue, ResolverTrue
<1>8. HostnameTrue'
  BY <1>1, <1>2, <1>3 DEF IInv, HostnameTrue
<1>9. DnssecTrue'
  BY <1>1, <1>2, <1>3 DEF IInv, DnssecTrue, DnssecEarned
<1>10. NoContradiction'
  BY <1>1, <1>2 DEF IInv, NoContradiction
<1> QED
  BY <1>4, <1>5, <1>6, <1>7, <1>8, <1>9, <1>10 DEF IInv

LEMMA IInvNext == IInv /\ [Next]_vars => IInv'
<1>1. ASSUME IInv, NEW c \in Checks, Run(c) PROVE IInv'
  BY <1>1, TypesRun, FetchedOnceRun, VersionsFollowRun, VersionsTrueRun, ExpiryTrueRun, HostnameTrueRun,
     ResolverTrueRun, DnssecTrueRun, NoContradictionRun DEF IInv
<1> QED
  BY <1>1, IInvRunner DEF Next

\* The inductive invariant of the security checks.
THEOREM IInvHolds == Spec => []IInv
BY IInvInit, IInvNext, PTL DEF Spec

\* A FAIL of a security check rests on what the target did in this scan, and no deprecated
\* version that was negotiated goes unreported.
THEOREM FailsEarned == Spec => []FailEarned
<1>1. IInv => FailEarned
  BY DEF IInv, FailEarned, VersionsTrue, ExpiryTrue, HostnameTrue, ResolverTrue
<1> QED
  BY <1>1, IInvHolds, PTL

\* The checks that speak of a certificate speak of the same one.
THEOREM HandshakeOnce == Spec => []OneHandshake
<1>1. IInv => OneHandshake
  BY DEF IInv, OneHandshake, FetchedOnce
<1> QED
  BY <1>1, IInvHolds, PTL

\* The version check never denies what the certificate check has negotiated.
THEOREM NeverContradicts == Spec => []NoContradiction
<1>1. IInv => NoContradiction
  BY DEF IInv
<1> QED
  BY <1>1, IInvHolds, PTL

\* "Not detected", and the silence of a zone with keys, are earned.
THEOREM DnssecIsEarned == Spec => []DnssecEarned
<1>1. IInv => DnssecEarned
  BY DEF IInv, DnssecTrue, DnssecEarned
<1> QED
  BY <1>1, IInvHolds, PTL

-----------------------------------------------------------------------------
(* The safety behind ChecksReturn *)

\* A check moves on: it has fewer steps to go, and takes the lock or gives it back with its stage.
MovesOn(c) ==
    /\ at'[c] \in Stages /\ (at'[c] \in {"look", "connect"} => c = "tls.versions")
    /\ version' \in Nat /\ version <= version'
    /\ ToGo(c)' \in Int /\ ToGo(c)' < ToGo(c)
    /\ UNCHANGED ports
    /\ \/ fetching' = fetching /\ at[c] # "fetch"
       \/ fetching' = "nobody"
       \/ fetching' = c /\ at'[c] = "fetch" /\ c \in TlsChecks

\* The steps left at each stage.
LEMMA LeftAt ==
  ASSUME NEW stage \in Stages, NEW v
  PROVE  /\ stage \in {"absent", "returned"} => StepsLeft(stage, v) = 0
         /\ stage \in {"fetch", "zone", "ask", "dig", "request", "ports"} => StepsLeft(stage, v) = 1
         /\ stage \in {"retrieve", "apex", "resolve"} => StepsLeft(stage, v) = 2
         /\ stage \in {"verify", "query"} => StepsLeft(stage, v) = 3
         /\ stage = "look" => StepsLeft(stage, v) = 2 * (5 - v) + 2
         /\ stage = "connect" => StepsLeft(stage, v) = 2 * (5 - v) + 1
         /\ stage = "TLSv1.2" => StepsLeft(stage, v) = 11
         /\ stage = "TLSv1.3" => StepsLeft(stage, v) = 12
         /\ stage = "probe" => StepsLeft(stage, v) = 13
         /\ stage = "waiting" => StepsLeft(stage, v) = 14
  BY DEF StepsLeft

\* They are no more when the version loop is further.
LEMMA NoMoreLeft ==
  ASSUME NEW stage \in Stages, NEW v \in Nat, NEW w \in Nat, v <= w
  PROVE  /\ StepsLeft(stage, v) \in Int /\ StepsLeft(stage, w) \in Int
         /\ StepsLeft(stage, w) <= StepsLeft(stage, v)
  BY LeftAt DEF Stages

\* A check goes from a stage to one with fewer steps left.
LEMMA Onward ==
  ASSUME Types, NEW c \in Checks, NEW there \in Stages, at[c] \in Stages, GoTo(c, there),
         there \in {"look", "connect"} => c = "tls.versions",
         version' \in Nat, version <= version', UNCHANGED ports,
         StepsLeft(there, version') < StepsLeft(at[c], version),
         \/ fetching' = fetching /\ at[c] # "fetch"
         \/ fetching' = "nobody"
         \/ fetching' = c /\ there = "fetch" /\ c \in TlsChecks
  PROVE  MovesOn(c)
<1>1. at'[c] = there
  BY DEF GoTo, Types
<1>2. ToGo(c)' = StepsLeft(there, version') /\ ToGo(c) = StepsLeft(at[c], version)
  BY <1>1 DEF ToGo
<1>3. StepsLeft(there, version') \in Int
  BY NoMoreLeft
<1> QED
  BY <1>1, <1>2, <1>3 DEF MovesOn

\* A check that stands at one of its last stages returns.
LEMMA OnToReturn ==
  ASSUME Types, NEW c \in Checks, at[c] \in Stages \ {"absent", "returned"}, GoTo(c, "returned"),
         version' \in Nat, version <= version', UNCHANGED ports,
         at[c] \in {"look", "connect"} => version \in 1..5,
         \/ fetching' = fetching /\ at[c] # "fetch"
         \/ fetching' = "nobody"
  PROVE  MovesOn(c)
<1>1. "returned" \in Stages
  BY DEF Stages
<1>2. StepsLeft("returned", version') = 0
  BY <1>1, LeftAt
<1>3. StepsLeft(at[c], version) \in Nat \ {0}
  BY LeftAt DEF Stages
<1>4. StepsLeft("returned", version') < StepsLeft(at[c], version)
  BY <1>2, <1>3
<1>5. at[c] \in Stages
  OBVIOUS
<1> QED
  BY <1>1, <1>4, <1>5, Onward

\* The handshake and what is concluded from it.
LEMMA FetchMovesOn ==
  ASSUME Types, NEW c \in {"tls.expiry", "tls.hostname"},
         ReuseHandshake(c) \/ BeginFetch(c) \/ FetchEnds(c)
  PROVE  MovesOn(c)
<1>0. c \in Checks /\ c \in TlsChecks /\ version \in Nat
  BY DEF Checks, TlsChecks, Types
<1>1. CASE ReuseHandshake(c)
  <2>1. /\ at[c] = "retrieve" /\ GoTo(c, "returned") /\ UNCHANGED <<version, ports, fetching>>
    BY <1>1 DEF ReuseHandshake, Conclude, Return, shared
  <2> QED
    BY <1>0, <2>1, OnToReturn DEF Stages
<1>2. CASE BeginFetch(c)
  <2>1. /\ at[c] = "retrieve" /\ GoTo(c, "fetch") /\ fetching' = c /\ UNCHANGED <<version, ports>>
    BY <1>2 DEF BeginFetch
  <2>2. "fetch" \in Stages /\ "retrieve" \in Stages
    BY DEF Stages
  <2>3. StepsLeft("fetch", version) = 1 /\ StepsLeft("retrieve", version) = 2
    BY <2>2, LeftAt
  <2> QED
    BY <1>0, <2>1, <2>2, <2>3, Onward
<1>3. CASE FetchEnds(c)
  <2>1. /\ at[c] = "fetch" /\ GoTo(c, "returned") /\ fetching' = "nobody" /\ UNCHANGED <<version, ports>>
    BY <1>3 DEF FetchEnds, Conclude, Return, Unlocked
  <2> QED
    BY <1>0, <2>1, OnToReturn DEF Stages
<1> QED
  BY <1>1, <1>2, <1>3

\* The version loop comes one version further, or ends.
LEMMA TestedMovesOn ==
  ASSUME Types, VersionsFollow, at["tls.versions"] \in {"look", "connect"}, NEW status, Tested(status)
  PROVE  MovesOn("tls.versions")
<1> DEFINE c == "tls.versions"
<1>0. c \in Checks /\ version \in Nat /\ version \in 1..5
  BY VersionList DEF Checks, TlsChecks, Types, VersionsFollow
<1>1. version' = version + 1 /\ UNCHANGED <<ports, fetching>>
  BY DEF Tested
<1>2. GoTo(c, "returned") \/ GoTo(c, "look")
  BY DEF Tested, Return
<1>3. {"look", "connect"} \subseteq Stages \ {"absent", "returned"}
  BY DEF Stages
<1>4. CASE GoTo(c, "returned")
  BY <1>0, <1>1, <1>3, <1>4, OnToReturn
<1>5. CASE GoTo(c, "look")
  <2>1. /\ StepsLeft("look", version') = 2 * (5 - version') + 2
        /\ StepsLeft("look", version) = 2 * (5 - version) + 2
        /\ StepsLeft("connect", version) = 2 * (5 - version) + 1
    BY <1>3, LeftAt
  <2>2. StepsLeft("look", version') < StepsLeft(at[c], version)
    BY <1>0, <1>1, <2>1
  <2> QED
    BY <1>0, <1>1, <1>3, <1>5, <2>2, Onward
<1> QED
  BY <1>2, <1>4, <1>5

\* The other steps of the version check.
LEMMA ProbeMovesOn ==
  ASSUME Types, VersionsFollow, ProbeReuses \/ ProbeConnects \/ ProbeFails
  PROVE  MovesOn("tls.versions")
<1> DEFINE c == "tls.versions"
<1>0. c \in Checks /\ version \in Nat /\ (at[c] # "returned" => version \in 1..5)
  BY VersionList DEF Checks, TlsChecks, Types, VersionsFollow
<1>1. UNCHANGED <<version, ports, fetching>>
  BY DEF ProbeReuses, ProbeConnects, ProbeFails, shared
<1>2. {"probe", "TLSv1.3", "TLSv1.2", "look"} \subseteq Stages \ {"absent", "returned"}
  BY DEF Stages
<1>3. /\ StepsLeft("probe", version) = 13 /\ StepsLeft("TLSv1.3", version) = 12
      /\ StepsLeft("TLSv1.2", version) = 11 /\ StepsLeft("look", version) = 2 * (5 - version) + 2
  BY <1>2, LeftAt
<1>4. \/ at[c] = "probe" /\ (GoTo(c, "look") \/ GoTo(c, "TLSv1.3"))
      \/ at[c] = "TLSv1.3" /\ (GoTo(c, "look") \/ GoTo(c, "TLSv1.2"))
      \/ at[c] = "TLSv1.2" /\ (GoTo(c, "look") \/ GoTo(c, "returned"))
  BY DEF ProbeReuses, ProbeConnects, ProbeFails, Return
<1>5. CASE at[c] = "TLSv1.2" /\ GoTo(c, "returned")
  BY <1>0, <1>1, <1>2, <1>5, OnToReturn
<1>6. CASE at[c] \in {"probe", "TLSv1.3", "TLSv1.2"} /\ GoTo(c, "look")
  <2>1. StepsLeft("look", version') < StepsLeft(at[c], version)
    BY <1>0, <1>1, <1>3, <1>6
  <2> QED
    BY <1>0, <1>1, <1>2, <1>6, <2>1, Onward
<1>7. CASE at[c] = "probe" /\ GoTo(c, "TLSv1.3")
  <2>1. StepsLeft("TLSv1.3", version') < StepsLeft(at[c], version)
    BY <1>0, <1>1, <1>3, <1>7
  <2> QED
    BY <1>0, <1>1, <1>2, <1>7, <2>1, Onward
<1>8. CASE at[c] = "TLSv1.3" /\ GoTo(c, "TLSv1.2")
  <2>1. StepsLeft("TLSv1.2", version') < StepsLeft(at[c], version)
    BY <1>0, <1>1, <1>3, <1>8
  <2> QED
    BY <1>0, <1>1, <1>2, <1>8, <2>1, Onward
<1> QED
  BY <1>4, <1>5, <1>6, <1>7, <1>8

LEMMA VersionMovesOn ==
  ASSUME Types, VersionsFollow, LookForVersion \/ TestVersion
  PROVE  MovesOn("tls.versions")
<1> DEFINE c == "tls.versions"
<1>0. c \in Checks /\ version \in Nat /\ (at[c] # "returned" => version \in 1..5)
  BY VersionList DEF Checks, TlsChecks, Types, VersionsFollow
<1>1. \/ at[c] \in {"look", "connect"} /\ \E status : Tested(status)
      \/ at[c] = "look" /\ GoTo(c, "connect") /\ UNCHANGED shared
  BY DEF LookForVersion, TestVersion
<1>2. CASE at[c] \in {"look", "connect"} /\ \E status : Tested(status)
  BY <1>2, TestedMovesOn
<1>3. CASE at[c] = "look" /\ GoTo(c, "connect") /\ UNCHANGED shared
  <2>1. UNCHANGED <<version, ports, fetching>>
    BY <1>3 DEF shared
  <2>2. {"look", "connect"} \subseteq Stages
    BY DEF Stages
  <2>3. /\ StepsLeft("look", version) = 2 * (5 - version) + 2
        /\ StepsLeft("connect", version) = 2 * (5 - version) + 1
    BY <2>2, LeftAt
  <2>4. StepsLeft("connect", version') < StepsLeft(at[c], version)
    BY <1>0, <1>3, <2>1, <2>3
  <2> QED
    BY <1>0, <1>3, <2>1, <2>2, <2>4, Onward
<1> QED
  BY <1>1, <1>2, <1>3

\* The check of the host name, the headers and the answers of name servers.
LEMMA OtherMovesOn ==
  ASSUME Types, NEW c \in Checks,
         \/ c = "tls.hostname" /\ CheckHostname
         \/ c = "http_headers" /\ CheckHeaders
         \/ c = "dnssec" /\ (QueryName \/ FindApex \/ QueryApex \/ Dig)
         \/ c = "open_resolver" /\ (ResolveServer \/ AskServer)
         \/ c = "tcp_exposure" /\ CollectPorts
  PROVE  MovesOn(c)
<1>0. version \in Nat
  BY DEF Types
<1> DEFINE LastStages == {"verify", "request", "query", "apex", "zone", "dig", "resolve", "ask", "ports"}
           Moves == /\ UNCHANGED <<version, ports, fetching>>
                    /\ \/ at[c] \in LastStages /\ GoTo(c, "returned")
                       \/ at[c] = "verify" /\ GoTo(c, "retrieve")
                       \/ at[c] = "query" /\ GoTo(c, "apex")
                       \/ at[c] = "apex" /\ GoTo(c, "zone")
                       \/ at[c] = "resolve" /\ GoTo(c, "ask")
<1>1. ASSUME c = "tls.hostname" /\ CheckHostname PROVE Moves
  BY <1>1 DEF CheckHostname, Return, shared
<1>11. ASSUME c = "http_headers" /\ CheckHeaders PROVE Moves
  <2>1. at[c] = "request" /\ GoTo(c, "returned") /\ UNCHANGED shared
    BY <1>11 DEF CheckHeaders, Return
  <2> QED
    BY <2>1 DEF shared
<1>12. ASSUME c = "dnssec" /\ (QueryName \/ FindApex \/ QueryApex \/ Dig) PROVE Moves
  BY <1>12 DEF QueryName, FindApex, QueryApex, Dig, Return, shared
<1>13. ASSUME c = "open_resolver" /\ (ResolveServer \/ AskServer) PROVE Moves
  BY <1>13 DEF ResolveServer, AskServer, Return, shared
<1>14. ASSUME c = "tcp_exposure" /\ CollectPorts PROVE Moves
  <2>1. at[c] = "ports" /\ GoTo(c, "returned") /\ UNCHANGED shared
    BY <1>14, Zenon DEF CollectPorts, Return
  <2> QED
    BY <2>1 DEF shared
<1>2. Moves
  BY <1>1, <1>11, <1>12, <1>13, <1>14
<1>3. LastStages \cup {"retrieve"} \subseteq Stages \ {"absent", "returned", "look", "connect", "fetch"}
  BY DEF Stages
<1>4. CASE at[c] \in LastStages /\ GoTo(c, "returned")
  BY <1>0, <1>2, <1>3, <1>4, OnToReturn
<1>5. \A v : /\ StepsLeft("verify", v) = 3 /\ StepsLeft("query", v) = 3
             /\ StepsLeft("retrieve", v) = 2 /\ StepsLeft("apex", v) = 2 /\ StepsLeft("resolve", v) = 2
             /\ StepsLeft("zone", v) = 1 /\ StepsLeft("ask", v) = 1
  BY <1>3, LeftAt
<1>6. ASSUME NEW there \in {"retrieve", "apex", "zone", "ask"}, at[c] \in LastStages, GoTo(c, there),
             StepsLeft(there, version') < StepsLeft(at[c], version)
      PROVE  MovesOn(c)
  <2>1. there \in Stages /\ there \notin {"look", "connect"} /\ at[c] \in Stages /\ at[c] # "fetch"
    BY <1>3, <1>6
  <2> QED
    BY <1>0, <1>2, <1>6, <2>1, Onward
<1>7. CASE at[c] = "verify" /\ GoTo(c, "retrieve")
  BY <1>2, <1>5, <1>6, <1>7
<1>8. CASE at[c] = "query" /\ GoTo(c, "apex")
  BY <1>2, <1>5, <1>6, <1>8
<1>9. CASE at[c] = "apex" /\ GoTo(c, "zone")
  BY <1>2, <1>5, <1>6, <1>9
<1>10. CASE at[c] = "resolve" /\ GoTo(c, "ask")
  BY <1>2, <1>5, <1>6, <1>10
<1> QED
  BY <1>2, <1>4, <1>7, <1>8, <1>9, <1>10

\* A check that the runner starts moves on too, and giving one up or trying a port moves none.
LEMMA StartMovesOn ==
  ASSUME Types, NEW c \in Checks, Start(c)
  PROVE  MovesOn(c)
<1>1. /\ at[c] = "waiting" /\ GoTo(c, FirstStage(c)) /\ UNCHANGED <<version, ports, fetching>>
  BY DEF Start, shared
<1>2. FirstStage(c) \in {"retrieve", "probe", "verify", "request", "query", "dig", "resolve", "ports"}
  BY DEF FirstStage, Checks, TlsChecks
<1>3. FirstStage(c) \in Stages /\ "waiting" \in Stages /\ version \in Nat
  BY <1>2 DEF Stages, Types
<1>4. StepsLeft(FirstStage(c), version) \in 0..13 /\ StepsLeft("waiting", version) = 14
  BY <1>2, <1>3, LeftAt
<1>5. StepsLeft(FirstStage(c), version') < StepsLeft(at[c], version)
  BY <1>1, <1>4
<1> QED
  BY <1>1, <1>2, <1>3, <1>5, Onward

\* How an audit moves on.
LEMMA StepMovesOn ==
  ASSUME Types, VersionsFollow, DOMAIN ports = Ports, NEW c \in Checks, Start(c) \/ Abandon(c) \/ Run(c)
  PROVE  \/ MovesOn(c) /\ UNCHANGED abandoned /\ (\A d \in Checks \ {c} : at'[d] = at[d])
         \/ /\ UNCHANGED <<at, version, fetching, ports>>
            /\ abandoned \subseteq abandoned' /\ abandoned' # abandoned
         \/ /\ UNCHANGED <<at, version, fetching, abandoned>>
            /\ Tried \subseteq Tried' /\ Tried' # Tried /\ DOMAIN ports' = Ports
<1>1. CASE Start(c)
  BY <1>1, StartMovesOn DEF Start, shared, GoTo, Types
<1>2. CASE Abandon(c)
  BY <1>2 DEF Abandon
<1>3. CASE c = "tcp_exposure" /\ \E p \in Ports : CheckPort(p)
  <2>1. PICK p \in Ports : CheckPort(p)
    BY <1>3
  <2>2. PICK outcome \in {"reachable", "closed", "failed"} : ports' = [ports EXCEPT ![p] = outcome]
    BY <2>1 DEF CheckPort
  <2>3. ports[p] = "untried" /\ UNCHANGED <<at, version, fetching, abandoned>>
    BY <2>1 DEF CheckPort
  <2>4. DOMAIN ports' = Ports /\ \A q \in Ports : ports'[q] = IF q = p THEN outcome ELSE ports[q]
    BY <2>2
  <2> QED
    BY <2>3, <2>4 DEF Tried
<1>4. CASE Run(c) /\ ~(c = "tcp_exposure" /\ \E p \in Ports : CheckPort(p))
  <2>1. MovesOn(c)
    <3>1. CASE c \in {"tls.expiry", "tls.hostname"} /\ (ReuseHandshake(c) \/ BeginFetch(c) \/ FetchEnds(c))
      BY <3>1, FetchMovesOn
    <3>2. CASE c = "tls.versions" /\ (ProbeReuses \/ ProbeConnects \/ ProbeFails \/ LookForVersion \/ TestVersion)
      BY <3>2, ProbeMovesOn, VersionMovesOn
    <3>3. CASE \/ c = "tls.hostname" /\ CheckHostname
               \/ c = "http_headers" /\ CheckHeaders
               \/ c = "dnssec" /\ (QueryName \/ FindApex \/ QueryApex \/ Dig)
               \/ c = "open_resolver" /\ (ResolveServer \/ AskServer)
               \/ c = "tcp_exposure" /\ CollectPorts
      BY <3>3, OtherMovesOn
    <3> QED
      BY <1>4, <3>1, <3>2, <3>3 DEF Run, RunTls, TlsChecks
  <2>2. UNCHANGED abandoned /\ \A d \in Checks \ {c} : at'[d] = at[d]
    BY <1>4, RunOwn, OthersKept
  <2> QED
    BY <2>1, <2>2
<1> QED
  BY <1>1, <1>2, <1>3, <1>4

\* Where checks are, and who holds the lock.
LockHeld ==
    /\ Staged /\ DOMAIN ports = Ports
    /\ fetching # "nobody" => fetching \in TlsChecks /\ at[fetching] = "fetch"

LEMMA LockHeldInit == Init => LockHeld
<1> SUFFICES ASSUME Init PROVE LockHeld
  OBVIOUS
<1>1. fetching = "nobody" /\ DOMAIN ports = Ports /\ \A c \in Checks : at[c] \in {"waiting", "absent"}
  BY DEF Init
<1> QED
  BY <1>1 DEF LockHeld, Staged, Stages

LEMMA LockHeldNext == IInv /\ LockHeld /\ [Next]_vars => LockHeld'
<1> SUFFICES ASSUME IInv, LockHeld, [Next]_vars PROVE LockHeld'
  OBVIOUS
<1>0. TlsChecks \subseteq Checks
  BY DEF Checks
<1>1. ASSUME UNCHANGED <<at, fetching>>, DOMAIN ports' = Ports PROVE LockHeld'
  BY <1>1 DEF LockHeld, Staged
<1>2. ASSUME NEW c \in Checks, MovesOn(c), \A d \in Checks \ {c} : at'[d] = at[d] PROVE LockHeld'
  <2>1. Staged'
    BY <1>2 DEF LockHeld, Staged, MovesOn
  <2>2. ASSUME fetching' # "nobody" PROVE fetching' \in TlsChecks /\ at'[fetching'] = "fetch"
    <3>1. CASE fetching' = fetching /\ at[c] # "fetch"
      BY <1>0, <1>2, <2>2, <3>1 DEF LockHeld
    <3>2. CASE fetching' = c /\ at'[c] = "fetch" /\ c \in TlsChecks
      BY <3>2
    <3> QED
      BY <1>2, <2>2, <3>1, <3>2 DEF MovesOn
  <2> QED
    BY <1>2, <2>1, <2>2 DEF LockHeld, MovesOn
<1>3. CASE Next
  <2>1. PICK c \in Checks : Start(c) \/ Abandon(c) \/ Run(c)
    BY <1>3 DEF Next
  <2> QED
    BY <1>1, <1>2, <2>1, StepMovesOn DEF IInv, LockHeld
<1>4. CASE UNCHANGED vars
  BY <1>1, <1>4 DEF vars, LockHeld
<1> QED
  BY <1>3, <1>4

LEMMA LockHeldAlways == Spec => [](IInv /\ LockHeld)
<1>1. IInv /\ LockHeld /\ [Next]_vars => (IInv /\ LockHeld)'
  BY IInvNext, LockHeldNext
<1> QED
  BY <1>1, IInvInit, LockHeldInit, PTL DEF Spec

\* The steps a check may have to go.
LEMMA ToGoBounded == ASSUME IInv, Staged, NEW c \in Checks PROVE ToGo(c) \in 0..14
<1>1. at[c] \in Stages /\ (at[c] \in {"look", "connect"} => version \in 1..5)
  BY VersionList DEF IInv, VersionsFollow, Staged
<1> QED
  BY <1>1, LeftAt DEF ToGo, Stages

\* Behind ChecksReturn, for any sets of checks: the lock of the handshake is in the hands of a check
\* that is at the handshake, which waits for no lock, whether or not the runner has given it up.
THEOREM HandshakeNotHeldIdle == Spec => []LockInUse
<1>1. IInv /\ LockHeld => LockInUse
  BY ToGoBounded DEF LockHeld, LockInUse
<1> QED
  BY <1>1, LockHeldAlways, PTL

\* Behind ChecksReturn: no step of an audit is without progress, or takes progress back, so that with
\* a finite number of ports an audit takes no more than a bounded number of steps.
THEOREM AuditsWindDown == Spec => CloserToEnd
<1> DEFINE Closer == /\ \A c \in Checks : ToGo(c)' <= ToGo(c)
                     /\ Tried \subseteq Tried' /\ abandoned \subseteq abandoned'
                     /\ \/ \E c \in Checks : ToGo(c)' < ToGo(c)
                        \/ Tried' # Tried
                        \/ abandoned' # abandoned
<1>1. ASSUME IInv, LockHeld, Next PROVE Closer
  <2>1. PICK c \in Checks : Start(c) \/ Abandon(c) \/ Run(c)
    BY <1>1 DEF Next
  <2>2. \A d \in Checks : ToGo(d) \in Int /\ ToGo(d) <= ToGo(d)
    BY <1>1, ToGoBounded DEF LockHeld
  <2>3. CASE MovesOn(c) /\ UNCHANGED abandoned /\ (\A d \in Checks \ {c} : at'[d] = at[d])
    <3>1. ToGo(c)' < ToGo(c) /\ UNCHANGED ports /\ version' \in Nat /\ version <= version'
      BY <2>3 DEF MovesOn
    <3>2. ToGo(c)' <= ToGo(c)
      BY <2>2, <2>3, <3>1 DEF MovesOn
    <3>3. ASSUME NEW d \in Checks \ {c} PROVE ToGo(d)' <= ToGo(d)
      <4>1. at'[d] = at[d] /\ at[d] \in Stages /\ version \in Nat
        BY <1>1, <2>3 DEF LockHeld, Staged, IInv, Types
      <4> QED
        BY <3>1, <4>1, NoMoreLeft DEF ToGo
    <3>4. Tried' = Tried
      BY <3>1 DEF Tried
    <3> QED
      BY <2>3, <3>1, <3>2, <3>3, <3>4
  <2>4. CASE UNCHANGED <<at, version>> /\ abandoned \subseteq abandoned' /\ Tried \subseteq Tried'
             /\ (Tried' # Tried \/ abandoned' # abandoned)
    BY <2>2, <2>4 DEF ToGo
  <2> QED
    BY <1>1, <2>1, <2>3, <2>4, StepMovesOn DEF IInv, LockHeld, Tried
<1>2. IInv /\ LockHeld /\ [Next]_vars => [Closer]_vars
  BY <1>1
<1> HIDE DEF Closer
<1>3. Spec => [][Closer]_vars
  BY <1>2, LockHeldAlways, PTL DEF Spec
<1> QED
  BY <1>3 DEF CloserToEnd, Closer

=============================================================================
