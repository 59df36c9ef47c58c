SPECIFICATION FairSpec
CONSTANTS
    Audits <- MCAudits
    Certs <- MCCerts
    Offered = {"TLSv1.1", "TLSv1.3"}
    Untestable = {"SSLv3"}
    Headers = {"strict-transport-security", "content-security-policy"}
    Ports = {22, 80, 443}
INVARIANTS PassMeansTried
CHECK_DEADLOCK FALSE
