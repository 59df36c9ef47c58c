CONSTANTS
    expiry = expiry
    versions = versions
    hostname = hostname
    handshake = handshake
    other = other
    ipA = ipA
    ipB = ipB
    Nobody = Nobody
    Callers = {expiry, versions, hostname}
    Keys = {handshake, other}
    Addresses = {ipA, ipB}
    Hanging = {other}
    MaxCalls = 1
    MaxDialled = 2
SPECIFICATION FairSpec
INVARIANTS SingleFlight CallersAgree ReuseAgreed
PROPERTIES CallsReturn
CHECK_DEADLOCK FALSE
