CONSTANTS
    dns = dns
    ping = ping
    mtu = mtu
    icmp = icmp
    NoStep = NoStep
    Wake = Wake
    Steps = {dns, ping, mtu}
    Plan <- PlanLane
    After <- AfterLane
    Lanes <- LanesLane
    Budgeted = {mtu}
    SecuritySteps = {mtu}
    Outputs <- OneResult
    MaxWorkers = 2
    MaxInterrupts = 0
SPECIFICATION Spec
INVARIANTS ThreadsRespectLanes
