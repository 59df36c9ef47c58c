CONSTANTS
    dns = dns
    ping = ping
    mtu = mtu
    icmp = icmp
    NoStep = NoStep
    Wake = Wake
    Steps = {dns, ping, mtu}
    Plan <- PlanLane
    After <- AfterLane
    Lanes <- LanesLane
    Budgeted = {ping}
    SecuritySteps = {mtu}
    Outputs <- OutputsLane
    MaxWorkers = 2
    MaxInterrupts = 2
SPECIFICATION LFairSpec
INVARIANTS LaneExclusion NoIdleWait VerdictEarned EventProtocol ReportInPlanOrder OutcomeTrue ExitTrue ProgressTrue
PROPERTIES VerdictIsFinal ImplementsContract CommandEnds
