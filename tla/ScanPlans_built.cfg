SPECIFICATION Spec
CONSTANTS
    Ids <- MCIds
    Inputs <- MCInputs
    Timeouts = {1, 5, 10, 30, 60}
    TcpTimeouts <- MCTcpTimeouts
    MtuRanges <- MCMtuRanges
    PortCounts = {1, 10, 11, 20, 21, 100}
    HostCounts = {0, 1, 50, 51, 1024}
INVARIANTS VerdictRight CycleNamed BuiltAccepted WritersFirst BudgetCovers
CHECK_DEADLOCK FALSE
