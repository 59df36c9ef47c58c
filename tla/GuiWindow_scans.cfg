CONSTANTS
    MaxRuns = 2
    Plan <- ThreeSteps
SPECIFICATION FairSpec
INVARIANTS OneScan WorkerAlive RowsInPlanOrder ReportMatchesRows SafeClose
CHECK_DEADLOCK FALSE
PROPERTIES BarComesBack
