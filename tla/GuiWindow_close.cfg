CONSTANTS
    MaxRuns = 1
    Plan <- OneStep
SPECIFICATION FairSpec
PROPERTIES CloseFollows
CHECK_DEADLOCK FALSE
