SPECIFICATION Spec
CONSTANTS
    Questions <- MCQuestions
    Hosts = {"a", "b", "c"}
    MaxConcurrent = 2
    CommandTimeout = 2
    Budgets <- MCBudgets
    Horizon = 5
INVARIANTS NothingCutShort MtuFound ProbesFew
CHECK_DEADLOCK FALSE
