CONSTANTS
    wake = wake
    other = other
    third = third
    c1 = c1
    c2 = c2
    Callbacks = {wake, other, third}
    Cancellers = {c1, c2}
    Failing = {other}
SPECIFICATION FairSpec
INVARIANTS RunsAtMostOnce
CHECK_DEADLOCK FALSE
PROPERTIES NoneLost
