CONSTANTS
    command = command
    child = child
    worker = worker
    Command = command
    Children = {child}
    PipeHolders = {child}
    Stubborn = {child}
SPECIFICATION Spec
INVARIANTS GroupKilled
CHECK_DEADLOCK FALSE
