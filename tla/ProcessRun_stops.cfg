CONSTANTS
    command = command
    child = child
    worker = worker
    Command = command
    Children = {child, worker}
    PipeHolders = {child}
    Stubborn = {command, worker}
SPECIFICATION FairSpec
INVARIANTS OutcomeHonest CommandReaped NoStrangerSignalled
CHECK_DEADLOCK FALSE
PROPERTIES CancelStops
