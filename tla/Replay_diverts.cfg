SPECIFICATION Spec
CONSTANTS
    run = run
    first = first
    second = second
    Runner = run
    Replay = {first}
    StepLimit = 4
    MaxInterventions = 2
    Faults = TRUE
INVARIANTS
    RunEndsOnItsOwnPath
