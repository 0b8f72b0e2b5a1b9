SPECIFICATION FairSpec
CONSTANTS
    run = run
    first = first
    second = second
    Runner = run
    Replay = {first}
    StepLimit = 4
    MaxInterventions = 2
    Faults = TRUE
INVARIANTS
    TypeOK
    SpansFollowTrace
    FinishedRowIsWhole
    ReplayAnswersForItsFork
    RunPlansByTheRules
PROPERTIES
    EveryInvocationIsRecorded
