SPECIFICATION Spec
CONSTANTS
    task = task
    keeper = keeper
    person = person
    Client = {task, keeper}
    Does <- TaskAndConsolidation
    MaxMemories = 2
    MaxUses = 2
    AccessCap = 2
INVARIANTS
    FactsKept
