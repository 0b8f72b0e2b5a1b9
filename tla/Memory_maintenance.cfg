SPECIFICATION Spec
CONSTANTS
    task = task
    keeper = keeper
    person = person
    Client = {keeper, person}
    Does <- EverythingWhileErasing
    MaxMemories = 3
    MaxUses = 2
    AccessCap = 2
INVARIANTS
    TypeOK
    FactsKept
    AccessesKept
    EraseIsFinal
