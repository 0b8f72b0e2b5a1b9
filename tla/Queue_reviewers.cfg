SPECIFICATION FairSpec
CONSTANTS
    r1 = r1
    r2 = r2
    Session = {r1, r2}
    Setups <- QueueSetups
INVARIANTS
    TypeOK
    DecisionIsForThisEscalation
PROPERTIES
    TranscriptKept
    DecisionSurvives
    DoneIsUnlisted
    FirstEscalationIsAnswered
    RefinesHandover
