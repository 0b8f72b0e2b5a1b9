SPECIFICATION FairSpec
CONSTANTS
    r1 = r1
    r2 = r2
    Session = {r1, r2}
    Setups <- AskingSetups
PROPERTIES
    DecisionSurvives
