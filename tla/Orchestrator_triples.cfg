SPECIFICATION FairSpec
CONSTANTS
    a = a
    b = b
    c = c
    Subtask = {a, b, c}
    Plans <- TriplePlans
    Reviews <- TripleReviews
    NoPlan = NoPlan
    NoReview = NoReview
    MaxSpecialistRetries = 2
    MaxReviewCycles = 2
    UseMemory = FALSE
    UseCelery = TRUE
    RetryCap = 2
    ReviewCap = 2
PROPERTIES
    Settles
    RefinesLifecycle
    KeepsLifecycleMoving
    FollowsStages
