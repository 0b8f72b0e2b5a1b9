SPECIFICATION Spec
CONSTANTS
    a = a
    b = b
    c = c
    Subtask = {a, b}
    Plans <- PairPlans
    Reviews <- PairReviews
    NoPlan = NoPlan
    NoReview = NoReview
    MaxSpecialistRetries = 2
    MaxReviewCycles = 2
    UseMemory = FALSE
    UseCelery = FALSE
    RetryCap = 2
    ReviewCap = 2
INVARIANTS
    GuidanceHonoured
