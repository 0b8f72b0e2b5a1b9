SPECIFICATION FairSpec
CONSTANTS
    s = s
    t = t
    writer = writer
    researcher = researcher
    shared = shared
    own = own
    NoBranch = NoBranch
    Branch = {s, t}
    Agent = {writer, researcher}
    Registry = {shared, own}
    Setups <- AllSetups
    MaxToolIterations = 2
    RateLimit = 2
    Window = 1
INVARIANTS
    TypeOK
    UsageIsOwn
    AnswerIsOwn
    OwnCallsCollected
    CallsAreOwn
    RateLimitHolds
PROPERTIES
    EveryBranchEnds
    NearsItsEnd
