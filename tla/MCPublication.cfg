SPECIFICATION MCSpec

CONSTANTS
    w1 = w1
    w2 = w2
    i1 = i1
    i2 = i2
    Intents = {i1, i2}
    Workers = {w1, w2}
    Targets = {"X", "PATREON"}
    Changes = {"guard"}
    MaxClaims = 2
    MaxRetries = 0
    MaxAttempts = 2
    MaxLock = 4
    Runs = {1, 2}
    Masters = {i1, i2}
    Sessions = {w1, w2}
    Owners = {w1, w2}
    Assessors = {w1, w2}
    MaxChoices = 1
    MaxTries = 2
    MaxVersion = 4

CONSTRAINTS
    ClaimBounds
    ReviewBounds

SYMMETRY Sym

INVARIANTS
    RowsWellFormed
    PostsAccounted
    OneAttemptAtATime
    StatesAreTrue
    ApprovedAsReviewed
    TeasersMatchChoices

PROPERTIES
    KeepsPromise

CHECK_DEADLOCK FALSE
