SPECIFICATION Spec

CONSTANTS
    w1 = w1
    w2 = w2
    Jobs <- TwoJobs
    Workers = {w1}
    AttemptLimit = 1
    InitialLimits = {1}
    GrantLimit <- NoGrants
    EventTries = 1
    Confirmations = 1
    MaxInflight = 1
    FinalStatuses = {"succeeded"}

INVARIANTS
    BacklogBounded
    ReviewIsComplete

CHECK_DEADLOCK FALSE
