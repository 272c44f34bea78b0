SPECIFICATION FairSpec

CONSTANTS
    w1 = w1
    w2 = w2
    Jobs <- OneJob
    Workers = {w1, w2}
    AttemptLimit = 1
    InitialLimits = {1}
    GrantLimit <- NoGrants
    EventTries = 2
    Confirmations = 2
    MaxInflight = 1
    FinalStatuses = {"succeeded", "failed", "nearblack", "invalid", "cancelled"}

INVARIANTS
    TypeOK
    AtMostOnePost
    NoOrphan
    SubmittingIsOwned
    OutputsAreReal

PROPERTIES
    StopFencesSubmission
    StopSettles
    ReservationsEnd

CHECK_DEADLOCK FALSE
