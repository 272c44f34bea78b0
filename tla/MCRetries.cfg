SPECIFICATION UpgradeSpec

CONSTANTS
    w1 = w1
    w2 = w2
    Jobs <- OneJob
    Workers = {w1}
    AttemptLimit = 2
    InitialLimits = {1, 2}
    GrantLimit <- OneGrant
    EventTries = 1
    Confirmations = 1
    MaxInflight = 1
    FinalStatuses = {"nearblack", "failed"}

INVARIANTS
    StoppedIsQuiet
    NothingIsStranded

PROPERTIES
    KeepsCommitment
    EndedJobsStay

CHECK_DEADLOCK FALSE
