SPECIFICATION Spec

CONSTANTS
    w1 = w1
    w2 = w2
    Jobs <- OneJob
    Workers = {w1}
    AttemptLimit = 1
    InitialLimits = {1}
    GrantLimit <- NoGrants
    EventTries = 1
    Confirmations = 1
    MaxInflight = 1
    FinalStatuses = {"failed"}

PROPERTIES
    WatchdogIntentIsDurable

CHECK_DEADLOCK FALSE
