SPECIFICATION Spec
CONSTANTS
    Attempts = {a1, a2}
    Deployments = {d1}
    Segments = {k1}
    Amounts <- MCAmounts
    Limits <- MCLimits
    LeaseCost = 2
    LeaseSpan = 1
    DayLength = 1
    MonthLength = 2
    MaxTime = 2
INVARIANTS TypeOK OverLimitIsFenced ReservationFollowsOutcome
PROPERTIES AdmissionFits ReleasedForGood ExhaustedBudgetStops
CHECK_DEADLOCK FALSE
