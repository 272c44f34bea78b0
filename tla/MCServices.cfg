SPECIFICATION MCFairSpec

CONSTANTS
    Workers = {"w1", "w2"}
    Leaving = {"w2"}
    MaxAttempts = 2
    MaxPosts = 2
    Collectors = {"w1", "w2"}
    Builder = "b"
    Outputs = {1}
    Images = {"x"}
    MaxKeys = 2
    Attempts = {1, 2, 3}
    Need <- Artifacts
    LeaseNeeds = {}
    MaxRollouts = 3
    MaxVersion = 3
    Services = {"admission", "leases", "publication", "mega",
                "archives", "rendering", "video", "intake", "collectors"}

INVARIANTS
    RowsWellFormed
    AdmittedWorkSurvives
    RowsMatchFacts
    UploadsAreKept
    OneExecution

PROPERTIES
    LeasedWorkEnds
    MastersAreFinal

CHECK_DEADLOCK FALSE
