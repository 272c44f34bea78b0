SPECIFICATION MCSpec

CONSTANTS
    Workers = {"w1", "w2"}
    Leaving = {"w2"}
    MaxAttempts = 2
    MaxPosts = 2
    Collectors = {"w1", "w2"}
    Builder = "b"
    Outputs = {1}
    Images = {"x"}
    MaxKeys = 2
    Attempts = {1}
    Need <- Artifacts
    LeaseNeeds = {}
    MaxRollouts = 3
    MaxVersion = 3
    Services = {"collectors"}

INVARIANTS
    FrozenSetIsCounted

CHECK_DEADLOCK FALSE
