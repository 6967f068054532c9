SPECIFICATION Spec
CONSTANTS
    Workers = {w1, w2}
    Schedules = {s1}
    Tombstone = Tombstone
    Ttl = 1
    MaxTime = 2
    MaxGeneration = 3
    Calls = 1
    MaxRetries = 0
    Results = {"ok", "ambiguous"}
    Faults = {"crash"}
    MaxReviews = 3
SYMMETRY Symmetry
PROPERTY HeldUntilApproved
