SPECIFICATION Spec
CONSTANTS
    Workers = {w1, w2}
    Schedules = {s1}
    Tombstone = Tombstone
    Ttl = 1
    MaxTime = 2
    MaxGeneration = 2
    Calls = 1
    MaxRetries = 1
    Results = {"ok", "definite_failed", "ambiguous", "panic"}
    Faults = {"crash", "write", "cancel"}
    MaxReviews = 2
SYMMETRY Symmetry
INVARIANTS NoOverlap NoFalseHold
PROPERTY NoBlindRefire
