SPECIFICATION LeaseSpec
CONSTANTS
    Workers = {w1, w2}
    Schedules = {s1}
    Tombstone = Tombstone
    Ttl = 1
    MaxTime = 2
    MaxGeneration = 4
SYMMETRY Symmetry
INVARIANTS LeaseTypeOK GenerationUnique TakeoverReported
PROPERTIES FenceOrder StaleForGood
