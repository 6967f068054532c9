SPECIFICATION Spec
CONSTANTS
    w1 = w1
    w2 = w2
    Workers = {w1, w2}
    Nobody = Nobody
    MaxRuns = 1
    Calls = 2
    Kind <- AllTools
    Hinted = {}
    MaxSteps = 2
    MaxRetries = 0
    Events = {"crash", "journal", "lapse", "unread", "once", "retry", "show", "resume"}
    MaxEvents = 3
SYMMETRY Interchangeable
INVARIANTS EffectOnce JournalTrue
CHECK_DEADLOCK FALSE
