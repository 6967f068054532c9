SPECIFICATION Spec
CONSTANTS
    w1 = w1
    w2 = w2
    Workers = {w1, w2}
    Nobody = Nobody
    MaxRuns = 2
    Calls = 2
    Kind <- AllTools
    Hinted = {}
    MaxSteps = 3
    MaxRetries = 1
    Events = {"crash", "pause", "cancel", "replace"}
    MaxEvents = 2
INVARIANTS NeverReplayed DoneDecided ParkedInDoubt
PROPERTY Settles
CHECK_DEADLOCK FALSE
