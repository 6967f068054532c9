SPECIFICATION Spec
CONSTANTS
    Callers = {c1}
    Cancellers = {x1}
    Migrators = {m1, m2}
    Nobody = Nobody
    OldReviews = 1
    MaxReviews = 3
    Faults = {"kill", "power", "write"}
    Tears = {"partial", "newline"}
    MaxFaults = 2
SYMMETRY Interchangeable
INVARIANTS TypeOK ChainVerifies OneOutcome
PROPERTIES AckedStays CancelSettles
CHECK_DEADLOCK FALSE
