SPECIFICATION Spec
CONSTANTS
    k1 = k1
    MaxRequests = 2
    KeyOf <- Same
    Keys = {k1}
    Legacy = {}
    Phones = {p1}
    MaxAnswers = 2
    ResolvedCap = 1
    Faults = {"restart", "disk", "reject"}
    MaxFaults = 1
INVARIANTS FirstAnswerWins AnswerReaches GrantsApproved
PROPERTY Shown
CHECK_DEADLOCK FALSE
