SPECIFICATION Spec
CONSTANTS
    c1 = c1
    c2 = c2
    c3 = c3
    s1 = s1
    s2 = s2
    Cores = {c1, c2, c3}
    First = c1
    Sessions = {s1, s2}
    Hosted = {s1}
    Nobody = Nobody
    Faults = {"update", "slow", "kill", "fail", "worker", "shutdown", "end"}
    MaxFaults = 2
    MaxRapid = 2
INVARIANTS HostedOnce NoneTaken OneCore
PROPERTIES Found CoreReturns Resumed
CHECK_DEADLOCK FALSE
