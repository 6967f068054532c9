SPECIFICATION Spec
CONSTANTS
    h1 = h1
    h2 = h2
    t1 = t1
    t2 = t2
    t3 = t3
    k1 = k1
    k2 = k2
    Hosts = {h1, h2}
    Threads = {t1, t2, t3}
    HostOf <- Homes
    Keys = {k1, k2}
    KeyOf <- Wants
    Legacy = {k1}
    Nobody = Nobody
    Faults = {"error", "read", "kill", "power", "wake"}
    MaxFaults = 1
INVARIANTS TypeOK WriteAhead ChainVerifies AckedKept
PROPERTIES BatchAnswered KeepsPromise
CHECK_DEADLOCK FALSE
