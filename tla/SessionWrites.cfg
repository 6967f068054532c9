SPECIFICATION Spec
CONSTANTS
    c1 = c1
    c2 = c2
    w1 = w1
    w2 = w2
    w3 = w3
    i1 = i1
    i2 = i2
    Cores = {c1, c2}
    First = c1
    Commands = {w1, w2, w3}
    Ids = {i1, i2}
    IdOf <- Carries
    History = 1
    CompactLines = 2
    Nobody = Nobody
    Faults = {"handoff", "refuse", "slow", "kill", "panic", "pty", "disk"}
    MaxFaults = 2
SYMMETRY Transports
CONSTRAINT SomeHidden
INVARIANTS DeliveredOnce OkTyped
CHECK_DEADLOCK FALSE
