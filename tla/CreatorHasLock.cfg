CONSTANTS
    Readers = {prober}
    Writers = {w1, w2}
    Probes = {prober}
    Nobody = Nobody
    HoldTime = 5
    Timeout = 10
    Period = 5
    TerminateWhenUnhealthy = TRUE
SPECIFICATION Spec
INVARIANT CreatorHasLock
CHECK_DEADLOCK FALSE
