CONSTANTS
    Readers = {handler, prober}
    Writers = {w1, w2, w3}
    Probes = {prober}
    Nobody = Nobody
    HoldTime = 5
    Timeout = 10
    Period = 5
    TerminateWhenUnhealthy = TRUE
SPECIFICATION FairSpec
INVARIANT NoFalseAlarm
INVARIANT WritesExclude
INVARIANT SleepersAreAwaited
PROPERTY LockIsGranted
CHECK_DEADLOCK FALSE
