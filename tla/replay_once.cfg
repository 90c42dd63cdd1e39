SPECIFICATION Spec
CONSTANTS
    Threads = {t1, t2}
    Nonces = {n1, n2}
    Window = 1
    Slack = 1
    CacheMax = 1
    Trim = 1
    MaxTime = 5
    NoTime = NoTime
SYMMETRY Symmetry
INVARIANTS
    UsedIsKnownOrStale
PROPERTY
    ImplementsRegister
CHECK_DEADLOCK FALSE
