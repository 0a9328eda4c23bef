CONSTANTS
    k1 = k1
    k2 = k2
    Threads = {t1, t2, t3}
    NoThread = NoThread
    KeyIds = {k1, k2}
    NoKey = NoKey
    Schedule <- Replace
    CacheTtl = 1
    Backoff = 2
    MaxTime = 3
    MaxCalls = 3
SPECIFICATION Spec
SYMMETRY ThreadSymmetry
PROPERTIES
    NeverStaleKeys
