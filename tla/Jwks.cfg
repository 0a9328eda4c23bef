\* Two threads, three calls; one key is replaced by another. The lifetime is shorter than
\* the back-off, as the constructor allows (1 s against 5 s). No symmetry: it is unsound
\* for liveness.
CONSTANTS
    k1 = k1
    k2 = k2
    Threads = {t1, t2}
    NoThread = NoThread
    KeyIds = {k1, k2}
    NoKey = NoKey
    Schedule <- Replace
    CacheTtl = 1
    Backoff = 2
    MaxTime = 3
    MaxCalls = 3
SPECIFICATION FairSpec
INVARIANTS
    TypeOK
    OneUnknownFetchPerWindow
    RevokedStaysRevoked
    FreshWhenCalled
    OneHurriedFetch
    NoFalseOutage
PROPERTIES
    RotationRetried
    ImplementsAuthority
    CallsReturn
