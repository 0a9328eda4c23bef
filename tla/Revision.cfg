\* No symmetry: it is unsound for liveness.
SPECIFICATION FairSpec
CONSTANTS
    Checks = {c1, c2}
    Clients <- MCClients
    Timeout = 1
    PoolSize = 1
    MaxParts = 0
    MaxTime = 2
    MaxRevision = 2
INVARIANTS
    TypeOK
    NoStaleGrant
    ConnectionsReturned
PROPERTIES
    CancellationHeard
    InBudget
    ImplementsCurrentAuthority
    ChecksEnd
CHECK_DEADLOCK FALSE
