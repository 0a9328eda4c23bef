\* One check, by either kind of client.
SPECIFICATION Spec
CONSTANTS
    Checks = {c1}
    Clients <- MCClients
    Timeout = 1
    PoolSize = 1
    MaxParts = 0
    MaxTime = 1
    MaxRevision = 1
INVARIANTS
    EveryCancellationHeard
CHECK_DEADLOCK FALSE
