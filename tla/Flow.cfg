SPECIFICATION FlowSpec
CONSTANTS
    Checks = {c1, c2}
    Clients <- MCClients
    Timeout = 1
    PoolSize = 1
    MaxParts = 0
    MaxTime = 5
    MaxRevision = 2
    MaxTtl = 1
    Skew = 1
    Drifts <- MCDrifts
    MaxTokens = 1
SYMMETRY Interchangeable
INVARIANTS
    RevokedWithinBudget
    ActsWithinLifetime
CHECK_DEADLOCK FALSE
