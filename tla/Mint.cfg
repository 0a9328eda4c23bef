SPECIFICATION Spec
CONSTANTS
    MaxTtl = 900
    MintTtl = 900
    DefaultTtl = 300
    Skew = 60
    Ttls <- MCTtls
    Instants <- MCInstants
    Drifts <- MCDrifts
    Audiences = {"accounts", "evidence"}
    MaxHeld = 2
INVARIANTS
    TypeOK
    UsableUntilItExpires
    RequestsAreWellFormed
    LifetimeAsAsked
