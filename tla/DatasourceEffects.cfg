\* Two starts, four calls: a call, its recovery, a stale request and a fresh start.
CONSTANTS
    Outputs = {"objects", "other", "deep"}
    MaxCalls = 4
    MaxIds = 2
SPECIFICATION Spec
INVARIANTS
    TypeOK
    AtMostOnce
    ToldIsTrue
    EvidenceIsTrue
PROPERTIES
    IdentityKept
    ImplementsOneEffect
