\* Chains of up to two actors, and one too many, over 11 scope lists and 3 windows.
CONSTANTS
    a = a  b = b  r = r  s = s
    AnyResource = AnyResource
    NoRequirement = NoRequirement
    Kinds = {1, 2, 3}
    Actions = {a, b}
    Resources = {r, s}
    Lists <- MCLists
    Windows <- MCWindows
    Clock <- MCClock
    MaxTtl = 3
    Skew = 1
    MaxScopes = 2
    MaxDepth = 2
SPECIFICATION Spec
INVARIANTS
    TypeOK
    NoAmplification
    RefusedForCause
    AcceptedWithinLifetime
\* A call ends, and nothing follows.
CHECK_DEADLOCK FALSE
