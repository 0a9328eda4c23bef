\* One admin, whose earlier declarations may still be on their way; an operation that
\* cannot be converted beside one that can.
SPECIFICATION Spec
CONSTANTS
    Admins = {a1}
    Names = {n1, n2}
    MaxCalls = 3
SYMMETRY Interchangeable
CHECK_DEADLOCK FALSE
INVARIANTS
    TypeOK
    WholeOrNothing
    ListedIsDeclarable
    RedeclareChangesNothing
    ReturnedIsAdmitted
