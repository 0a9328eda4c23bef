\* One call is enough to lose an effect id, given an output that is nested too deep.
CONSTANTS
    Outputs = {"objects", "other", "deep"}
    MaxCalls = 1
    MaxIds = 1
SPECIFICATION Spec
PROPERTIES FailureKeepsIdentity
CHECK_DEADLOCK FALSE
