\* One call and one lookup are enough to lose an error's body.
CONSTANTS
    Outputs = {"objects", "other"}
    MaxCalls = 2
    MaxIds = 1
SPECIFICATION Spec
PROPERTIES LostReplyIsAValue
CHECK_DEADLOCK FALSE
