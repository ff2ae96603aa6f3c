CONSTANTS
    MaxRequests = 2
    MaxLen = 3
    JsonMax = 2
    MaxDrain = 1
    MaxFile = 1
SPECIFICATION Spec
CHECK_DEADLOCK FALSE
INVARIANTS
    NeverReadsBodyAsHead
