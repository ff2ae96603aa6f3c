CONSTANTS
    MaxRequests = 2
    MaxLen = 3
    JsonMax = 2
    MaxDrain = 1
    MaxFile = 1
SPECIFICATION FairSpec
CHECK_DEADLOCK FALSE
INVARIANTS
    AtMessageBoundary
    ResponseComplete
    AnswersInOrder
PROPERTIES
    ConnectionReleased
