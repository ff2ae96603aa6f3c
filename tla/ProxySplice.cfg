CONSTANTS
    SockCap = 2
    MaxBytes = 4
    MaxPrefetch = 2
SPECIFICATION FairSpec
CHECK_DEADLOCK FALSE
INVARIANTS
    ForwardedInOrder
    HalfCloseAfterAllInput
    ResponseDelivered
PROPERTIES
    TunnelEnds
