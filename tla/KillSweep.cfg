SPECIFICATION SweepSpec
CONSTANTS
    PidMax = 4
    NProc = 2
    Attempts = 1
INVARIANTS
    VerdictHolds
CHECK_DEADLOCK FALSE
