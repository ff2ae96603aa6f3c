SPECIFICATION Spec
CONSTANTS
    Conn = {c1, c2}
    Sandbox = {i1, i2}
    Config <- MCConfig
    Request <- MCRequest
    None = None
SYMMETRY Symmetry
INVARIANTS
    ServedAuthorised
    UnauthLearnsNothing
    RunsConfined
    TurnedAwayFromFull
CHECK_DEADLOCK FALSE
