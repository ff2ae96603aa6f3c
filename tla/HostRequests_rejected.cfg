SPECIFICATION Spec
CONSTANTS
    Conn = {c1, c2}
    Sandbox = {i1, i2}
    Config <- MCConfig
    Request <- MCRequest
    None = None
INVARIANTS
    AnswerAccountsForRequest
CHECK_DEADLOCK FALSE
