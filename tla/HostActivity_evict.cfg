CONSTANTS
    Sandboxes = {a, b}
    Threads = {t1}
    NoSandbox = NoSandbox
    MaxFinished = 1
    MaxIds = 1
    IdleTicks = 1
SPECIFICATION Spec
CHECK_DEADLOCK FALSE
PROPERTIES
    EvictsOnlyQuiet
