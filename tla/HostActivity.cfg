CONSTANTS
    Sandboxes = {a, b}
    Threads = {t1}
    NoSandbox = NoSandbox
    MaxFinished = 0
    MaxIds = 2
    IdleTicks = 0
SPECIFICATION FairSpec
CHECK_DEADLOCK FALSE
INVARIANTS
    RunningListed
PROPERTIES
    EvictionSparesRegistered
    ShutdownSparesCounted
    AbandonedServerStops
    IdleEvictedWhenHostQuiet
