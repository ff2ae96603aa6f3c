\* Three threads, two ids, one uid to hand out again and again: the first is taken at start.
CONSTANTS
    Sandboxes = {s1, s2}
    Threads = {t1, t2, t3}
    NoSandbox = NoSandbox
    NoThread = NoThread
    UidRange = 2
    InUse = {1}
    Capacity = 2
    AllowUnconfined = FALSE
    SweepAttempts = 1
SPECIFICATION FairSpec
INVARIANTS
    UidExclusive
    NoInheritedProcesses
    ReservedExact
    CapacityRespected
    TornDownHomesKeepUid
PROPERTIES
    NoSpawnAfterMark
    ImplementsLease
    DeleteCompletes
