CONSTANTS
    Cmds = {c1, c2}
    Timed = {c1}
    Pids = {p1, p2}
    NoPid = NoPid
    Other = Other
    Nobody = Nobody
SPECIFICATION FairSpec
INVARIANTS
    StatusNotStolen
    TimeoutReportedExactly
PROPERTIES
    NoStrangerSignalled
    ExitReported
    WatcherEnds
    OrphansReaped
