SPECIFICATION Spec
CONSTANTS
    p1 = p1
    p2 = p2
    p3 = p3
    None = None
    Empty = Empty
    Process <- Three
    Sequential = FALSE
    MayCrash = TRUE
    PidReuse = TRUE
INVARIANTS
    OneDaemonIfPatient
    DaemonIsNamed
PROPERTIES
    StopLeavesNoDaemon
    RestartStarts
    ReloadKeepsDaemon
    CommandsReturn
\* Every process may have been used up.
CHECK_DEADLOCK FALSE
