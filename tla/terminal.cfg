CONSTANTS
    h1 = h1
    h2 = h2
    s1 = s1
    s2 = s2
    Threads <- MCThreads
    Sockets <- MCSockets
    Capacity = 2
    QueueMax = 2
    HistoryLimit = 1
    MaxLines = 3
SPECIFICATION Spec
INVARIANTS
    TypeOK
    HistoryIsLatest
    ThreadOrderKept
    RepeatsOnlyWhileConnecting
    NoGap
SYMMETRY Symmetry
CHECK_DEADLOCK FALSE
