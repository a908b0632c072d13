SPECIFICATION Spec
CONSTANTS
    c1 = c1
    c2 = c2
    c3 = c3
    good = good
    bad = bad
    NONE = NONE
    Calls = {c1, c2, c3}
    Requests <- TransportRequests
    SavedQueues <- NothingSaved
    Paths = {good, bad}
    BadPaths = {bad}
    SongIds = {1}
    Levels = {60}
    COMMAND_QUEUE = 1
    RECONNECT_INITIAL = 1
    RECONNECT_MAX = 2
    MaxSpontaneous = 1
SYMMETRY Symmetry
CHECK_DEADLOCK FALSE
INVARIANTS
    TypeOK
    OkMeansDone
    NoSnapshotWithoutConnection
    SettledSnapshotIsCurrent
    CallsAreHeldOnce
    RetryableMeansUntouched
