SPECIFICATION FairSpec
CONSTANTS
    c1 = c1
    c2 = c2
    c3 = c3
    good = good
    bad = bad
    NONE = NONE
    Calls = {c1, c2}
    Requests <- LiveRequests
    SavedQueues <- NothingSaved
    Paths = {good, bad}
    BadPaths = {bad}
    SongIds = {1}
    Levels = {60}
    COMMAND_QUEUE = 1
    RECONNECT_INITIAL = 1
    RECONNECT_MAX = 1
    MaxSpontaneous = 1
CHECK_DEADLOCK FALSE
PROPERTIES
    EveryCallReturns
    SnapshotConverges
