SPECIFICATION AtomicSpec
CONSTANTS
    c1 = c1
    c2 = c2
    c3 = c3
    good = good
    bad = bad
    NONE = NONE
    Calls = {c1, c2}
    Requests <- QueueRequests
    SavedQueues <- QueuesSaved
    Paths = {good, bad}
    BadPaths = {bad}
    SongIds = {1,2,3}
    Levels = {60}
    COMMAND_QUEUE = 1
    RECONNECT_INITIAL = 1
    RECONNECT_MAX = 2
    MaxSpontaneous = 0
SYMMETRY Symmetry
CHECK_DEADLOCK FALSE
INVARIANTS
    EffectsAreBounded
    FailureReportsCountTracks
PROPERTIES
    EnqueueAutoplays
    RequestsAreAtomic
