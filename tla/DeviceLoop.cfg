SPECIFICATION FairSpec
CONSTANTS
    x = x
    y = y
    c1 = c1
    PinOrder <- PlayAndNetwork
    YPins = {y}
    Clients = {c1}
    LONG_PRESS = 3
    SHORT_PRESS_MIN = 2
    POLL_INTERVAL = 1
    DISPLAY_REFRESH = 2
    BUTTON_COOLDOWN = 5
    SNAPSHOT_REPLY_TIMEOUT = 3
    MaxBlock = 2
    MaxPresses <- OneOrTwo
    MaxQueued = 2
INVARIANTS
    TypeOK
    TogglesAreSpaced
    ActsOncePerPress
    SnapshotShowsOutcome
PROPERTIES
    NoTimeoutWhileIdle
    HoldSwitches
