SPECIFICATION Spec
CONSTANTS
    x = x
    y = y
    c1 = c1
    PinOrder <- NetworkOnly
    YPins = {y}
    Clients = {}
    LONG_PRESS = 3
    SHORT_PRESS_MIN = 2
    POLL_INTERVAL = 1
    DISPLAY_REFRESH = 4
    BUTTON_COOLDOWN = 5
    SNAPSHOT_REPLY_TIMEOUT = 4
    MaxBlock = 4
    MaxPresses <- OneEach
    MaxQueued = 3
INVARIANT
    ShortPressNeverToggles
