SPECIFICATION RacesSpec
CONSTANTS
    h1 = h1
    a1 = a1
    Homes = {h1}
    Hotspot = hotspot
    NONE = NONE
    Stored <- UsedAtHome
    Boot = boot
    Device = device
    Admins = {}
    MaxFaults = 1
    MaxStarts = 1
CHECK_DEADLOCK FALSE
INVARIANT
    SavedModeSurvives
