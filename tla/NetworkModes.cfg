SPECIFICATION RacesSpec
CONSTANTS
    h1 = h1
    a1 = a1
    Homes = {h1}
    Hotspot = hotspot
    NONE = NONE
    Stored <- AnyStored
    Boot = boot
    Device = device
    Admins = {a1}
    MaxFaults = 1
    MaxStarts = 2
CHECK_DEADLOCK FALSE
INVARIANTS
    TypeOK
    HotspotIsSecured
    ModeIsRemembered
    ShownPassphraseIsUsed
PROPERTY
    InvocationsAdvance
