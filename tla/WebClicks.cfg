SPECIFICATION FairSpec
CONSTANTS
    p1 = p1
    i1 = i1
    i2 = i2
    i3 = i3
    Items = {i1, i2, i3}
    FirstQueue <- TwoQueued
    NONE = NONE
    DOWN = DOWN
    Gestures <- EditOrPlayFirst
    Polls = {p1}
    MaxClicks = 2
    MaxChanges = 1
    MaxFailures = 1
    MaxEvents = 2
INVARIANT
    TypeOK
PROPERTY
    HighlightIsOwn
    PageConverges
