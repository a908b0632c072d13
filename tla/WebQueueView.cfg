SPECIFICATION FairSpec
CONSTANTS
    p1 = p1
    i1 = i1
    i2 = i2
    i3 = i3
    Items = {i1, i2}
    FirstQueue <- TwoQueued
    NONE = NONE
    DOWN = DOWN
    Gestures <- TwoRemovals
    Polls = {p1}
    MaxClicks = 2
    MaxChanges = 0
    MaxFailures = 0
    MaxEvents = 2
PROPERTY
    QueueViewConverges
