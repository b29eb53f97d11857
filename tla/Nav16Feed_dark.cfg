SPECIFICATION Spec
CONSTANTS
    none = none
    a = a
    d = d
    l = l
    Man <- MCMan
    NoMan = none
    Dist <- MCDist
    NoDist = none
    Lanes <- MCLanes
    NoLanes = none
    Sent <- MCSent
    QueueCap = 1
    MaxFrames = 1
    MaxSessions = 1
INVARIANT SeenMeans16
CHECK_DEADLOCK FALSE
