SPECIFICATION FairSpec
CONSTANTS
    none = none
    a = a
    d = d
    l = l
    Man <- MCMan
    NoMan = none
    Dist <- MCDist
    NoDist = none
    Lanes <- MCLanes
    NoLanes = none
    Sent <- MCSent
    QueueCap = 1
    MaxFrames = 3
    MaxSessions = 2
INVARIANTS TypeOK FeedFollows SignalFollows OneWriter TransportOutlivesReceiver
PROPERTY RxStopReturns
CHECK_DEADLOCK FALSE
