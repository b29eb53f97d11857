SPECIFICATION Spec
CONSTANTS
    m1 = m1
    m2 = m2
    nearby = nearby
    l50 = l50
    NoMan = NoMan
    NoDist = NoDist
    NoLimit = NoLimit
    Context = Context
    Man <- MCMan
    Dist <- MCDist
    Limits <- MCLimits
    Received <- MCReceived
    MaxIdx = 2
    Window = 2
    MaxMsgs = 4
    MaxClears = 1
    MaxFails = 0
INVARIANTS
    TypeOK
    ShowsImminent
    RestartReemits
CHECK_DEADLOCK FALSE
