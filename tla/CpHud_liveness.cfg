SPECIFICATION FairSpec
CONSTANTS
    m1 = m1
    m2 = m2
    nearby = nearby
    l50 = l50
    NoMan = NoMan
    NoDist = NoDist
    NoLimit = NoLimit
    Context = Context
    Man <- OneMan
    Dist <- MCDist
    Limits <- MCLimits
    Received <- OneTurn
    MaxIdx = 1
    Window = 1
    MaxMsgs = 2
    MaxClears = 1
    MaxFails = 1
INVARIANTS
    NoTurnBesideSign
PROPERTIES
    NavOffClears
    SignFollows
CHECK_DEADLOCK FALSE
