SPECIFICATION FairSpec
CONSTANTS
    Configs <- MCConfigs
    MaxSessions = 2
    MaxSignals = 3
    MaxRejects = 1
    MaxDrops = 1
    Tries = 2
    MaxSetups = 3
INVARIANTS
    TypeOK
    StartsOnlyOwnPause
PROPERTIES
    PauseTakenBack
    DestroyReturns
    StuckLinkActivated
CHECK_DEADLOCK FALSE
