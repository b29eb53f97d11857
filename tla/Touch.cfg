SPECIFICATION FairSpec
CONSTANTS
    MaxFingers = 2
    Raw <- MCRaw
    MaxAttempts = 2
    MaxContacts = 3
    MaxSessions = 2
INVARIANTS TypeOK EventsFit ReaderFollows NoGhostFinger
PROPERTIES StopReturns FingerStreamSpec
CHECK_DEADLOCK FALSE
