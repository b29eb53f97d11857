SPECIFICATION Spec
CONSTANTS
    MaxFingers = 3
    Raw <- MCRaw
    MaxAttempts = 1
    MaxContacts = 3
    MaxSessions = 1
INVARIANT NoStuckFinger
CHECK_DEADLOCK FALSE
