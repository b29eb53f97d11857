SPECIFICATION FairSpec
CONSTANTS
    zero = zero
    a = a
    Zero <- MCZero
    Val <- MCVal
    FieldOrder <- MCFieldOrder
    MaxUpdates = 1
    MaxSessions = 1
PROPERTY StopReturns
CHECK_DEADLOCK FALSE
