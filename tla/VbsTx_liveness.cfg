SPECIFICATION FairSpec
CONSTANTS
    zero = zero
    a = a
    Zero <- MCZero
    Val <- MCVal
    FieldOrder <- MCFieldOrder
    MaxUpdates = 2
    MaxSessions = 1
PROPERTIES StopReturnsUnlessAsleep WakeDelivers
CHECK_DEADLOCK FALSE
