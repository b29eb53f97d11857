SPECIFICATION Spec
CONSTANTS
    zero = zero
    a = a
    Zero <- MCZero
    Val <- MCVal
    FieldOrder <- MCFieldOrder
    MaxUpdates = 2
    MaxSessions = 2
INVARIANTS TypeOK SnapshotIntact HudCurrent SyncPaired BlankAfterStop ConnectionOwned
PROPERTY LatestViewSpec
CHECK_DEADLOCK FALSE
