SPECIFICATION FairSpec
CONSTANTS
    empty = empty
    left = left
    right = right
    none = none
    fifty = fifty
    blank = blank
    main = main
    Sentinel = sentinel
    NoSpeed = none
    NoStreet = blank
    Blocks <- MCBlocks
    EmptyBlocks <- MCEmptyBlocks
    Speeds <- MCSpeeds
    Streets <- MCStreets
    Timeout = 1
    MaxSets = 1
    MaxCrashes = 1
INVARIANTS TypeOK SteadyGuidance SteadySpeed NativeWhenIdle
PROPERTY HandedBack
