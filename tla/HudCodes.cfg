SPECIFICATION Spec
CONSTANTS
    Angles <- MCAngles
INVARIANTS
    LaneFaithful
    SameTurnSameGlyph
    NearestExit
CHECK_DEADLOCK FALSE
