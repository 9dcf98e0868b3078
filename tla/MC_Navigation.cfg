SPECIFICATION FairSpec
CONSTANTS
    LatSpan = 16
    LonSpan = 8
    AltSpan = 6
    Targets <- Corners
    INT32_MAX = 50
    MIN_STEP = 3
    position_step = 5
    altitude_step = 3
    altitude_threshold = 3
    MIN_RADIUS = 3
    MAX_RADIUS = 5
    START_RADIUS = 3
    PER_METRE = 1
    Radii = {1, 9}
    RATIO = 10
    OCTANT = 4
    CENTI = 2
    UINT16_MAX = 40
PROPERTIES
    ClosesIn
    SpeedLimit
    HeadingInQuadrant
    LegEnds
