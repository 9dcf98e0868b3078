SPECIFICATION FlightSpec
CONSTANTS
    MAX_WAYPOINTS = 1
    UINT16 = 2
    Blank = 0
    Waypoints = {0, 2}
    NoDigest = NoDigest
    MaxId = 1
    MaxVer = 1
    OtherModes = {4}
    WornFields = {"signature", "count", "waypoints", "hash"}
    CutsSaves = TRUE
    Far = 2
    Base = 0
    FirstHome = 2
    Landmarks = {}
INVARIANT
    TypeOK
PROPERTIES
    StoreSpec
    DurableSpec
