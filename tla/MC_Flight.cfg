SPECIFICATION FairFlightSpec
CONSTANTS
    MAX_WAYPOINTS = 2
    UINT16 = 3
    Blank = 0
    Waypoints = {0, 2}
    NoDigest = NoDigest
    MaxId = 1
    MaxVer = 1
    OtherModes = {4}
    WornFields = {}
    CutsSaves = FALSE
    Far = 2
    Base = 0
    FirstHome = 2
    Landmarks = {0}
INVARIANTS
    RtlEndsMission
    ReturnIsTimed
PROPERTIES
    ComesHome
    MissionGoesOn
