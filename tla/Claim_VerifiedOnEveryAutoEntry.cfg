SPECIFICATION ClaimSpec
CONSTANTS
    MAX_WAYPOINTS = 2
    UINT16 = 3
    Blank = Blank
    Waypoints = {Blank, A}
    NoDigest = NoDigest
    MaxId = 1
    MaxVer = 1
    OtherModes = {}
    WornFields = {}
    CutsSaves = TRUE
PROPERTY VerifiedOnEveryAutoEntry
