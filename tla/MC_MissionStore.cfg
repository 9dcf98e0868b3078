SPECIFICATION Spec
CONSTANTS
    MAX_WAYPOINTS = 2
    UINT16 = 3
    Blank = Blank
    Waypoints = {Blank, A}
    NoDigest = NoDigest
    MaxId = 1
    MaxVer = 2
    OtherModes = {}
    WornFields = {"waypoints"}
    CutsSaves = TRUE
INVARIANTS
    LoadedIsStored
    UploadGrounded
    ActiveIsLoaded
PROPERTIES
    StartsVerified
    VersionNeverRegresses
    DurableSpec
