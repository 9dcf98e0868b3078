SPECIFICATION FairLinkSpec
CONSTANTS
    MAX_WAYPOINTS = 3
    UINT16 = 5
    Blank = Blank
    A = A
    B = B
    Waypoints = {Blank, A, B}
    NoDigest = NoDigest
    MaxId = 1
    MaxVer = 3
    OtherModes = {}
    WornFields = {}
    CutsSaves = TRUE
    Plans <- ThreePlans
    AnswersChallenge = FALSE
    MaxRetries = 3
    MaxLosses = 2
    MaxOutages = 2
INVARIANTS
    LoadedIsAPlan
    AcknowledgedIsLoaded
    ReadBackIsPlan
PROPERTIES
    UploadArrives
    ReadBackArrives
