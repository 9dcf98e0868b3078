SPECIFICATION FairLinkSpec
CONSTANTS
    MAX_WAYPOINTS = 3
    UINT16 = 5
    Blank = Blank
    A = A
    B = B
    Waypoints = {Blank, A, B}
    NoDigest = NoDigest
    MaxId = 1
    MaxVer = 3
    OtherModes = {}
    WornFields = {}
    CutsSaves = TRUE
    Plans <- ThreePlans
    AnswersChallenge = TRUE
    MaxRetries = 0
    MaxLosses = 0
    MaxOutages = 0
INVARIANT
    AcknowledgedIsLoaded
CHECK_DEADLOCK FALSE
