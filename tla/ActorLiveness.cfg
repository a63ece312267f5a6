SPECIFICATION FairSpec
CONSTANTS
    s1 = s1
    s2 = s2
    s3 = s3
    Scopes = {s1, s2}
    UnknownScopes = {}
    HistoryScopes = {}
    Rank <- RankTwo
    MinInterval <- FloorTwo
    NormalCadence = 5
    PopupCadence = 2
    ResetGrace = 1
    ResetMinDelay = 1
    MaxTimestamp = 9
    Boundaries = {}
    MaxTime = 2
    MaxSteps = 0
    MaxInFlight = 1
    CommandCapacity = 1
    RateLimitBase = 2
    TransientBase = 1
    BackoffCap = 3
    ErrorKinds = {"Network"}
    RetryAfters = {0}
    SampleTimes = {1}
    Triggers = {"Manual"}
    MaxCommands = 3
PROPERTIES
    RefreshConcludes
CHECK_DEADLOCK TRUE
