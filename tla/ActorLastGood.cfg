SPECIFICATION Spec
CONSTANTS
    s1 = s1
    s2 = s2
    s3 = s3
    Scopes = {s1}
    UnknownScopes = {s3}
    HistoryScopes = {}
    Rank <- RankOne
    MinInterval <- FloorOne
    NormalCadence = 3
    PopupCadence = 2
    ResetGrace = 1
    ResetMinDelay = 1
    MaxTimestamp = 9
    Boundaries = {2}
    MaxTime = 4
    MaxSteps = 0
    MaxInFlight = 1
    CommandCapacity = 1
    RateLimitBase = 2
    TransientBase = 1
    BackoffCap = 3
    ErrorKinds = {"RateLimited", "AuthenticationExpired"}
    RetryAfters = {0}
    SampleTimes = {1, 3}
    Triggers = {"Manual"}
    MaxCommands = 2
PROPERTIES
    FailureKeepsLastGood
CHECK_DEADLOCK TRUE
