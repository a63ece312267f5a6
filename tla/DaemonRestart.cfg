SPECIFICATION DaemonSpec
CONSTANTS
    s1 = s1
    Scopes = {s1}
    UnknownScopes = {}
    HistoryScopes = {s1}
    Rank <- RankOne
    MinInterval <- FloorOne
    Startup <- StartupOne
    NormalCadence = 5
    PopupCadence = 2
    ResetGrace = 1
    ResetMinDelay = 1
    MaxTimestamp = 9
    Boundaries = {}
    MaxTime = 3
    MaxSteps = 0
    MaxInFlight = 1
    CommandCapacity = 2
    RateLimitBase = 2
    TransientBase = 1
    BackoffCap = 3
    ErrorKinds = {"RateLimited"}
    RetryAfters = {0, 3}
    SampleTimes = {1}
    Triggers = {"Manual"}
    MaxCommands = 1
    MaxRestarts = 1
INVARIANTS
    NoRetainedActivity
PROPERTIES
    RetryAfterSurvivesRestart
    FreshOnlyByFetch
CHECK_DEADLOCK TRUE
