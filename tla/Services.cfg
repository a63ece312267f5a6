SPECIFICATION ServicesSpec
CONSTANTS
    Tasks = {t1, t2, t3}
    Grace = 2
    Machines = {"file", "secret", "presence", "socket", "meddled", "account", "accounts", "credential", "transport", "rpc", "command", "history", "reaper", "config", "drain"}
    Absent = Absent
    Writers = {w1, w2}
    Values = {d1, d2}
    FileInodes = {1, 2, 3, 4, 5, 6}
    MaxWrites = 3
    MaxFailures = 1
    MaxEdits = 1
    p1 = p1
    p2 = p2
    GracePeriod = 2
    MaxTime = 6
    MaxId = 3
    Procs = {p1, p2}
    MaxInodes = 3
    MaxStarts = 4
    MaxCrashes = 1
    MaxAttempts = 2
    Clients = {p1, p2}
    Peers = {p1}
    MaxBytes = 2
    MaxDigits = 2
    Deadline = 1
    MaxSent = 5
    Origins = {"home", "sibling", "foreign"}
    Approved = {"home", "sibling"}
    Home = "home"
    Methods = {"GET", "POST"}
    MaxRedirects = 2
    MaxBody = 1
    RequestTimeout = 2
    MaxRetries = 2
    BaseDelay = 1
    MaxDelay = 2
    MaxRetryAfter = 3
    MaxRequests = 2
    MaxSkipped = 1
    MaxPipe = 2
    MaxStderr = 1
    MaxOutput = 2
    MaxWritten = 3
    RunTimeout = 2
    Jobs = {p1, p2}
    MaxSlots = 1
    Callers = {p1, p2}
    Times = {1, 2}
    Retention = 1
    Capacity = 1
    MaxRows = 2
    MaxFiles = 3
    Accounts1 = {a1, a2, a3}
    People1 = {alice, bob}
    Faults1 = {"login", "prepare", "rename", "sync", "archive", "crash"}
    Commands1 = 4
    Accounts2 = {a1, a2}
    People2 = {alice}
    Faults2 = {"login", "rename", "sync", "archive", "crash"}
    Commands2 = 3
    Commands = {p1, p2}
    MaxInstances = 2
    MaxConfigBytes = 3
    MaxCommands = 2
INVARIANTS EveryTaskCounted ServicesTypeOK StoredStateSurvives EndpointAndFallback
    WholeAnswersOnly RequestWithinPolicy NoOrphans
PROPERTIES ImplementsPrivateFile NoForbiddenStep
CHECK_DEADLOCK FALSE
