SPECIFICATION ServicesFairSpec
CONSTANTS
    Tasks = {t1, t2, t3}
    Grace = 2
    Machines = {"socket", "credential", "transport", "rpc", "command", "history", "reaper", "drain", "display"}
    Absent = Absent
    Writers = {w1, w2}
    Values = {d1, d2}
    FileInodes = {1, 2, 3, 4, 5, 6}
    MaxWrites = 3
    MaxFailures = 1
    MaxEdits = 1
    p1 = p1
    p2 = p2
    GracePeriod = 2
    MaxTime = 6
    MaxId = 3
    Procs = {p1, p2}
    MaxInodes = 3
    MaxStarts = 3
    MaxCrashes = 1
    MaxAttempts = 2
    Clients = {p1}
    Peers = {p1}
    MaxBytes = 1
    MaxDigits = 1
    Deadline = 2
    MaxSent = 3
    Origins = {"home", "sibling", "foreign"}
    Approved = {"home", "sibling"}
    Home = "home"
    Methods = {"GET", "POST"}
    MaxRedirects = 2
    MaxBody = 1
    RequestTimeout = 2
    MaxRetries = 1
    BaseDelay = 1
    MaxDelay = 2
    MaxRetryAfter = 3
    MaxRequests = 1
    MaxSkipped = 1
    MaxPipe = 1
    MaxStderr = 1
    MaxOutput = 1
    MaxWritten = 2
    RunTimeout = 1
    Jobs = {p1}
    MaxSlots = 1
    Callers = {p1}
    Times = {1}
    Retention = 1
    Capacity = 2
    MaxRows = 2
    MaxFiles = 2
    Accounts1 = {a1, a2, a3}
    People1 = {alice, bob}
    Faults1 = {"login", "prepare", "rename", "sync", "archive", "crash"}
    Commands1 = 4
    Accounts2 = {a1, a2}
    People2 = {alice}
    Faults2 = {"login", "rename", "sync", "archive", "crash"}
    Commands2 = 3
    Commands = {p1, p2}
    MaxInstances = 2
    MaxConfigBytes = 3
    MaxCommands = 2
PROPERTIES OperationsReturn DisplayConverges
CHECK_DEADLOCK FALSE
