SPECIFICATION Spec
CONSTANTS
    Procs = {c1, c2}
    Ids = {a1, a2}
    People = {alice}
    Faults = {}
    MaxCommands = 4
INVARIANT ListedHasHome
CHECK_DEADLOCK FALSE
