SPECIFICATION FairSpec
CONSTANTS
    Scopes = {s1}
    NormalCadence = 3
    PopupCadence = 2
    ResetGrace = 1
    ResetMinDelay = 1
    MaxTimestamp = 7
    Boundaries = {2, 4, 7}
    MaxTime = 8
    MaxSteps = 1
INVARIANTS
    SchedulerTypeOK
    ArmedNotYetFired
PROPERTIES
    FiresInOrder
    NoEarlyResetRefresh
    ArmedDeadlineIsFixed
    NoCatchUpBurst
    ArmedResetIsTaken
CHECK_DEADLOCK TRUE
