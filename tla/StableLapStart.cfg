SPECIFICATION Spec
CONSTANTS
    TimeMod = 64
    Interval = 2
    MaxLag = 1
    BootMs = 0
    GraceMs = 3
    TightMs = 6
    SweepMs = 4
    ReacquireCount = 2
    StaleMax = 1
    StaleCap = 3
    BIgnoreStart = 1
    BIgnoreEnd = 1
    FinishRoute = 3
    MaxRunMs = 16
    StepCap = 2
    Lines = {{3, 4}}
    Steps = {0, 1, 2}
    ImuFitted = FALSE
    AgeCap = 0
    MaxRoute = 4
    Horizon = 20
INVARIANT LineHeldIsNotLost
