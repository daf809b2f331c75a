SPECIFICATION FairSpec
CONSTANTS
    TimeMod = 64
    Interval = 2
    MaxLag = 1
    BootMs = 0
    GraceMs = 3
    TightMs = 4
    SweepMs = 3
    ReacquireCount = 2
    StaleMax = 2
    StaleCap = 4
    BIgnoreStart = 1
    BIgnoreEnd = 1
    FinishRoute = 2
    MaxRunMs = 10
    StepCap = 2
    Lines = {{}, {3, 4}, {6}}
    Steps = {0, 1, 2}
    ImuFitted = TRUE
    AgeCap = 8
    MaxRoute = 2
    Horizon = 16
INVARIANTS
    FullSpeedNeedsReacquire
    BothSidesSearched
    SilentGyroIsDropped
PROPERTIES
    RouteCountsHeldLine
    RefinesLap
    StopsForGood
