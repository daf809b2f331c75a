SPECIFICATION FairSpec
CONSTANTS
    TimeMod = 32
    Interval = 2
    MaxLag = 1
    BootMs = 0
    GraceMs = 2
    LostStopMs = 5
    SearchStart = 2
    AfterLine = 2
    Fallback = 4
    StepCap = 3
    ConfirmSamples = 2
    MaxRunMs = 9
    Steps = {0, 1, 2, 3}
    MaxRoute = 6
    Horizon = 13
INVARIANTS
    BlindCarStops
    OvershootBounded
    SearchesWhereLineWent
PROPERTIES
    LatchIsConfirmed
    RefinesLap
    StopsForGood
