SPECIFICATION Spec
CONSTANTS
    TimeMod = 32
    Interval = 2
    MaxLag = 1
    BootMs = 0
    GraceMs = 2
    LostStopMs = 4
    SearchStart = 1
    AfterLine = 1
    Fallback = 2
    StepCap = 2
    ConfirmSamples = 2
    MaxRunMs = 6
    Steps = {0, 1}
    MaxRoute = 3
    Horizon = 11
INVARIANT
    FallbackStopIsFinal
