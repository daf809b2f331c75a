SPECIFICATION Spec
CONSTANTS
    TimeMod = 16
    Interval = 3
    MaxLag = 2
    BootMs = 4
    DisplayInterval = 7
INVARIANTS
    WrapExact
    ModeRunsEveryPeriod
    ControlOnTime
