SPECIFICATION ControlSpec
CONSTANTS
    Previous <- ModelPrevious
    Errors <- ModelErrors
    Derivatives = {0, 10}
    RateErrors <- ModelRateErrors
    Routes = {0, 1500, 2000, 5830}
    Channel = {c1, c2}
    CountMax = 8
    OnCount = 6
    OffCount = 2
    c1 = c1
    c2 = c2
INVARIANTS
    ComputesResolve
    LeftRightAlike
    SteadySignalIsReported
PROPERTIES
    EdgeIsSteered
    NoChatter
CHECK_DEADLOCK FALSE
