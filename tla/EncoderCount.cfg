SPECIFICATION EncoderSpec
CONSTANTS
    MmNum = 2
    MmDen = 3
    StepCap = 3
    MaxMoves = 6
INVARIANTS
    CountErrorBounded
    EveryPulseMeasuredOnce
    RouteLosesNothing
