SPECIFICATION LinkSpec
CONSTANTS
    Actions = {253, 255}
    Moves = {253}
    Broadcasts = {255}
    Reads = {54}
    Signed = {54}
    ReplyLen <- MCReplyLen
    Addr = 1
    Check = 107
    StatusBytes = {2, 226}
    Reported <- MCReported
    ReportsDone = FALSE
    FifoDepth = 1
    MaxFrames = 2
    Addrs = {0}
    Rpms = {0}
    Accs = {0}
    DirArgs = {0}
    SyncArgs = {0}
    ModeArgs = {0}
    HomeArgs = {0}
    Pulses = {0}
    SignedPulses <- ModelSignedPulses
    Angles = {0}
    Words = {0}
    Magnitudes = {0}
    FlagBytes = {0}
    TiltTargets <- ModelTargets
    MaxTilts = 3
    MinTurn = 200
INVARIANT OkMeansArrived
