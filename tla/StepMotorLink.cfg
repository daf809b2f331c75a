SPECIFICATION PartsSpec
CONSTANTS
    Actions = {253, 255}
    Moves = {253}
    Broadcasts = {255}
    Reads = {49}
    Signed = {}
    ReplyLen <- MCReplyLen
    Addr = 1
    Check = 107
    StatusBytes = {2, 226}
    Reported <- MCReported
    ReportsDone = TRUE
    FifoDepth = 1
    MaxFrames = 3
    Addrs = {0, 1, 2}
    Rpms = {0, 500, 3000, 3001}
    Accs = {0, 50}
    DirArgs = {0, 1, 2}
    SyncArgs = {0, 1, 2}
    ModeArgs = {0, 1, 2, 3}
    HomeArgs = {0, 5, 6}
    Pulses = {0, 1, 70000, 16909060}
    SignedPulses <- ModelSignedPulses
    Angles = {0, 1, 5, 900, 3600}
    Words = {0, 255, 256, 65535}
    Magnitudes = {0, 1, 34, 70000, 16909060}
    FlagBytes = {0, 1, 2, 4, 8, 16, 32, 64, 128, 255}
    TiltTargets <- ModelTargets
    MaxTilts = 3
    MinTurn = 200
INVARIANTS
    OnlyValuesMislead
    QuietCallIsAnswered
    SameMeaning
PROPERTIES
    RefinesRequests
    TiltErrorIsDrift
    CallsReturn
