SPECIFICATION DriveSpec
CONSTANTS
    PID_KP = 200
    PID_KI = 51
    Den = 2
    PID_MAX_OUTPUT = 1600
    PID_MIN_OUTPUT = 440
    PID_ERROR_MAX = 1
    IntegralLimit = 4
    TRACK_MAX_SPEED = 4
    TRACK_MIN_SPEED = 1
    TRACK_TARGET_SLEW = 2
    Velocities = {0, 6}
    Targets = {0, 4}
    YAW_KP = 3
    YAW_KI = 1
    YAW_KD = 20
    YawDen = 20
    Integral_Max = 100
    Output_Max = 300
    ANGLE_PWM_MIN = 80
    ANGLE_PWM_MAX = 250
    YAW_OUTPUT_MAX = 150
    ANGLE_DEADBAND = 2
    Feedforward <- ModelFeedforward
    Yaws <- ModelYaws
    TargetYaws <- ModelTargetYaws
PROPERTY RestsWithinDeadband
