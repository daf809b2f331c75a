------------------------------- MODULE AngleHold -------------------------------
(***************************************************************************)
(* The angle hold of Run_AngleHold and YAW_PID.c: both wheels turn the car  *)
(* on the spot, in opposite directions, until the IMU's yaw is near the     *)
(* target.  The car and whoever pushes it (external) may turn the yaw to    *)
(* any reading between two periods.                                         *)
(*                                                                          *)
(* Angles are whole degrees; the floats of the controller are integers over *)
(* the denominator YawDen.  System_Init enables the controller and nothing  *)
(* disables it.                                                             *)
(***************************************************************************)
EXTENDS MotorDriver

CONSTANTS
    YAW_KP, YAW_KI, YAW_KD,           \* coefficients * YawDen
    YawDen,
    Integral_Max, Output_Max,         \* Output_Max is not scaled
    ANGLE_PWM_MIN, ANGLE_PWM_MAX, YAW_OUTPUT_MAX,
    ANGLE_DEADBAND,                   \* of the output, not scaled
    Yaws, TargetYaws                  \* readings and targets (bounds)

ASSUME AngleAssumption ==
    /\ YAW_KP \in Nat /\ YAW_KI \in Nat \ {0} /\ YAW_KD \in Nat /\ YawDen \in Nat \ {0}
    /\ Integral_Max \in Nat /\ Output_Max \in Nat \ {0}
    /\ ANGLE_PWM_MIN \in Nat \ {0} /\ ANGLE_PWM_MAX \in ANGLE_PWM_MIN .. MaxSpeed
    /\ YAW_OUTPUT_MAX \in Nat \ {0} /\ ANGLE_DEADBAND \in Nat \ {0}
    /\ Yaws \subseteq -180 .. 180 /\ TargetYaws \subseteq -180 .. 180

VARIABLES
    Yaw_Target, Yaw, Error, LastError, Integral, Output,   \* Yaw_Circle
    Last_Direction,     \* the static of Run_AngleHold: the last output
    period              \* parity of the control periods: a history variable that
                        \* tells a period from a step of nothing

angleVars == <<Yaw_Target, Yaw, Error, LastError, Integral, Output,
               Last_Direction, period, bridge>>

\* YawPID_Init, YawPID_SetTarget and YawPID_Enable of System_Init.
AngleInit ==
    /\ Yaw_Target = 0 /\ Yaw = 0 /\ Error = 0 /\ LastError = 0
    /\ Integral = 0 /\ Output = 0
    /\ Last_Direction = 0 /\ period = 0
    /\ BridgeInit

--------------------------------------------------------------------------------

\* Fault: the way through +-180 degrees is not taken.
AngleErrorLinear(target, current) == current - target

\* The error on the shorter way: positive when the car must turn right.
YawPID_AngleError(target, current) ==
    LET error == current - target IN
    IF error > 180 THEN error - 360 ELSE IF error < -180 THEN error + 360 ELSE error

Limited(x, limit) == IF x > limit THEN limit ELSE IF x < -limit THEN -limit ELSE x

\* Step 3 of YawPID_Compute, by the saturation of the last output.
IntegralWith(error) ==
    LET held == \/ Output >= Output_Max * YawDen /\ error > 0
                \/ Output <= -Output_Max * YawDen /\ error < 0
    IN  Limited(IF held THEN Integral ELSE Integral + error, Integral_Max)

\* Steps 4 and 5.
OutputWith(integral, error) ==
    Limited(YAW_KP * error + YAW_KI * integral + YAW_KD * (error - LastError),
            Output_Max * YawDen)

Magnitude(x) == IF x > 0 THEN x ELSE -x

\* Fault: the integral is also cleared while the car stands in the deadband.
ClearsIntegralAtRest(output) ==
    \/ Last_Direction > 0 /\ output < 0
    \/ Last_Direction < 0 /\ output > 0
    \/ Magnitude(output) < ANGLE_DEADBAND * YawDen

\* The output crossed zero.
ClearsIntegral(output) ==
    \/ Last_Direction > 0 /\ output < 0
    \/ Last_Direction < 0 /\ output > 0

\* The float PWM value, cut off, and its limit.
AnglePwm(output) ==
    LET pwm == ANGLE_PWM_MIN + (Magnitude(output) * (ANGLE_PWM_MAX - ANGLE_PWM_MIN))
                                    \div (YAW_OUTPUT_MAX * YawDen)
    IN  IF pwm > ANGLE_PWM_MAX THEN ANGLE_PWM_MAX ELSE pwm

\* Turn the wheels as the output demands, or stop them in its deadband.
Steer(output) ==
    IF Magnitude(output) < ANGLE_DEADBAND * YawDen
    THEN AO_Control(Forward, 0) /\ BO_Control(Forward, 0)
    ELSE IF output > 0
    THEN AO_Control(Forward, AnglePwm(output)) /\ BO_Control(Rewerse, AnglePwm(output))
    ELSE AO_Control(Rewerse, AnglePwm(output)) /\ BO_Control(Forward, AnglePwm(output))

\* One control period with the yaw the IMU gives.
Run_AngleHold(target, yaw) ==
    LET error == YawPID_AngleError(target, yaw)
        integral == IntegralWith(error)
        output == OutputWith(integral, error)
    IN  /\ Yaw_Target' = target
        /\ Yaw' = yaw
        /\ Error' = error
        /\ Integral' = IF ClearsIntegral(output) THEN 0 ELSE integral
        /\ Output' = output
        /\ LastError' = error
        /\ Last_Direction' = output
        /\ Steer(output)
        /\ period' = 1 - period

AngleNext == \E target \in TargetYaws, yaw \in Yaws : Run_AngleHold(target, yaw)

AngleSpec == AngleInit /\ [][AngleNext]_angleVars

--------------------------------------------------------------------------------

\* The shorter of the two arcs between two angles.
Arc(a, b) ==
    LET one == (a - b) % 360 IN IF one <= 180 THEN one ELSE 360 - one

Turning == AO.pwm # 0 \/ BO.pwm # 0

\* While the error stands still and the integral does not pull the other way, the
\* car turns the shorter way, through +-180 degrees where that is shorter: one
\* degree of its turn brings it nearer to the target.
TurnsShorterWay ==
    [][Turning' /\ Error' = Error /\ Error' * Integral >= 0 /\ Error' \notin {-180, 0, 180} =>
          LET turned == IF LeftPwm' > 0 THEN Yaw' - 1 ELSE Yaw' + 1
          IN  Arc(turned, Yaw_Target') < Arc(Yaw', Yaw_Target')
      ]_angleVars

OutputTurnsCar ==
    /\ LeftPwm = -RightPwm
    /\ IF Magnitude(Output) < ANGLE_DEADBAND * YawDen THEN LeftPwm = 0
       ELSE /\ Magnitude(LeftPwm) \in ANGLE_PWM_MIN .. ANGLE_PWM_MAX
            /\ LeftPwm > 0 <=> Output > 0

\* An error beyond the deadband that stays is corrected: from some period on the car
\* turns the way the error demands, whatever the integral and the last output held
\* before.  A small one needs the integral, which takes the output out of the deadband
\* and which only the zero crossing of the output clears.
\* (A reading that jitters is another matter: each time the D term takes the output
\* through zero the integral starts again.)
ErrorIsCorrected ==
    <>[][Error' = Error]_Error /\ <>[](Magnitude(Error) > ANGLE_DEADBAND) =>
        <>[](Turning /\ (LeftPwm > 0 <=> Error > 0))

================================================================================
