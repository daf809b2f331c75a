------------------------------- MODULE SpeedLoop -------------------------------
(***************************************************************************)
(* The speed loop of one control period: the end of Run_Track limits and    *)
(* slews the wheel targets, PID_Get turns each target and its measured      *)
(* velocity into an output with a conditional integral, and the bridge      *)
(* takes it.  Run_Stop ends a run.                                          *)
(*                                                                          *)
(* The floats are integers over a common denominator Den; PID_KD is 0 and   *)
(* never written, so the D term and PID_LastError are left out.             *)
(***************************************************************************)
EXTENDS MotorDriver

CONSTANTS
    PID_KP, PID_KI, Feedforward,      \* coefficients * Den, Feedforward by wheel
    Den,
    PID_MAX_OUTPUT, PID_MIN_OUTPUT,   \* limits of the output * Den
    PID_ERROR_MAX, IntegralLimit,     \* IntegralLimit is PID_I_OUTPUT_MAX / PID_KI
    TRACK_MAX_SPEED, TRACK_MIN_SPEED, TRACK_TARGET_SLEW,
    Velocities, Targets               \* what is measured and wanted (bounds)

Sides == {"left", "right"}

ASSUME SpeedAssumption ==
    /\ PID_KP \in Nat /\ PID_KI \in Nat \ {0} /\ Feedforward \in [Sides -> Nat]
    /\ Den \in Nat \ {0}
    /\ PID_MAX_OUTPUT \in Nat /\ PID_MIN_OUTPUT \in 0 .. PID_MAX_OUTPUT
    /\ PID_MAX_OUTPUT \div Den <= MaxSpeed
    /\ PID_ERROR_MAX \in Nat /\ IntegralLimit \in Nat
    /\ TRACK_MIN_SPEED \in Nat \ {0} /\ TRACK_MAX_SPEED \in Nat
    /\ TRACK_MIN_SPEED <= TRACK_MAX_SPEED /\ TRACK_TARGET_SLEW \in Nat \ {0}
    /\ Velocities \subseteq Int /\ Targets \subseteq Int

\* A wheel can stand, and there is a lowest velocity the encoders can measure.
ASSUME VelocityAssumption ==
    0 \in Velocities /\ \E v \in Velocities : \A u \in Velocities : v <= u

VARIABLES
    Velocity_Target, PID_Integral, PID_Output,   \* by side
    \* History variables, read by the properties only.
    least, greatest     \* targets served since the integral was last cleared

speedVars == <<Velocity_Target, PID_Integral, PID_Output, least, greatest, bridge>>

Both(x) == [s \in Sides |-> x]

\* Data_Init and the first Run_Stop.
SpeedInit ==
    /\ Velocity_Target = Both(0)
    /\ PID_Integral = Both(0) /\ PID_Output = Both(0)
    /\ least = Both(TRACK_MAX_SPEED) /\ greatest = Both(0)
    /\ BridgeInit

--------------------------------------------------------------------------------
\* PID_Get.

Clip(x, low, high) == IF x > high THEN high ELSE IF x < low THEN low ELSE x

Base(s, t, error) ==
    Feedforward[s] * t + PID_KP * Clip(error, -PID_ERROR_MAX, PID_ERROR_MAX)

Candidate(i, error) == Clip(i + error, -IntegralLimit, IntegralLimit)

\* Fault: the integral is limited, but gathers at a saturated output.
IntegralUnconditional(s, t, i, error) == Candidate(i, error)

\* The integral is kept if the output it would give is beyond a limit and the
\* error drives it further.
IntegralAfter(s, t, i, error) ==
    LET candidate_output == Base(s, t, error) + PID_KI * Candidate(i, error)
        refused == \/ candidate_output > PID_MAX_OUTPUT /\ error > 0
                   \/ candidate_output < PID_MIN_OUTPUT /\ error < 0
    IN  IF refused THEN i ELSE Candidate(i, error)

\* Fault: only the lower limit is applied.
LimitLowOnly(x) == IF x < PID_MIN_OUTPUT THEN PID_MIN_OUTPUT ELSE x

LimitOutput(x) == Clip(x, PID_MIN_OUTPUT, PID_MAX_OUTPUT)

\* One wheel's integral and output for target t and measured velocity v.
PID_Get(s, t, v) ==
    IF t <= 0 THEN [integral |-> 0, output |-> 0]
    ELSE LET i == IntegralAfter(s, t, PID_Integral[s], t - v)
         IN  [integral |-> i, output |-> LimitOutput(Base(s, t, t - v) + PID_KI * i)]

--------------------------------------------------------------------------------

\* The end of Run_Track, and Track_Slew_Target.
NextTarget(raw, previous) ==
    Clip(Clip(raw, TRACK_MIN_SPEED, TRACK_MAX_SPEED),
         previous - TRACK_TARGET_SLEW, previous + TRACK_TARGET_SLEW)

\* The float output becomes a uint32_t PWM value.
Pwm(s) == PID_Output'[s] \div Den

\* A control period that drives the wheels.
Drive(raw, velocity) ==
    LET pid == [s \in Sides |-> PID_Get(s, Velocity_Target'[s], velocity[s])] IN
    /\ Velocity_Target' = [s \in Sides |-> NextTarget(raw[s], Velocity_Target[s])]
    /\ PID_Integral' = [s \in Sides |-> pid[s].integral]
    /\ PID_Output' = [s \in Sides |-> pid[s].output]
    /\ AO_Control(Forward, Pwm("left"))
    /\ BO_Control(Forward, Pwm("right"))
    /\ least' = [s \in Sides |->
                    IF Velocity_Target'[s] < least[s] THEN Velocity_Target'[s] ELSE least[s]]
    /\ greatest' = [s \in Sides |->
                    IF Velocity_Target'[s] > greatest[s] THEN Velocity_Target'[s] ELSE greatest[s]]

\* Fault: the targets are cleared, the integral is not.
Run_StopKeepsIntegral ==
    /\ Velocity_Target' = Both(0)
    /\ PID_Output' = Both(0)
    /\ AO_Control(Forward, 0) /\ BO_Control(Forward, 0)
    /\ least' = Both(TRACK_MAX_SPEED) /\ greatest' = Both(0)
    /\ UNCHANGED PID_Integral

\* Run_Stop with SpeedPI_Reset.
Run_Stop ==
    /\ Velocity_Target' = Both(0)
    /\ PID_Integral' = Both(0) /\ PID_Output' = Both(0)
    /\ AO_Control(Forward, 0) /\ BO_Control(Forward, 0)
    /\ least' = Both(TRACK_MAX_SPEED) /\ greatest' = Both(0)

SpeedNext ==
    \/ \E raw \in [Sides -> Targets], velocity \in [Sides -> Velocities] : Drive(raw, velocity)
    \/ Run_Stop

SpeedSpec == SpeedInit /\ [][SpeedNext]_speedVars

--------------------------------------------------------------------------------

OutputDrivesWheels ==
    /\ LeftPwm = PID_Output["left"] \div Den
    /\ RightPwm = PID_Output["right"] \div Den

\* The integral never winds up beyond what the limits of the output can use: by
\* feedforward and integral alone no target served since it was cleared is
\* driven past the limit, so that the first period in which the wheel is too fast
\* (too slow) takes the output back from the upper (lower) limit.
NoWindup ==
    \A s \in Sides :
        /\ PID_Integral[s] > 0 =>
              Feedforward[s] * least[s] + PID_KI * PID_Integral[s] <= PID_MAX_OUTPUT
        /\ PID_Integral[s] < 0 =>
              Feedforward[s] * greatest[s] + PID_KI * PID_Integral[s] >= PID_MIN_OUTPUT

Slowest == CHOOSE v \in Velocities : \A u \in Velocities : v <= u

\* A restart is as gentle as the first start, whatever the wheels did before the
\* stop: the first target is one step of the slew, and the output holds nothing
\* but its feedforward and one period's error.
StartsGently ==
    [][\A s \in Sides : Velocity_Target[s] = 0 /\ Velocity_Target'[s] # 0 =>
          /\ Velocity_Target'[s] <= TRACK_TARGET_SLEW
          /\ PID_Output'[s] <= LimitOutput(
                Base(s, TRACK_TARGET_SLEW, TRACK_TARGET_SLEW - Slowest)
                + PID_KI * Candidate(0, TRACK_TARGET_SLEW - Slowest))
      ]_speedVars

================================================================================
