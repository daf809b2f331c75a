----------------------------- MODULE StableTargets -----------------------------
(***************************************************************************)
(* The wheel targets of Run_Track_Stable30: base speed and feedforward from *)
(* the route, feedback from the filtered error, the gyro's term, the speeds *)
(* of a recovery, then the limits of the wheels and the slew of the common  *)
(* and the differential part.                                               *)
(*                                                                          *)
(* Speeds are in tens of the code's, fractions are dropped.  The line may   *)
(* be anywhere in each period and the route at any of Routes: StableLap has *)
(* their histories.  A stale gyro's term is 0, as that of a gyro that reads *)
(* the rate it should.                                                      *)
(***************************************************************************)
EXTENDS Integers

CONSTANTS
    Errors, Derivatives,   \* the filtered error and its filtered derivative
    RateErrors,            \* turn rate measured less the one wanted, in degrees/s
    Routes                 \* route in mm

ASSUME TargetsAssumption ==
    /\ Errors \subseteq Int /\ Derivatives \subseteq Int /\ RateErrors \subseteq Int
    /\ Routes \subseteq Nat

VARIABLES
    common_target_last, correction_target_last,
    \* History variable, read by the properties only.
    asks    \* the side a line at the edge asks for, 0 if none or the gyro has a say

targetVars == <<common_target_last, correction_target_last, asks>>

TRACK_MIN_SPEED == 20
TRACK_MAX_SPEED == 400
TRACK_CORRECTION_MAX == 120
STABLE30_KP == 8
STABLE30_KD == 6
STABLE30_BASE_SPEED == 135
STABLE30_CURVE_BASE_SPEED == 110
STABLE30_CURVE_FEEDFORWARD == 17
STABLE30_CURVE_FEEDBACK_MAX == 10
STABLE30_STRAIGHT_FEEDBACK_MAX == 12
STABLE30_EDGE_START_ERROR == 10
STABLE30_EDGE_BASE_SPEED == 90
STABLE30_EDGE_FEEDBACK_MAX == 32
STABLE30_COMMON_SLEW_PER_TICK == 4
STABLE30_CORRECTION_SLEW_PER_TICK == 4
STABLE30_CURVE_TRANSITION_MM == 150
STABLE30_CURVE_STEER_LEAD_MM == 75
STABLE30_GYRO_K == 3
STABLE30_GYRO_MAX == 10
STABLE30_RECOVERY_COMMON_SPEED == 50
STABLE30_RECOVERY_CORRECTION == 30
STABLE30_RECOVERY_SLEW_PER_TICK == 6
STABLE30_RECOVERY_REACQUIRE_SPEED == 80
STABLE30_RECOVERY_GYRO_MAX == 8
STABLE30_FINISH_APPROACH_START_MM == 5520
STABLE30_FINISH_APPROACH_SPEED == 80
STABLE30_LAP_DISTANCE_MM == 6140

\* The error of a line at the outermost channel, written 25.0f in the code.
EdgeError == 25

Within(x, low, high) == IF x < low THEN low ELSE IF x > high THEN high ELSE x

Least(x, y) == IF x < y THEN x ELSE y

Greatest(x, y) == IF x > y THEN x ELSE y

\* n parts of `whole` of the way from one speed to another.
Between(from, to, n, whole) == from + ((to - from) * n) \div whole

Size(x) == Greatest(x, -x)

--------------------------------------------------------------------------------
\* What the route asks for.

\* In parts of STABLE30_CURVE_TRANSITION_MM.
Stable30_Curve_Ramp(travelled_mm, curve_start_mm, curve_end_mm, lead_mm) ==
    LET rise == travelled_mm - (curve_start_mm - lead_mm)
        fall == curve_end_mm + STABLE30_CURVE_TRANSITION_MM - travelled_mm
    IN  Within(Least(rise, fall), 0, STABLE30_CURVE_TRANSITION_MM)

Stable30_Curve_Amount(travelled_mm, lead_mm) ==
    Greatest(Stable30_Curve_Ramp(travelled_mm, 1500, 3071, lead_mm),
             Stable30_Curve_Ramp(travelled_mm, 4571, 6142, lead_mm))

Stable30_Approach_Base(base_speed, travelled_mm) ==
    LET whole == STABLE30_LAP_DISTANCE_MM - STABLE30_FINISH_APPROACH_START_MM
    IN  Between(base_speed, STABLE30_FINISH_APPROACH_SPEED,
                Within(travelled_mm - STABLE30_FINISH_APPROACH_START_MM, 0, whole), whole)

curve_feedforward(route) ==
    (STABLE30_CURVE_FEEDFORWARD * Stable30_Curve_Amount(route, STABLE30_CURVE_STEER_LEAD_MM))
        \div STABLE30_CURVE_TRANSITION_MM

--------------------------------------------------------------------------------
\* What the line asks for.

\* Fault: the feedforward stays when the line is on the other side.
EffectiveFeedforwardKept(feedforward, error) == feedforward

\* A feedforward that turns the car away from the line is taken back.
EffectiveFeedforward(feedforward, error) ==
    IF feedforward * error < 0
    THEN Between(0, feedforward, Greatest(0, EdgeError - Size(error)), EdgeError)
    ELSE feedforward

EdgeWidth == EdgeError - STABLE30_EDGE_START_ERROR

\* In parts of EdgeWidth.
EdgeAmount(error) == Within(Size(error) - STABLE30_EDGE_START_ERROR, 0, EdgeWidth)

\* Slower at the edge, in a recovery and in a curve.
SelectedBase(route, error, lost) ==
    LET base == Stable30_Approach_Base(STABLE30_BASE_SPEED, route)
        at_edge == IF base > STABLE30_EDGE_BASE_SPEED
                   THEN Between(base, STABLE30_EDGE_BASE_SPEED, EdgeAmount(error), EdgeWidth)
                   ELSE base
        recovering == IF lost THEN Least(at_edge, STABLE30_RECOVERY_REACQUIRE_SPEED) ELSE at_edge
    IN  IF recovering > STABLE30_CURVE_BASE_SPEED
        THEN Between(recovering, STABLE30_CURVE_BASE_SPEED,
                     Stable30_Curve_Amount(route, STABLE30_CURVE_TRANSITION_MM),
                     STABLE30_CURVE_TRANSITION_MM)
        ELSE recovering

\* STABLE30_EDGE_FEEDBACK_GAIN is 1.5: half as much again at the edge.
Feedback(error, derivative, feedforward) ==
    LET correction == (error * STABLE30_KP + derivative * STABLE30_KD) \div 10
        feedback_max == Between(IF feedforward # 0 THEN STABLE30_CURVE_FEEDBACK_MAX
                                ELSE STABLE30_STRAIGHT_FEEDBACK_MAX,
                                STABLE30_EDGE_FEEDBACK_MAX, EdgeAmount(error), EdgeWidth)
    IN  Within(correction + (correction * EdgeAmount(error)) \div (2 * EdgeWidth),
               -feedback_max, feedback_max)

Gyro_Correction(rate_error, limit) == Within((rate_error * STABLE30_GYRO_K) \div 10, -limit, limit)

LineCorrection(route, error, derivative, rate_error) ==
    LET feedforward == EffectiveFeedforward(curve_feedforward(route), error)
    IN  Within(Feedback(error, derivative, feedforward) + feedforward
                   + Gyro_Correction(rate_error, STABLE30_GYRO_MAX),
               -TRACK_CORRECTION_MAX, TRACK_CORRECTION_MAX)

RecoveryCorrection(search_direction, rate_error) ==
    search_direction * STABLE30_RECOVERY_CORRECTION
        + Gyro_Correction(rate_error, STABLE30_RECOVERY_GYRO_MAX)

--------------------------------------------------------------------------------
\* The end of Run_Track_Stable30.

Stable30_Slew_Target(target, previous, max_step) ==
    Within(target, previous - max_step, previous + max_step)

WheelLimit(target) == Within(target, TRACK_MIN_SPEED, TRACK_MAX_SPEED)

\* Limit the wheels, then let the two parts follow; `lost` as it is by then.
SetTargets(common, correction, lost) ==
    LET left == WheelLimit(common + correction)
        right == WheelLimit(common - correction)
    IN  /\ common_target_last' = Stable30_Slew_Target((left + right) \div 2,
               common_target_last, STABLE30_COMMON_SLEW_PER_TICK)
        /\ correction_target_last' = Stable30_Slew_Target((left - right) \div 2,
               correction_target_last,
               IF lost THEN STABLE30_RECOVERY_SLEW_PER_TICK
               ELSE STABLE30_CORRECTION_SLEW_PER_TICK)

Asks(error, derivative, rate_error) ==
    IF Size(error) < 15 \/ derivative # 0 \/ rate_error # 0 THEN 0
    ELSE IF error > 0 THEN 1 ELSE -1

\* What a line in sight can ask for, `lost` before the period and `still_lost` after.
LineTargets ==
    {[common |-> SelectedBase(route, error, phase[1]),
      correction |-> LineCorrection(route, error, derivative, rate_error),
      still_lost |-> phase[2], asks |-> Asks(error, derivative, rate_error)] :
        route \in Routes, error \in Errors, derivative \in Derivatives, rate_error \in RateErrors,
        phase \in {<<FALSE, FALSE>>, <<TRUE, TRUE>>, <<TRUE, FALSE>>}}

FollowTargets ==
    \E t \in LineTargets : SetTargets(t.common, t.correction, t.still_lost) /\ asks' = t.asks

\* The grace time of a loss.
HoldTargets ==
    /\ SetTargets(common_target_last, correction_target_last, TRUE)
    /\ asks' = 0

\* The search of a recovery, towards either side.
SearchTargets ==
    \E search_direction \in {-1, 1}, rate_error \in RateErrors :
        /\ SetTargets(STABLE30_RECOVERY_COMMON_SPEED,
                      RecoveryCorrection(search_direction, rate_error), TRUE)
        /\ asks' = 0

\* Stable30_Track_Reset.
TargetsInit == common_target_last = 0 /\ correction_target_last = 0 /\ asks = 0

TargetsNext == FollowTargets \/ HoldTargets \/ SearchTargets

TargetsSpec == TargetsInit /\ [][TargetsNext]_targetVars /\ WF_targetVars(TargetsNext)

--------------------------------------------------------------------------------

WheelsWithinLimits ==
    \A side \in {-1, 1} :
        common_target_last + side * correction_target_last \in TRACK_MIN_SPEED .. TRACK_MAX_SPEED

Steered(side) == side * correction_target_last > 0 /\ WheelsWithinLimits

\* Feedforward, limits and the separate slews may turn the car away from a line
\* at its edge, and even stop a wheel, but not for long: as long as the line stays
\* there and the gyro is content, the car comes to turn towards it, in a curve
\* that bends the other way too, with both wheels within their limits.
EdgeIsSteered ==
    /\ <>[](asks = -1) => <>[]Steered(-1)
    /\ <>[](asks = 1) => <>[]Steered(1)

================================================================================
