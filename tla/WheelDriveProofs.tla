---------------------------- MODULE WheelDriveProofs ---------------------------
(***************************************************************************)
(* Proofs about the speed loop, the angle hold and the bridge, for all     *)
(* coefficients, limits, targets and readings.                             *)
(***************************************************************************)
EXTENDS WheelDrive, TLAPS

SpeedTypes ==
    /\ Velocity_Target \in [Sides -> 0 .. TRACK_MAX_SPEED]
    /\ PID_Integral \in [Sides -> -IntegralLimit .. IntegralLimit]
    /\ PID_Output \in [Sides -> 0 .. PID_MAX_OUTPUT]
    /\ least \in [Sides -> 0 .. TRACK_MAX_SPEED]
    /\ greatest \in [Sides -> 0 .. TRACK_MAX_SPEED]

\* What NoWindup says of one wheel.
HighBounded(s, low, i) == i > 0 => Feedforward[s] * low + PID_KI * i <= PID_MAX_OUTPUT
LowBounded(s, high, i) == i < 0 => Feedforward[s] * high + PID_KI * i >= PID_MIN_OUTPUT

WindupBounded ==
    \A s \in Sides : /\ HighBounded(s, least[s], PID_Integral[s])
                     /\ LowBounded(s, greatest[s], PID_Integral[s])

--------------------------------------------------------------------------------
\* Lemmas about the operators of PID_Get.

LEMMA ClipRange ==
    ASSUME NEW x \in Int, NEW low \in Int, NEW high \in Int, low <= high
    PROVE  Clip(x, low, high) \in low .. high
BY DEF Clip

LEMMA ProductGrows ==
    ASSUME NEW a \in Nat, NEW b \in Int, NEW c \in Int, b <= c
    PROVE  a * b <= a * c
OBVIOUS

LEMMA ProductPositive ==
    ASSUME NEW a \in Nat \ {0}, NEW b \in Nat \ {0}
    PROVE  0 < a * b
<1>1. a * 1 <= a * b
    BY ProductGrows
<1> QED
    BY <1>1

LEMMA SumOfOpposites ==
    ASSUME NEW x \in Int, NEW y \in Int, x + y = 0
    PROVE  x = -y
OBVIOUS

LEMMA QuotientGrows ==
    ASSUME NEW a \in Nat, NEW b \in Nat, NEW d \in Nat \ {0}, a <= b
    PROVE  a \div d \in Nat /\ a \div d <= b \div d
OBVIOUS

LEMMA CandidateRange ==
    ASSUME NEW i \in -IntegralLimit .. IntegralLimit, NEW error \in Int
    PROVE  /\ Candidate(i, error) \in -IntegralLimit .. IntegralLimit
           /\ error <= 0 => Candidate(i, error) <= i
           /\ error >= 0 => Candidate(i, error) >= i
BY SpeedAssumption DEF Candidate, Clip

\* The integral that PID_Get keeps winds up in neither direction.
LEMMA IntegralBounded ==
    ASSUME NEW s \in Sides, NEW t \in 0 .. TRACK_MAX_SPEED, NEW error \in Int,
           NEW i \in -IntegralLimit .. IntegralLimit,
           NEW low \in 0 .. TRACK_MAX_SPEED, NEW high \in 0 .. TRACK_MAX_SPEED,
           NEW newLow \in 0 .. TRACK_MAX_SPEED, NEW newHigh \in 0 .. TRACK_MAX_SPEED,
           newLow <= low, newLow <= t, newHigh >= high, newHigh >= t,
           HighBounded(s, low, i), LowBounded(s, high, i)
    PROVE  /\ IntegralAfter(s, t, i, error) \in -IntegralLimit .. IntegralLimit
           /\ HighBounded(s, newLow, IntegralAfter(s, t, i, error))
           /\ LowBounded(s, newHigh, IntegralAfter(s, t, i, error))
<1> DEFINE c == Candidate(i, error)
           b == Base(s, t, error)
           p == PID_KP * Clip(error, -PID_ERROR_MAX, PID_ERROR_MAX)
           after == IntegralAfter(s, t, i, error)
<1>0. /\ Feedforward[s] \in Nat /\ PID_KI \in Nat /\ PID_KP \in Nat
      /\ PID_MAX_OUTPUT \in Nat /\ PID_MIN_OUTPUT \in Int /\ IntegralLimit \in Nat
      /\ TRACK_MAX_SPEED \in Nat /\ PID_ERROR_MAX \in Nat
    BY SpeedAssumption
<1>1. /\ c \in -IntegralLimit .. IntegralLimit
      /\ error <= 0 => c <= i
      /\ error >= 0 => c >= i
    BY CandidateRange
<1>2. /\ p \in Int /\ b = Feedforward[s] * t + p
      /\ error > 0 => p >= 0
      /\ error < 0 => p <= 0
    <2>1. /\ Clip(error, -PID_ERROR_MAX, PID_ERROR_MAX) \in Int
          /\ error > 0 => Clip(error, -PID_ERROR_MAX, PID_ERROR_MAX) >= 0
          /\ error < 0 => Clip(error, -PID_ERROR_MAX, PID_ERROR_MAX) <= 0
        BY <1>0 DEF Clip
    <2> QED
        BY <2>1, <1>0 DEF Base
<1>3. /\ Feedforward[s] * newLow <= Feedforward[s] * low
      /\ Feedforward[s] * newLow <= Feedforward[s] * t
      /\ Feedforward[s] * high <= Feedforward[s] * newHigh
      /\ Feedforward[s] * t <= Feedforward[s] * newHigh
    BY <1>0, ProductGrows
<1>4. \/ after = i
      \/ after = c /\ (error > 0 => b + PID_KI * c <= PID_MAX_OUTPUT)
                   /\ (error < 0 => b + PID_KI * c >= PID_MIN_OUTPUT)
    <2>1. b \in Int /\ PID_KI * c \in Int
        BY <1>0, <1>1, <1>2
    <2> QED
        BY <2>1, <1>0 DEF IntegralAfter
<1>5. PID_KI * c \in Int /\ PID_KI * i \in Int /\ (c <= i => PID_KI * c <= PID_KI * i)
                         /\ (c >= i => PID_KI * c >= PID_KI * i)
    BY <1>0, <1>1, ProductGrows
<1>6. /\ Feedforward[s] * newLow \in Int /\ Feedforward[s] * low \in Int
      /\ Feedforward[s] * high \in Int /\ Feedforward[s] * newHigh \in Int
      /\ Feedforward[s] * t \in Int
    BY <1>0
<1>7. /\ i > 0 => Feedforward[s] * low + PID_KI * i <= PID_MAX_OUTPUT
      /\ i < 0 => Feedforward[s] * high + PID_KI * i >= PID_MIN_OUTPUT
    BY DEF HighBounded, LowBounded
<1>8. after \in -IntegralLimit .. IntegralLimit
    BY <1>1, <1>4
<1> HIDE DEF c, b, p, after
<1>9. HighBounded(s, newLow, after)
    <2> SUFFICES ASSUME after > 0
                 PROVE  Feedforward[s] * newLow + PID_KI * after <= PID_MAX_OUTPUT
        BY DEF HighBounded
    <2>1. CASE after = i
        BY <1>0, <1>3, <1>5, <1>6, <1>7, <2>1
    <2>2. CASE after = c /\ after # i /\ error > 0
        <3>1. b + PID_KI * c <= PID_MAX_OUTPUT /\ p >= 0
            BY <1>2, <1>4, <2>2
        <3> QED
            BY <1>0, <1>2, <1>3, <1>5, <1>6, <2>2, <3>1
    <2>3. CASE after = c /\ error <= 0
        <3>1. c <= i /\ i > 0 /\ PID_KI * c <= PID_KI * i
            BY <1>0, <1>1, <1>5, <2>3
        <3>2. Feedforward[s] * low + PID_KI * i <= PID_MAX_OUTPUT
            BY <1>7, <3>1
        <3> QED
            BY <1>0, <1>3, <1>5, <1>6, <2>3, <3>1, <3>2
    <2>4. error > 0 \/ error <= 0
        OBVIOUS
    <2> QED
        BY <1>4, <2>1, <2>2, <2>3, <2>4
<1>10. LowBounded(s, newHigh, after)
    <2> SUFFICES ASSUME after < 0
                 PROVE  Feedforward[s] * newHigh + PID_KI * after >= PID_MIN_OUTPUT
        BY DEF LowBounded
    <2>1. CASE after = i
        BY <1>0, <1>3, <1>5, <1>6, <1>7, <2>1
    <2>2. CASE after = c /\ after # i /\ error < 0
        <3>1. b + PID_KI * c >= PID_MIN_OUTPUT /\ p <= 0
            BY <1>2, <1>4, <2>2
        <3> QED
            BY <1>0, <1>2, <1>3, <1>5, <1>6, <2>2, <3>1
    <2>3. CASE after = c /\ error >= 0
        <3>1. c >= i /\ i < 0 /\ PID_KI * i <= PID_KI * c
            BY <1>0, <1>1, <1>5, <2>3
        <3>2. Feedforward[s] * high + PID_KI * i >= PID_MIN_OUTPUT
            BY <1>7, <3>1
        <3> QED
            BY <1>0, <1>3, <1>5, <1>6, <2>3, <3>1, <3>2
    <2>4. error < 0 \/ error >= 0
        OBVIOUS
    <2> QED
        BY <1>4, <2>1, <2>2, <2>3, <2>4
<1> QED
    BY <1>8, <1>9, <1>10 DEF after

--------------------------------------------------------------------------------
\* The speed loop.

LEMMA NextTargetRange ==
    ASSUME NEW raw \in Int, NEW previous \in 0 .. TRACK_MAX_SPEED
    PROVE  NextTarget(raw, previous) \in 0 .. TRACK_MAX_SPEED
<1>0. /\ TRACK_MIN_SPEED \in Nat /\ TRACK_MAX_SPEED \in Nat /\ TRACK_TARGET_SLEW \in Nat
      /\ TRACK_MIN_SPEED <= TRACK_MAX_SPEED
    BY SpeedAssumption
<1>1. Clip(raw, TRACK_MIN_SPEED, TRACK_MAX_SPEED) \in 0 .. TRACK_MAX_SPEED
    BY <1>0 DEF Clip
<1>2. \A x \in 0 .. TRACK_MAX_SPEED :
        Clip(x, previous - TRACK_TARGET_SLEW, previous + TRACK_TARGET_SLEW)
            \in 0 .. TRACK_MAX_SPEED
    BY <1>0 DEF Clip
<1> QED
    BY <1>1, <1>2 DEF NextTarget

LEMMA OutputRange ==
    ASSUME NEW x \in Int PROVE LimitOutput(x) \in 0 .. PID_MAX_OUTPUT
BY SpeedAssumption DEF LimitOutput, Clip

\* The bridge takes every PWM value an output of PID_Get can become.
LEMMA PwmTaken ==
    ASSUME NEW x \in 0 .. PID_MAX_OUTPUT
    PROVE  x \div Den \in Nat /\ ~Refused(Forward, x \div Den)
<1>1. PID_MAX_OUTPUT \in Nat /\ Den \in Nat \ {0} /\ PID_MAX_OUTPUT \div Den <= MaxSpeed
    BY SpeedAssumption
<1>2. x \div Den \in Nat /\ x \div Den <= PID_MAX_OUTPUT \div Den
    BY <1>1, QuotientGrows
<1>3. PID_MAX_OUTPUT \div Den \in Int
    BY <1>1
<1> QED
    BY <1>1, <1>2, <1>3 DEF Refused, Forward, MaxSpeed

LEMMA ForwardPwm ==
    ASSUME NEW l \in Nat, NEW r \in Nat, ~Refused(Forward, l), ~Refused(Forward, r),
           AO_Control(Forward, l), BO_Control(Forward, r)
    PROVE  LeftPwm' = l /\ RightPwm' = r
BY DEF AO_Control, BO_Control, LeftPwm, RightPwm, Forward

LEMMA DriveStep ==
    ASSUME SpeedTypes, WindupBounded,
           NEW raw \in [Sides -> Targets], NEW velocity \in [Sides -> Velocities],
           Drive(raw, velocity)
    PROVE  SpeedTypes' /\ WindupBounded' /\ OutputDrivesWheels'
<1>0. TRACK_MAX_SPEED \in Nat /\ IntegralLimit \in Nat /\ PID_MAX_OUTPUT \in Nat
    BY SpeedAssumption
<1>1. Velocity_Target' \in [Sides -> 0 .. TRACK_MAX_SPEED]
    <2> SUFFICES ASSUME NEW s \in Sides
                 PROVE  NextTarget(raw[s], Velocity_Target[s]) \in 0 .. TRACK_MAX_SPEED
        BY DEF Drive
    <2>1. raw[s] \in Int /\ Velocity_Target[s] \in 0 .. TRACK_MAX_SPEED
        BY SpeedAssumption DEF SpeedTypes
    <2> QED
        BY <2>1, NextTargetRange
<1>2. least' \in [Sides -> 0 .. TRACK_MAX_SPEED] /\ greatest' \in [Sides -> 0 .. TRACK_MAX_SPEED]
    BY <1>1 DEF Drive, SpeedTypes
<1>3. ASSUME NEW s \in Sides
      PROVE  /\ PID_Integral'[s] \in -IntegralLimit .. IntegralLimit
             /\ PID_Output'[s] \in 0 .. PID_MAX_OUTPUT
             /\ HighBounded(s, least'[s], PID_Integral'[s])
             /\ LowBounded(s, greatest'[s], PID_Integral'[s])
    <2> DEFINE t == Velocity_Target'[s]
               v == velocity[s]
               after == IntegralAfter(s, t, PID_Integral[s], t - v)
    <2>1. t \in 0 .. TRACK_MAX_SPEED /\ v \in Int /\ t - v \in Int
        <3>1. t \in 0 .. TRACK_MAX_SPEED
            BY <1>1
        <3>2. velocity[s] \in Int
            BY SpeedAssumption
        <3> QED
            BY <1>0, <3>1, <3>2
    <2>2. PID_Integral'[s] = PID_Get(s, t, v).integral /\ PID_Output'[s] = PID_Get(s, t, v).output
        BY DEF Drive
    <2>3. CASE t <= 0
        <3>1. PID_Integral'[s] = 0 /\ PID_Output'[s] = 0
            BY <2>2, <2>3 DEF PID_Get
        <3> QED
            BY <1>0, <3>1 DEF HighBounded, LowBounded
    <2>4. CASE ~(t <= 0)
        <3>1. /\ PID_Integral'[s] = after
              /\ PID_Output'[s] = LimitOutput(Base(s, t, t - v) + PID_KI * after)
            BY <2>2, <2>4 DEF PID_Get
        <3>2. /\ least[s] \in 0 .. TRACK_MAX_SPEED /\ greatest[s] \in 0 .. TRACK_MAX_SPEED
              /\ PID_Integral[s] \in -IntegralLimit .. IntegralLimit
            BY DEF SpeedTypes
        <3>3. /\ least'[s] = IF t < least[s] THEN t ELSE least[s]
              /\ greatest'[s] = IF t > greatest[s] THEN t ELSE greatest[s]
            BY DEF Drive
        <3>4. /\ least'[s] \in 0 .. TRACK_MAX_SPEED /\ greatest'[s] \in 0 .. TRACK_MAX_SPEED
              /\ least'[s] <= least[s] /\ least'[s] <= t
              /\ greatest'[s] >= greatest[s] /\ greatest'[s] >= t
            BY <1>0, <2>1, <3>2, <3>3
        <3>5. HighBounded(s, least[s], PID_Integral[s]) /\ LowBounded(s, greatest[s], PID_Integral[s])
            BY DEF WindupBounded
        <3>6. /\ after \in -IntegralLimit .. IntegralLimit
              /\ HighBounded(s, least'[s], after)
              /\ LowBounded(s, greatest'[s], after)
            BY <2>1, <3>2, <3>4, <3>5, IntegralBounded
        <3>7. Base(s, t, t - v) + PID_KI * after \in Int
            <4>1. Clip(t - v, -PID_ERROR_MAX, PID_ERROR_MAX) \in Int
                BY <2>1, SpeedAssumption DEF Clip
            <4> QED
                BY <1>0, <2>1, <3>6, <4>1, SpeedAssumption DEF Base
        <3> QED
            BY <3>1, <3>6, <3>7, OutputRange
    <2> QED
        BY <2>3, <2>4
<1>4. /\ PID_Integral' = [s \in Sides |-> PID_Integral'[s]]
      /\ PID_Output' = [s \in Sides |-> PID_Output'[s]]
    BY DEF Drive
<1>5. SpeedTypes' /\ WindupBounded'
    BY <1>1, <1>2, <1>3, <1>4 DEF SpeedTypes, WindupBounded
<1>6. OutputDrivesWheels'
    <2>1. /\ PID_Output'["left"] \div Den \in Nat /\ ~Refused(Forward, PID_Output'["left"] \div Den)
          /\ PID_Output'["right"] \div Den \in Nat /\ ~Refused(Forward, PID_Output'["right"] \div Den)
        BY <1>3, PwmTaken DEF Sides
    <2> QED
        BY <2>1, ForwardPwm DEF Drive, Pwm, OutputDrivesWheels
<1> QED
    BY <1>5, <1>6

LEMMA StopStep ==
    ASSUME Run_Stop PROVE SpeedTypes' /\ WindupBounded' /\ OutputDrivesWheels'
<1>0. /\ TRACK_MAX_SPEED \in Nat /\ IntegralLimit \in Nat /\ PID_MAX_OUTPUT \in Nat
      /\ Den \in Nat \ {0}
    BY SpeedAssumption
<1>1. SpeedTypes'
    BY <1>0 DEF Run_Stop, Both, SpeedTypes
<1>2. WindupBounded'
    BY DEF Run_Stop, Both, WindupBounded, HighBounded, LowBounded
<1>3. LeftPwm' = 0 /\ RightPwm' = 0
    BY ForwardPwm DEF Run_Stop, Refused, Forward, MaxSpeed
<1>4. 0 \div Den = 0
    BY <1>0
<1>5. PID_Output'["left"] = 0 /\ PID_Output'["right"] = 0
    BY DEF Run_Stop, Both, Sides
<1> QED
    BY <1>1, <1>2, <1>3, <1>4, <1>5 DEF OutputDrivesWheels

--------------------------------------------------------------------------------
\* The angle hold.

LEMMA AngleStep ==
    ASSUME Output \in Int, Error \in Int, LastError \in Int, Integral \in Int,
           NEW target \in TargetYaws, NEW yaw \in Yaws, Run_AngleHold(target, yaw)
    PROVE  /\ Output' \in Int /\ Error' \in Int /\ LastError' \in Int /\ Integral' \in Int
           /\ OutputTurnsCar'
<1>0. /\ YAW_KP \in Nat /\ YAW_KI \in Nat /\ YAW_KD \in Nat /\ YawDen \in Nat \ {0}
      /\ Integral_Max \in Nat /\ Output_Max \in Nat \ {0}
      /\ ANGLE_PWM_MIN \in Nat \ {0} /\ ANGLE_PWM_MAX \in ANGLE_PWM_MIN .. MaxSpeed
      /\ YAW_OUTPUT_MAX \in Nat \ {0} /\ ANGLE_DEADBAND \in Nat \ {0}
      /\ target \in Int /\ yaw \in Int
    BY AngleAssumption
<1> DEFINE error == YawPID_AngleError(target, yaw)
           integral == IntegralWith(error)
           output == OutputWith(integral, error)
<1>1. \A x \in Int, limit \in Nat : Limited(x, limit) \in Int
    BY DEF Limited
<1>2. error \in Int
    BY <1>0 DEF YawPID_AngleError
<1>3. integral \in Int
    <2>1. Integral + error \in Int /\ Integral_Max \in Nat
        BY <1>0, <1>2
    <2> QED
        BY <1>1, <2>1 DEF IntegralWith
<1>4. output \in Int
    <2>1. YAW_KP * error + YAW_KI * integral + YAW_KD * (error - LastError) \in Int
        BY <1>0, <1>2, <1>3
    <2>2. Output_Max * YawDen \in Nat
        BY <1>0
    <2> QED
        BY <1>1, <2>1, <2>2 DEF OutputWith
<1>5. Output' \in Int /\ Error' \in Int /\ LastError' \in Int
    BY <1>2, <1>4 DEF Run_AngleHold
<1>6. Integral' \in Int
    BY <1>3 DEF Run_AngleHold
<1> HIDE DEF error, integral, output
<1>7. Output' = output /\ Steer(output)
    BY DEF Run_AngleHold, error, integral, output
<1>8. /\ Magnitude(output) \in Nat
      /\ ANGLE_DEADBAND * YawDen \in Nat \ {0}
    BY <1>0, <1>4 DEF Magnitude
<1>9. AnglePwm(output) \in ANGLE_PWM_MIN .. ANGLE_PWM_MAX
    <2> DEFINE extra == (Magnitude(output) * (ANGLE_PWM_MAX - ANGLE_PWM_MIN))
                            \div (YAW_OUTPUT_MAX * YawDen)
    <2>1. Magnitude(output) * (ANGLE_PWM_MAX - ANGLE_PWM_MIN) \in Nat
        BY <1>0, <1>8 DEF MaxSpeed
    <2>2. YAW_OUTPUT_MAX * YawDen \in Nat \ {0}
        BY <1>0
    <2>3. \A a \in Nat, d \in Nat \ {0} : a \div d \in Nat
        BY QuotientGrows
    <2>4. extra \in Nat
        BY <2>1, <2>2, <2>3
    <2> HIDE DEF extra
    <2>5. AnglePwm(output) = IF ANGLE_PWM_MIN + extra > ANGLE_PWM_MAX
                             THEN ANGLE_PWM_MAX ELSE ANGLE_PWM_MIN + extra
        BY DEF AnglePwm, extra
    <2> QED
        BY <1>0, <2>4, <2>5 DEF MaxSpeed
<1>10. /\ AnglePwm(output) \in Nat \ {0}
       /\ ~Refused(Forward, AnglePwm(output)) /\ ~Refused(Rewerse, AnglePwm(output))
    BY <1>0, <1>9 DEF Refused, Forward, Rewerse, MaxSpeed
<1> SUFFICES /\ LeftPwm' = -(RightPwm')
             /\ Magnitude(output) < ANGLE_DEADBAND * YawDen => LeftPwm' = 0
             /\ ~(Magnitude(output) < ANGLE_DEADBAND * YawDen) =>
                   /\ Magnitude(LeftPwm') \in ANGLE_PWM_MIN .. ANGLE_PWM_MAX
                   /\ LeftPwm' > 0 <=> output > 0
    BY <1>4, <1>5, <1>6, <1>7 DEF OutputTurnsCar, Magnitude
<1>11. CASE Magnitude(output) < ANGLE_DEADBAND * YawDen
    <2>1. LeftPwm' = 0 /\ RightPwm' = 0
        BY <1>7, <1>11, ForwardPwm DEF Steer, Refused, Forward, MaxSpeed
    <2>2. LeftPwm' \in Int /\ RightPwm' \in Int /\ LeftPwm' + RightPwm' = 0
        BY <2>1
    <2>3. LeftPwm' = -(RightPwm')
        BY <2>2, SumOfOpposites
    <2>4. LeftPwm' = 0
        BY <2>1
    <2> QED
        BY <1>11, <2>3, <2>4
<1>12. CASE ~(Magnitude(output) < ANGLE_DEADBAND * YawDen) /\ output > 0
    <2>1. LeftPwm' = AnglePwm(output) /\ RightPwm' = -AnglePwm(output)
        BY <1>7, <1>10, <1>12
        DEF Steer, AO_Control, BO_Control, LeftPwm, RightPwm, Forward, Rewerse
    <2>2. Magnitude(AnglePwm(output)) = AnglePwm(output)
        BY <1>10 DEF Magnitude
    <2> QED
        BY <1>9, <1>10, <1>12, <2>1, <2>2
<1>13. CASE ~(Magnitude(output) < ANGLE_DEADBAND * YawDen) /\ ~(output > 0)
    <2>1. LeftPwm' = -AnglePwm(output) /\ RightPwm' = AnglePwm(output)
        BY <1>7, <1>10, <1>13
        DEF Steer, AO_Control, BO_Control, LeftPwm, RightPwm, Forward, Rewerse
    <2>2. Magnitude(-AnglePwm(output)) = AnglePwm(output)
        BY <1>10 DEF Magnitude
    <2> QED
        BY <1>4, <1>9, <1>10, <1>13, <2>1, <2>2
<1> QED
    BY <1>11, <1>12, <1>13

--------------------------------------------------------------------------------
\* The two behind the bridge.

AngleTypes == Output \in Int /\ Error \in Int /\ LastError \in Int /\ Integral \in Int

DriveInv ==
    /\ Mode \in {"Track", "AngleHold"}
    /\ SpeedTypes /\ WindupBounded /\ AngleTypes
    /\ NoCommandRefused

LEMMA DriveInvInit == DriveInit => DriveInv
<1> SUFFICES ASSUME DriveInit PROVE DriveInv
    OBVIOUS
<1>0. /\ TRACK_MAX_SPEED \in Nat /\ IntegralLimit \in Nat /\ PID_MAX_OUTPUT \in Nat
      /\ Den \in Nat \ {0} /\ ANGLE_DEADBAND \in Nat \ {0} /\ YawDen \in Nat \ {0}
    BY SpeedAssumption, AngleAssumption
<1>1. SpeedTypes
    BY <1>0 DEF DriveInit, SpeedInit, Both, SpeedTypes
<1>2. WindupBounded
    BY DEF DriveInit, SpeedInit, Both, WindupBounded, HighBounded, LowBounded
<1>3. AngleTypes
    BY DEF DriveInit, AngleInit, AngleTypes
<1>4. LeftPwm = 0 /\ RightPwm = 0
    BY DEF DriveInit, SpeedInit, BridgeInit, LeftPwm, RightPwm
<1>5. OutputDrivesWheels
    <2>1. 0 \div Den = 0
        BY <1>0
    <2>2. PID_Output["left"] = 0 /\ PID_Output["right"] = 0
        BY DEF DriveInit, SpeedInit, Both, Sides
    <2> QED
        BY <1>4, <2>1, <2>2 DEF OutputDrivesWheels
<1>6. OutputTurnsCar
    <2>1. Magnitude(Output) = 0
        <3>1. \A x \in Int : x <= 0 /\ x >= 0 => Magnitude(x) = 0
            BY DEF Magnitude
        <3>2. Output \in Int /\ Output <= 0 /\ Output >= 0
            BY DEF DriveInit, AngleInit
        <3> QED
            BY <3>1, <3>2
    <2>2. 0 < ANGLE_DEADBAND * YawDen
        BY <1>0, ProductPositive
    <2>3. LeftPwm \in Int /\ RightPwm \in Int /\ LeftPwm + RightPwm = 0
        BY <1>4
    <2>4. LeftPwm = -RightPwm
        BY <2>3, SumOfOpposites
    <2>5. Magnitude(Output) < ANGLE_DEADBAND * YawDen
        BY <2>1, <2>2
    <2>6. LeftPwm = 0
        BY <1>4
    <2> QED
        BY <2>4, <2>5, <2>6 DEF OutputTurnsCar
<1> QED
    BY <1>1, <1>2, <1>3, <1>5, <1>6 DEF DriveInv, NoCommandRefused, DriveInit

LEMMA SpeedPeriodStep == DriveInv /\ SpeedPeriod => DriveInv'
<1> SUFFICES ASSUME DriveInv, SpeedPeriod PROVE DriveInv'
    OBVIOUS
<1>1. Mode' = Mode /\ Mode = "Track" /\ AngleTypes'
    BY DEF SpeedPeriod, angleOnly, DriveInv, AngleTypes
<1>2. SpeedTypes' /\ WindupBounded' /\ OutputDrivesWheels'
    <2>1. CASE Run_Stop
        BY <2>1, StopStep
    <2>2. ASSUME NEW raw \in [Sides -> Targets], NEW velocity \in [Sides -> Velocities],
                 Drive(raw, velocity)
          PROVE  SpeedTypes' /\ WindupBounded' /\ OutputDrivesWheels'
        BY <2>2, DriveStep DEF DriveInv
    <2> QED
        BY <2>1, <2>2 DEF SpeedPeriod, SpeedNext
<1> QED
    BY <1>1, <1>2 DEF DriveInv, NoCommandRefused

LEMMA AnglePeriodStep == DriveInv /\ AnglePeriod => DriveInv'
<1> SUFFICES ASSUME DriveInv, AnglePeriod PROVE DriveInv'
    OBVIOUS
<1>1. Mode' = Mode /\ Mode = "AngleHold"
    BY DEF AnglePeriod
<1>2. SpeedTypes' /\ WindupBounded'
    BY DEF AnglePeriod, speedOnly, DriveInv, SpeedTypes, WindupBounded
<1>3. AngleTypes' /\ OutputTurnsCar'
    BY AngleStep DEF AnglePeriod, AngleNext, DriveInv, AngleTypes
<1> QED
    BY <1>1, <1>2, <1>3 DEF DriveInv, NoCommandRefused

LEMMA DriveStutter == DriveInv /\ UNCHANGED driveVars => DriveInv'
<1> SUFFICES ASSUME DriveInv, UNCHANGED driveVars PROVE DriveInv'
    OBVIOUS
<1>1. Mode' = Mode /\ SpeedTypes' /\ WindupBounded' /\ AngleTypes'
    BY DEF DriveInv, driveVars, speedVars, angleVars, SpeedTypes, WindupBounded, AngleTypes
<1>2. OutputDrivesWheels' <=> OutputDrivesWheels
    BY DEF driveVars, speedVars, bridge, OutputDrivesWheels, LeftPwm, RightPwm
<1>3. OutputTurnsCar' <=> OutputTurnsCar
    BY DEF driveVars, angleVars, bridge, OutputTurnsCar, LeftPwm, RightPwm
<1> QED
    BY <1>1, <1>2, <1>3 DEF DriveInv, NoCommandRefused

LEMMA DriveInvStep == DriveInv /\ [DriveNext]_driveVars => DriveInv'
BY SpeedPeriodStep, AnglePeriodStep, DriveStutter DEF DriveNext

LEMMA DriveInvAlways == DriveSpec => []DriveInv
BY DriveInvInit, DriveInvStep, PTL DEF DriveSpec

\* The bridge refuses no value that the speed loop or the angle hold commands: the
\* wheels always turn as their last output says, for all coefficients whose limits
\* the bridge can take.
THEOREM NothingRefused == DriveSpec => []NoCommandRefused
<1>1. DriveInv => NoCommandRefused
    BY DEF DriveInv
<1> QED
    BY <1>1, DriveInvAlways, PTL

\* The integral of the speed loop never winds up: by feedforward and integral alone no
\* target served since it was cleared is driven beyond a limit of the output, for all
\* coefficients, limits, slews, targets and velocities.
THEOREM IntegralNeverWindsUp == DriveSpec => []NoWindup
<1>1. DriveInv => NoWindup
    BY DEF DriveInv, WindupBounded, HighBounded, LowBounded, NoWindup
<1> QED
    BY <1>1, DriveInvAlways, PTL

--------------------------------------------------------------------------------
\* A gentle start.

LEMMA SpeedFacts ==
    /\ \A s \in Sides : Feedforward[s] \in Nat
    /\ PID_KI \in Nat /\ PID_KP \in Nat
    /\ PID_MAX_OUTPUT \in Nat /\ PID_MIN_OUTPUT \in Int /\ PID_MIN_OUTPUT <= PID_MAX_OUTPUT
    /\ IntegralLimit \in Nat /\ PID_ERROR_MAX \in Nat
    /\ TRACK_MIN_SPEED \in Nat /\ TRACK_MAX_SPEED \in Nat /\ TRACK_TARGET_SLEW \in Nat
    /\ Velocities \subseteq Int /\ Targets \subseteq Int
BY SpeedAssumption

\* The limits keep the order.
LEMMA ErrorClipGrows ==
    ASSUME NEW x \in Int, NEW y \in Int, x <= y
    PROVE  /\ Clip(x, -PID_ERROR_MAX, PID_ERROR_MAX) \in Int
           /\ Clip(y, -PID_ERROR_MAX, PID_ERROR_MAX) \in Int
           /\ Clip(x, -PID_ERROR_MAX, PID_ERROR_MAX) <= Clip(y, -PID_ERROR_MAX, PID_ERROR_MAX)
BY SpeedFacts DEF Clip

LEMMA LimitGrows ==
    ASSUME NEW x \in Int, NEW y \in Int, x <= y
    PROVE  LimitOutput(x) <= LimitOutput(y)
BY SpeedFacts DEF LimitOutput, Clip

LEMMA SlowestFact ==
    /\ Slowest \in Int /\ Slowest <= 0
    /\ \A v \in Velocities : Slowest <= v
<1>1. PICK v \in Velocities : \A u \in Velocities : v <= u
    BY VelocityAssumption
<1>2. Slowest \in Velocities /\ \A u \in Velocities : Slowest <= u
    BY <1>1 DEF Slowest
<1> QED
    BY <1>2, VelocityAssumption, SpeedAssumption

\* From rest and with no integral, the output for any target within one step of the
\* slew is at most the output for a whole step and the slowest wheel.
LEMMA GentleOutput ==
    ASSUME NEW s \in Sides, NEW t \in Nat, t <= TRACK_TARGET_SLEW,
           NEW v \in Velocities
    PROVE  LimitOutput(Base(s, t, t - v) + PID_KI * IntegralAfter(s, t, 0, t - v))
              <= LimitOutput(
                    Base(s, TRACK_TARGET_SLEW, TRACK_TARGET_SLEW - Slowest)
                    + PID_KI * Candidate(0, TRACK_TARGET_SLEW - Slowest))
<1> DEFINE e == t - v
           most == TRACK_TARGET_SLEW - Slowest
           i == IntegralAfter(s, t, 0, e)
           c == Candidate(0, most)
           p == Clip(e, -PID_ERROR_MAX, PID_ERROR_MAX)
           q == Clip(most, -PID_ERROR_MAX, PID_ERROR_MAX)
<1>1. e \in Int /\ most \in Int /\ e <= most /\ most >= 0
    BY SpeedFacts, SlowestFact
<1>2. p \in Int /\ q \in Int /\ p <= q
    BY <1>1, ErrorClipGrows
<1>3. /\ Candidate(0, e) \in Int /\ c \in Int
      /\ Candidate(0, e) <= c /\ 0 <= c
    BY <1>1, SpeedFacts DEF Candidate, Clip
<1>4. i \in Int /\ i <= c
    BY <1>3 DEF IntegralAfter
<1> HIDE DEF e, most, i, c, p, q
<1>5. /\ Feedforward[s] * t <= Feedforward[s] * TRACK_TARGET_SLEW
      /\ PID_KP * p <= PID_KP * q
      /\ PID_KI * i <= PID_KI * c
    BY <1>2, <1>3, <1>4, SpeedFacts, ProductGrows
<1>6. /\ Feedforward[s] * t \in Int /\ Feedforward[s] * TRACK_TARGET_SLEW \in Int
      /\ PID_KP * p \in Int /\ PID_KP * q \in Int
      /\ PID_KI * i \in Int /\ PID_KI * c \in Int
    BY <1>2, <1>3, <1>4, SpeedFacts
<1>7. /\ Feedforward[s] * t + PID_KP * p + PID_KI * i \in Int
      /\ Feedforward[s] * TRACK_TARGET_SLEW + PID_KP * q + PID_KI * c \in Int
      /\ Feedforward[s] * t + PID_KP * p + PID_KI * i
            <= Feedforward[s] * TRACK_TARGET_SLEW + PID_KP * q + PID_KI * c
    BY <1>5, <1>6
<1>8. LimitOutput(Feedforward[s] * t + PID_KP * p + PID_KI * i)
         <= LimitOutput(Feedforward[s] * TRACK_TARGET_SLEW + PID_KP * q + PID_KI * c)
    BY <1>7, LimitGrows
<1> QED
    BY <1>8 DEF Base, e, most, i, c, p, q

LEMMA FirstTarget ==
    ASSUME NEW raw \in Int
    PROVE  NextTarget(raw, 0) \in Int /\ NextTarget(raw, 0) <= TRACK_TARGET_SLEW
<1>1. Clip(raw, TRACK_MIN_SPEED, TRACK_MAX_SPEED) \in Int
    BY SpeedFacts DEF Clip
<1> QED
    BY <1>1, SpeedFacts DEF NextTarget, Clip

LEMMA RestDrive ==
    ASSUME SpeedTypes, NEW s \in Sides,
           Velocity_Target[s] = 0, PID_Integral[s] = 0,
           NEW raw \in [Sides -> Targets], NEW velocity \in [Sides -> Velocities],
           Drive(raw, velocity), Velocity_Target'[s] \in Nat, Velocity_Target'[s] # 0
    PROVE  /\ Velocity_Target'[s] <= TRACK_TARGET_SLEW
           /\ PID_Output'[s] <= LimitOutput(
                 Base(s, TRACK_TARGET_SLEW, TRACK_TARGET_SLEW - Slowest)
                 + PID_KI * Candidate(0, TRACK_TARGET_SLEW - Slowest))
<1> DEFINE t == Velocity_Target'[s]
           v == velocity[s]
<1>1. t <= TRACK_TARGET_SLEW
    <2>1. raw[s] \in Int
        BY SpeedFacts
    <2>2. t = NextTarget(raw[s], 0)
        BY DEF Drive
    <2> QED
        BY <2>1, <2>2, FirstTarget
<1>2. PID_Output'[s] = PID_Get(s, t, v).output
    BY DEF Drive
<1>3. PID_Get(s, t, v).output
         = LimitOutput(Base(s, t, t - v) + PID_KI * IntegralAfter(s, t, 0, t - v))
    BY DEF PID_Get
<1>4. v \in Velocities
    OBVIOUS
<1> QED
    BY <1>1, <1>2, <1>3, <1>4, GentleOutput

\* A wheel whose target is 0 has no integral left.
RestHasNoIntegral ==
    \A s \in Sides : Velocity_Target[s] = 0 => PID_Integral[s] = 0

LEMMA RestInductive == DriveSpec => []RestHasNoIntegral
<1>1. DriveInit => RestHasNoIntegral
    BY DEF DriveInit, SpeedInit, Both, RestHasNoIntegral
<1>2. DriveInv /\ RestHasNoIntegral /\ [DriveNext]_driveVars => RestHasNoIntegral'
    <2> SUFFICES ASSUME DriveInv, RestHasNoIntegral, [DriveNext]_driveVars
                 PROVE  RestHasNoIntegral'
        OBVIOUS
    <2>1. CASE Run_Stop
        BY <2>1 DEF Run_Stop, Both, RestHasNoIntegral
    <2>2. ASSUME NEW raw \in [Sides -> Targets], NEW velocity \in [Sides -> Velocities],
                 Drive(raw, velocity), NEW s \in Sides, Velocity_Target'[s] = 0
          PROVE  PID_Integral'[s] = 0
        <3>1. PID_Get(s, 0, velocity[s]).integral = 0
            BY DEF PID_Get
        <3> QED
            BY <2>2, <3>1 DEF Drive
    <2>3. CASE UNCHANGED <<Velocity_Target, PID_Integral>>
        BY <2>3 DEF RestHasNoIntegral
    <2>4. CASE SpeedPeriod
        <3>1. CASE \E raw \in [Sides -> Targets], velocity \in [Sides -> Velocities] :
                      Drive(raw, velocity)
            BY <2>2, <3>1 DEF RestHasNoIntegral
        <3> QED
            BY <2>1, <2>4, <3>1 DEF SpeedPeriod, SpeedNext
    <2> QED
        BY <2>3, <2>4 DEF DriveNext, AnglePeriod, speedOnly, driveVars, speedVars
<1> QED
    BY <1>1, <1>2, DriveInvAlways, PTL DEF DriveSpec

\* A restart is as gentle as the first start, for all coefficients, limits and
\* velocities: Run_Stop and PID_Get leave no integral at a wheel whose target is 0,
\* and the slew allows one step of the target (empty.c, Run_Stop and Run_Track).
THEOREM StartIsGentle == DriveSpec => StartsGently
<1> DEFINE Gentle(s) ==
        Velocity_Target[s] = 0 /\ Velocity_Target'[s] # 0 =>
          /\ Velocity_Target'[s] <= TRACK_TARGET_SLEW
          /\ PID_Output'[s] <= LimitOutput(
                Base(s, TRACK_TARGET_SLEW, TRACK_TARGET_SLEW - Slowest)
                + PID_KI * Candidate(0, TRACK_TARGET_SLEW - Slowest))
<1>1. DriveInv /\ DriveInv' /\ RestHasNoIntegral /\ [DriveNext]_driveVars =>
        [\A s \in Sides : Gentle(s)]_speedVars
    <2> SUFFICES ASSUME DriveInv, DriveInv', RestHasNoIntegral, [DriveNext]_driveVars,
                        NEW s \in Sides, Velocity_Target[s] = 0, Velocity_Target'[s] # 0
                 PROVE  Gentle(s)
        OBVIOUS
    <2>1. SpeedTypes /\ PID_Integral[s] = 0 /\ Velocity_Target'[s] \in Nat
        BY SpeedFacts DEF DriveInv, SpeedTypes, RestHasNoIntegral
    <2>2. SpeedNext
        BY DEF DriveNext, SpeedPeriod, AnglePeriod, speedOnly, driveVars, speedVars
    <2>3. ~Run_Stop
        BY DEF Run_Stop, Both
    <2>4. PICK raw \in [Sides -> Targets], velocity \in [Sides -> Velocities] :
             Drive(raw, velocity)
        BY <2>2, <2>3 DEF SpeedNext
    <2> QED
        BY <2>1, <2>4, RestDrive
<1> QED
    BY <1>1, DriveInvAlways, RestInductive, PTL DEF DriveSpec, StartsGently

--------------------------------------------------------------------------------
\* The shorter way.

LEMMA AngleFacts ==
    /\ YAW_KP \in Nat /\ YAW_KI \in Nat /\ YAW_KD \in Nat /\ YawDen \in Nat \ {0}
    /\ Integral_Max \in Nat /\ Output_Max \in Nat
    /\ ANGLE_DEADBAND \in Nat \ {0}
    /\ Yaws \subseteq -180 .. 180 /\ TargetYaws \subseteq -180 .. 180
BY AngleAssumption

LEMMA LimitedKeepsSign ==
    ASSUME NEW x \in Int, NEW limit \in Nat
    PROVE  /\ Limited(x, limit) \in Int
           /\ x >= 0 => Limited(x, limit) >= 0
           /\ x <= 0 => Limited(x, limit) <= 0
BY DEF Limited

\* Two angles are e apart, up to full turns.
Apart(a, b, e) == a - b = e \/ a - b = e + 360 \/ a - b = e - 360

\* The error is the difference of the angles, taken the shorter way round.
LEMMA AngleErrorFact ==
    ASSUME NEW target \in -180 .. 180, NEW yaw \in -180 .. 180
    PROVE  /\ YawPID_AngleError(target, yaw) \in Int
           /\ -180 <= YawPID_AngleError(target, yaw)
           /\ YawPID_AngleError(target, yaw) <= 180
           /\ Apart(yaw, target, YawPID_AngleError(target, yaw))
BY DEF YawPID_AngleError, Apart

LEMMA FullTurns ==
    ASSUME NEW r \in 0 .. 359
    PROVE  /\ r % 360 = r
           /\ (r + 360) % 360 = r
           /\ (r - 360) % 360 = r
           /\ (r - 720) % 360 = r
OBVIOUS

LEMMA ArcFact ==
    ASSUME NEW a \in Int, NEW b \in Int, NEW e \in Int, -180 <= e, e <= 180,
           Apart(a, b, e)
    PROVE  Arc(a, b) = Magnitude(e)
<1>1. CASE e >= 0
    <2>1. (a - b) % 360 = e
        BY <1>1, FullTurns DEF Apart
    <2> QED
        BY <1>1, <2>1 DEF Arc, Magnitude
<1>2. CASE e < 0
    <2> DEFINE r == e + 360
    <2>1. r \in 0 .. 359
        BY <1>2
    <2>2. a - b = r \/ a - b = r - 360 \/ a - b = r - 720
        BY DEF Apart
    <2>3. (a - b) % 360 = r
        <3> HIDE DEF r
        <3> QED
            BY <2>1, <2>2, FullTurns
    <2> QED
        BY <1>2, <2>1, <2>3 DEF Arc, Magnitude
<1> QED
    BY <1>1, <1>2

\* One degree towards the target shortens the way.
LEMMA NearerFact ==
    ASSUME NEW yaw \in Int, NEW target \in Int, NEW e \in Int, -180 <= e, e <= 180,
           Apart(yaw, target, e)
    PROVE  /\ e > 0 => Arc(yaw - 1, target) < Arc(yaw, target)
           /\ e < 0 => Arc(yaw + 1, target) < Arc(yaw, target)
<1>1. Arc(yaw, target) = Magnitude(e)
    BY ArcFact
<1>2. CASE e > 0
    <2> DEFINE y == yaw - 1
               d == e - 1
    <2>1. y \in Int /\ d \in Int /\ -180 <= d /\ d <= 180 /\ Apart(y, target, d)
        BY <1>2 DEF Apart
    <2> HIDE DEF y, d
    <2>2. Arc(y, target) = Magnitude(d)
        BY <2>1, ArcFact
    <2> QED
        BY <1>1, <1>2, <2>2 DEF Magnitude, y, d
<1>3. CASE e < 0
    <2> DEFINE y == yaw + 1
               d == e + 1
    <2>1. y \in Int /\ d \in Int /\ -180 <= d /\ d <= 180 /\ Apart(y, target, d)
        BY <1>3 DEF Apart
    <2> HIDE DEF y, d
    <2>2. Arc(y, target) = Magnitude(d)
        BY <2>1, ArcFact
    <2>3. Magnitude(d) < Magnitude(e)
        BY <1>3 DEF Magnitude, d
    <2> QED
        BY <1>1, <1>3, <2>2, <2>3 DEF y
<1> QED
    BY <1>2, <1>3

\* A product is not negative if its factors do not pull apart.
LEMMA SameSign ==
    ASSUME NEW x \in Int, NEW y \in Int, x * y >= 0
    PROVE  /\ x > 0 => y >= 0
           /\ x < 0 => y <= 0
BY Z3

LEMMA ProductSign ==
    ASSUME NEW a \in Nat, NEW x \in Int
    PROVE  /\ a * x \in Int
           /\ x >= 0 => a * x >= 0
           /\ x <= 0 => a * x <= 0
BY Z3

LEMMA ShorterWayStep ==
    ASSUME AngleTypes, LastError = Error,
           NEW target \in TargetYaws, NEW yaw \in Yaws, Run_AngleHold(target, yaw),
           OutputTurnsCar',
           Turning', Error' = Error, Error' * Integral >= 0, Error' \notin {-180, 0, 180}
    PROVE  LET turned == IF LeftPwm' > 0 THEN Yaw' - 1 ELSE Yaw' + 1
           IN  Arc(turned, Yaw_Target') < Arc(Yaw', Yaw_Target')
<1> DEFINE e == YawPID_AngleError(target, yaw)
           integral == IntegralWith(e)
           output == OutputWith(integral, e)
<1>1. /\ Error' = e /\ Output' = output /\ Yaw' = yaw /\ Yaw_Target' = target
      /\ LastError = e
    BY DEF Run_AngleHold
<1>2. target \in -180 .. 180 /\ yaw \in -180 .. 180
    BY AngleFacts
<1>3. e \in Int /\ -180 <= e /\ e <= 180 /\ Apart(yaw, target, e)
    BY <1>1, <1>2, AngleErrorFact
<1>4. /\ integral \in Int
      /\ e > 0 => integral >= 0
      /\ e < 0 => integral <= 0
    <2>1. /\ Integral \in Int
          /\ e > 0 => Integral >= 0
          /\ e < 0 => Integral <= 0
        BY <1>1, <1>3, SameSign DEF AngleTypes
    <2>2. PICK kept : /\ kept = Integral \/ kept = Integral + e
                      /\ integral = Limited(kept, Integral_Max)
        BY DEF IntegralWith
    <2> HIDE DEF e, integral
    <2>3. /\ kept \in Int
          /\ e > 0 => kept >= 0
          /\ e < 0 => kept <= 0
        BY <1>3, <2>1, <2>2
    <2> QED
        BY <2>2, <2>3, AngleFacts, LimitedKeepsSign
<1>5. /\ output \in Int
      /\ e > 0 => output >= 0
      /\ e < 0 => output <= 0
    <2> DEFINE sum == YAW_KP * e + YAW_KI * integral
    <2>1. output = Limited(sum + YAW_KD * (e - e), Output_Max * YawDen)
        BY <1>1 DEF OutputWith
    <2> HIDE DEF e, integral, output
    <2>2. YAW_KD * (e - e) = 0
        BY <1>3, AngleFacts
    <2>3. /\ sum \in Int
          /\ e > 0 => sum >= 0
          /\ e < 0 => sum <= 0
        <3>1. /\ YAW_KP * e \in Int
              /\ e > 0 => YAW_KP * e >= 0
              /\ e < 0 => YAW_KP * e <= 0
            BY <1>3, AngleFacts, ProductSign
        <3>2. /\ YAW_KI * integral \in Int
              /\ integral >= 0 => YAW_KI * integral >= 0
              /\ integral <= 0 => YAW_KI * integral <= 0
            BY <1>4, AngleFacts, ProductSign
        <3> QED
            BY <1>4, <3>1, <3>2
    <2>4. Output_Max * YawDen \in Nat
        BY AngleFacts
    <2> HIDE DEF sum
    <2>5. output = Limited(sum, Output_Max * YawDen)
        BY <2>1, <2>2, <2>3
    <2> QED
        BY <2>3, <2>4, <2>5, LimitedKeepsSign
<1> HIDE DEF e, integral, output
<1>6. ~(Magnitude(output) < ANGLE_DEADBAND * YawDen)
    <2> SUFFICES ASSUME Magnitude(output) < ANGLE_DEADBAND * YawDen PROVE FALSE
        OBVIOUS
    <2>1. AO_Control(Forward, 0) /\ BO_Control(Forward, 0)
        BY DEF Run_AngleHold, Steer, e, integral, output
    <2>2. AO'.pwm = 0 /\ BO'.pwm = 0
        BY <2>1 DEF AO_Control, BO_Control, Refused, Forward, MaxSpeed
    <2> QED
        BY <2>2 DEF Turning
<1>7. output # 0
    <2>1. Magnitude(output) # 0
        BY <1>6, AngleFacts, ProductPositive
    <2> QED
        BY <1>5, <2>1 DEF Magnitude
<1>8. LeftPwm' > 0 <=> output > 0
    BY <1>1, <1>6 DEF OutputTurnsCar
<1>9. e > 0 \/ e < 0
    BY <1>1, <1>3
<1>10. e > 0 <=> LeftPwm' > 0
    BY <1>3, <1>5, <1>7, <1>8, <1>9
<1>11. CASE e > 0
    <2>1. Arc(yaw - 1, target) < Arc(yaw, target)
        BY <1>2, <1>3, <1>11, NearerFact
    <2> QED
        BY <1>1, <1>10, <1>11, <2>1
<1>12. CASE e < 0
    <2>1. Arc(yaw + 1, target) < Arc(yaw, target)
        BY <1>2, <1>3, <1>12, NearerFact
    <2> QED
        BY <1>1, <1>3, <1>10, <1>12, <2>1
<1> QED
    BY <1>9, <1>11, <1>12
\* The last error is the error, and without the angle hold both are 0.
ErrorKept == LastError = Error /\ (Mode = "Track" => Error = 0)

LEMMA ErrorKeptInductive == DriveSpec => []ErrorKept
<1>1. DriveInit => ErrorKept
    BY DEF DriveInit, AngleInit, ErrorKept
<1>2. ErrorKept /\ [DriveNext]_driveVars => ErrorKept'
    BY DEF ErrorKept, DriveNext, SpeedPeriod, AnglePeriod, angleOnly, AngleNext,
           Run_AngleHold, driveVars, angleVars
<1> QED
    BY <1>1, <1>2, PTL DEF DriveSpec

\* The car turns the shorter way, through +-180 degrees where that is shorter, for all
\* gains, limits, readings and targets: with the error at rest the output has its sign
\* (YawPID_AngleError and Run_AngleHold).
THEOREM ShorterWayTurned == DriveSpec => TurnsShorterWay
<1> DEFINE Shorter ==
        Turning' /\ Error' = Error /\ Error' * Integral >= 0 /\ Error' \notin {-180, 0, 180} =>
          LET turned == IF LeftPwm' > 0 THEN Yaw' - 1 ELSE Yaw' + 1
          IN  Arc(turned, Yaw_Target') < Arc(Yaw', Yaw_Target')
<1>1. DriveInv /\ DriveInv' /\ ErrorKept /\ [DriveNext]_driveVars => [Shorter]_angleVars
    <2> SUFFICES ASSUME DriveInv, DriveInv', ErrorKept, [DriveNext]_driveVars,
                        angleVars' # angleVars, Error' # 0
                 PROVE  Shorter
        OBVIOUS
    <2>1. ~SpeedPeriod
        BY DEF SpeedPeriod, angleOnly, ErrorKept
    <2>2. ~UNCHANGED driveVars
        BY DEF driveVars
    <2>3. Mode = "AngleHold" /\ Mode' = Mode /\ AngleNext
        BY <2>1, <2>2 DEF DriveNext, AnglePeriod
    <2>4. AngleTypes /\ LastError = Error /\ OutputTurnsCar'
        BY <2>3 DEF DriveInv, NoCommandRefused, ErrorKept
    <2> QED
        BY <2>3, <2>4, ShorterWayStep DEF AngleNext
<1> QED
    BY <1>1, DriveInvAlways, ErrorKeptInductive, PTL DEF DriveSpec, TurnsShorterWay

================================================================================
