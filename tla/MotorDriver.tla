------------------------------ MODULE MotorDriver ------------------------------
(***************************************************************************)
(* The TB6612 bridge of MOTOR.c: two channels, each with two direction pins *)
(* and a PWM compare value.  The motors are mounted mirror-wise, so channel *)
(* B's pins are driven the other way round for the same direction.         *)
(***************************************************************************)
EXTENDS Integers

VARIABLES
    AO, BO          \* each: direction pins in1, in2 and the compare value pwm

bridge == <<AO, BO>>

MaxSpeed == 999     \* a greater speed is refused
Forward == 1
Rewerse == 0        \* the source's spelling

\* The pins and the compare value after reset.
BridgeInit ==
    /\ AO = [in1 |-> 0, in2 |-> 0, pwm |-> 0]
    /\ BO = [in1 |-> 0, in2 |-> 0, pwm |-> 0]

Refused(direction, speed) == speed > MaxSpeed \/ direction > 1

AO_Control(direction, speed) ==
    AO' = IF Refused(direction, speed) THEN AO
          ELSE [in1 |-> direction, in2 |-> 1 - direction, pwm |-> speed]

BO_Control(direction, speed) ==
    BO' = IF Refused(direction, speed) THEN BO
          ELSE [in1 |-> 1 - direction, in2 |-> direction, pwm |-> speed]

\* The signed speed of a channel's wheel: forward is positive.
LeftPwm == (AO.in1 - AO.in2) * AO.pwm
RightPwm == (BO.in2 - BO.in1) * BO.pwm

================================================================================
