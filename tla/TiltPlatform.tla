----------------------------- MODULE TiltPlatform ------------------------------
(***************************************************************************)
(* The tilt platform: TiltInner_SetTarget reads the motor's angle and sends *)
(* one relative move for the difference; TiltInner_Loop only reads.  A call *)
(* of either is cut at its exchanges with the motor, which (external) turns *)
(* between them, may miss a move, and whose answer may be lost, be one to   *)
(* an earlier move, or tell where the motor stood when an earlier call      *)
(* asked (Requests).  One such older answer is due at a time, and none is a *)
(* misread piece of a value: what a call then takes for an angle may be any *)
(* number.                                                                  *)
(*                                                                          *)
(* The motor stands at `position` pulses; angles of the code are tenths of  *)
(* a degree (x10).  A target is given in hundredths, so that what the       *)
(* conversion to uint32_t cuts off is there.  Inner_Output and Inner_Status *)
(* are only displayed and left out.                                         *)
(***************************************************************************)
EXTENDS StepMotorTalk

CONSTANTS
    TiltTargets,    \* what TiltInner_SetTarget is called with, in 1/100 degree
    MaxTilts,       \* bound on its calls
    MinTurn         \* pulses: a shorter rest of a way is turned at once

ASSUME TiltAssumption == TiltTargets \subseteq Int /\ MaxTilts \in Nat /\ MinTurn \in Nat

INNER_DEADBAND == 15
MaxTilt == 900

VARIABLES
    tiltPc,            \* where TiltInner_SetTarget is
    Inner_Target,      \* in 1/100 degree; Inner_Target_x10 is a tenth of it
    Inner_Current_x10,
    Inner_Sent,
    position, goal,    \* of the motor, in pulses
    late,              \* an answer of the motor that came too late for its call
    tilts,
    \* History variables.
    drift,             \* pulses the motor turned since it gave the angle of a move
    aim                \* where that move was to end, in 1/400 degree

tiltVars ==
    <<tiltPc, Inner_Target, Inner_Current_x10, Inner_Sent, position, goal, late, tilts, drift, aim>>

\* An answer: where the motor stood, and what it has turned since.
NoAnswer == [due |-> FALSE, at |-> 0, drift |-> 0]

Now == [due |-> TRUE, at |-> position, drift |-> 0]

TiltInit ==
    /\ tiltPc = "idle"
    /\ Inner_Target = 0 /\ Inner_Current_x10 = 0 /\ Inner_Sent = 0
    /\ position = 0 /\ goal = 0 /\ late = NoAnswer /\ tilts = 0
    /\ drift = 0 /\ aim = 0

Abs(n) == IF n < 0 THEN -n ELSE n

\* The answer to READ_POSITION: 65536 units a turn, 20.48 a pulse.
PositionAnswers(at) ==
    Answers([of |-> "position", negative |-> at < 0, magnitude |-> (Abs(at) * 512) \div 25])

Angle(at) == StepMotor_ReadAngle_x10(zdt_emm_read_position_raw(PositionAnswers(at)))

\* In 1/100 degree.
Inner_Error(current) == Inner_Target - 10 * current

\* Fault: not limited.
AmountUnlimited(error) == Abs(error) \div 10

\* abs_err as the uint32_t that is sent.
Amount(error) == IF Abs(error) > 10 * MaxTilt THEN MaxTilt ELSE Abs(error) \div 10

\* Where a move from `at` is to end.  A pulse is 45/400 of a degree.
ClampedAim(at) == LET off == 4 * Inner_Target - 45 * at
                  IN  45 * at + (CASE off > 400 * 90 -> 400 * 90
                                   [] off < -400 * 90 -> -400 * 90
                                   [] OTHER -> off)

\* A call of TiltInner_SetTarget up to its first exchange.
SetTarget ==
    /\ tiltPc = "idle" /\ tilts < MaxTilts
    /\ \E target \in TiltTargets : Inner_Target' = target
    /\ tiltPc' = "reading"
    /\ tilts' = tilts + 1
    /\ UNCHANGED <<Inner_Current_x10, Inner_Sent, position, goal, late, drift, aim>>

\* A call gets no answer; its own may come later.
GetsNoAnswer == late' \in {late, NoAnswer, Now}

\* A call takes the older answer, and its own may come later, or its own, which is
\* behind every older one.
TakesAnswer(answer) ==
    /\ answer \in {Now} \cup IF late.due THEN {late} ELSE {}
    /\ late' \in {NoAnswer} \cup IF answer = late THEN {Now} ELSE {}

AngleUnread ==
    /\ tiltPc = "reading"
    /\ tiltPc' = "idle"
    /\ Inner_Sent' = -1
    /\ GetsNoAnswer
    /\ UNCHANGED <<Inner_Target, Inner_Current_x10, position, goal, tilts, drift, aim>>

AngleRead ==
    /\ tiltPc = "reading"
    /\ \E answer \in {Now, late} :
          LET angle == Angle(answer.at)
          IN  /\ TakesAnswer(answer)
              /\ Inner_Current_x10' = angle
              /\ IF Abs(Inner_Error(angle)) < 10 * INNER_DEADBAND
                 THEN /\ tiltPc' = "idle" /\ Inner_Sent' = 2
                      /\ UNCHANGED <<drift, aim>>
                 ELSE /\ tiltPc' = "moving"
                      /\ drift' = answer.drift /\ aim' = ClampedAim(answer.at)
                      /\ UNCHANGED Inner_Sent
    /\ UNCHANGED <<Inner_Target, position, goal, tilts>>

\* The motor obeys a frame of StepMotor_MoveRelativeAngle.
Obeyed(frame) ==
    LET move == Heard(frame)
        pulses == IF move.dir = 0 THEN move.pulses ELSE -move.pulses
    IN  CASE move.mode = 2 -> position + pulses
          [] move.mode = 1 -> pulses
          [] move.mode = 0 -> goal + pulses

\* The move is sent; whether the motor obeys and what the call returns are two
\* things.
Move ==
    /\ tiltPc = "moving"
    /\ LET error == Inner_Error(Inner_Current_x10)
           dir == IF error > 0 THEN 0 ELSE 1
       IN  goal' \in {goal, Obeyed(StepMotor_MoveRelativeAngle(dir, Amount(error)))}
    /\ tiltPc' = "idle"
    /\ Inner_Sent' \in {1, -2}
    /\ late' \in {late, NoAnswer}
    /\ UNCHANGED <<Inner_Target, Inner_Current_x10, position, tilts, drift, aim>>

\* TiltInner_Loop, when its period is over.
TiltInner_Loop ==
    /\ tiltPc = "idle"
    /\ \/ GetsNoAnswer /\ UNCHANGED Inner_Current_x10
       \/ \E answer \in {Now, late} :
             TakesAnswer(answer) /\ Inner_Current_x10' = Angle(answer.at)
    /\ UNCHANGED <<tiltPc, Inner_Target, Inner_Sent, position, goal, tilts, drift, aim>>

\* The motor turns half the way that is left, if it is long, or all of it.
Turn ==
    /\ position # goal
    /\ \E to \in {goal} \cup IF Abs(goal - position) < MinTurn
                           THEN {} ELSE {(position + goal) \div 2} :
          /\ position' = to
          /\ drift' = drift + IF tiltPc = "moving" THEN Abs(to - position) ELSE 0
          /\ late' = IF late.due THEN [late EXCEPT !.drift = @ + Abs(to - position)] ELSE late
    /\ UNCHANGED <<tiltPc, Inner_Target, Inner_Current_x10, Inner_Sent, goal, tilts, aim>>

TiltNext ==
    SetTarget \/ AngleUnread \/ AngleRead \/ Move \/ TiltInner_Loop \/ Turn

TiltSpec == TiltInit /\ [][TiltNext]_tiltVars

--------------------------------------------------------------------------------

\* When the motor takes a new goal it is where the call was to bring it, up to
\* the roundings of the way there (0.2 degrees) and what the motor turned
\* since it gave the angle the move was computed from: a late or repeated call,
\* one in the middle of a move, or one that took an older answer for its own,
\* does no more harm than that.
TiltErrorIsDrift == [][goal' # goal => Abs(45 * goal' - aim) <= 45 * drift + 80]_tiltVars

================================================================================
