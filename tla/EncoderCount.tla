----------------------------- MODULE EncoderCount -----------------------------
(***************************************************************************)
(* The wheel encoders: GROUP1_IRQHandler counts rising edges of channel A,  *)
(* up or down by the level of channel B, and the control stage turns the    *)
(* counts into Distance and the route (Velocity_Get, Distance_Get, the      *)
(* route of a mode function).                                               *)
(*                                                                          *)
(* A wheel (external) moves in quarter steps of its encoder; its `phase`    *)
(* gives both levels.  All four pins raise the interrupt on a rising edge,  *)
(* and the wheels go on turning while the handler runs.                     *)
(***************************************************************************)
EXTENDS Integers

CONSTANTS
    MmNum, MmDen,   \* Distance in mm: the sum of both counts * MmNum / MmDen
    StepCap,        \* a distance step of 100 mm or more is taken for a glitch
    MaxMoves        \* bound on the quarter steps of both wheels

ASSUME EncoderAssumption ==
    /\ MmNum \in Nat \ {0} /\ MmDen \in Nat \ {0}
    /\ StepCap \in Nat \ {0} /\ MaxMoves \in Nat

Wheels == {1, 2}

VARIABLES
    phase,          \* quarter step each wheel is at
    status,         \* the port's interrupt status: pins that have risen
    isr,            \* 0: not running, w: about to look at wheel w, 3: to clear
    gpio_status,    \* what the handler has read of it
    TempCount, Count, Direction,   \* the two ENCODER structs
    main,           \* step of the control stage, 0 outside it
    Encoder_Last, Distance, route,
    \* History variables, read by the properties only.
    moves,          \* quarter steps of both wheels
    edges,          \* rising edges of channel A, forward less backward
    slips,          \* quarter steps the wheel took before its last edge was counted
    fresh,          \* pulses counted since Encoder_Get last took the count
    measured,       \* pulses Velocity_Get has measured
    glitch          \* a distance step was too long to be taken

wheel == <<phase, moves, edges, slips>>
handler == <<isr, gpio_status, TempCount, fresh>>
stageVars == <<Count, Direction, main, Encoder_Last, Distance, route, measured, glitch>>
encoderVars == <<wheel, status, handler, stageVars>>

LevelA(p) == p \in {2, 3}
LevelB(p) == p \in {1, 2}

PinA(w) == <<w, "A">>
PinB(w) == <<w, "B">>

\* Encoder_Init and Data_Init, with the wheels at any phase.
EncoderInit ==
    /\ phase \in [Wheels -> 0 .. 3]
    /\ status = {} /\ isr = 0 /\ gpio_status = {}
    /\ TempCount = [w \in Wheels |-> 0]
    /\ Count = [w \in Wheels |-> 0]
    /\ Direction = [w \in Wheels |-> "FORWARD"]
    /\ main = 0
    /\ Encoder_Last = [w \in Wheels |-> 0]
    /\ Distance = 0 /\ route = 0
    /\ moves = 0
    /\ edges = [w \in Wheels |-> 0]
    /\ slips = [w \in Wheels |-> 0]
    /\ fresh = [w \in Wheels |-> 0]
    /\ measured = [w \in Wheels |-> 0]
    /\ glitch = FALSE

--------------------------------------------------------------------------------
\* The wheels and the port.

\* A wheel may move at any time, also before the handler has seen its last edge.
Move(w, d) ==
    LET p == phase[w]
        q == (p + d) % 4
        riseA == ~LevelA(p) /\ LevelA(q)
        riseB == ~LevelB(p) /\ LevelB(q)
    IN  /\ moves < MaxMoves
        /\ moves' = moves + 1
        /\ phase' = [phase EXCEPT ![w] = q]
        /\ status' = status \cup (IF riseA THEN {PinA(w)} ELSE {})
                            \cup (IF riseB THEN {PinB(w)} ELSE {})
        /\ edges' = [edges EXCEPT ![w] = IF riseA THEN @ + d ELSE @]
        /\ slips' = [slips EXCEPT ![w] =
                        IF isr # 0 \/ PinA(w) \in status THEN @ + 1 ELSE @]
        /\ UNCHANGED <<handler, stageVars>>

--------------------------------------------------------------------------------
\* GROUP1_IRQHandler.

ReadStatus ==
    /\ isr = 0 /\ status # {}
    /\ isr' = 1
    /\ gpio_status' = status
    /\ UNCHANGED <<wheel, status, TempCount, fresh, stageVars>>

\* Fault: one wheel per interrupt, as with an else between the two.
CountEdgeElse(w) ==
    LET counts == PinA(w) \in gpio_status /\ (w = 2 => PinA(1) \notin gpio_status)
        pulse == IF LevelB(phase[w]) THEN 1 ELSE -1
    IN  /\ isr = w
        /\ isr' = w + 1
        /\ TempCount' = [TempCount EXCEPT ![w] = IF counts THEN @ + pulse ELSE @]
        /\ fresh' = [fresh EXCEPT ![w] = IF counts THEN @ + pulse ELSE @]
        /\ UNCHANGED <<wheel, status, gpio_status, stageVars>>

\* Channel B is read here, not when the edge came.
CountEdge(w) ==
    LET counts == PinA(w) \in gpio_status
        pulse == IF LevelB(phase[w]) THEN 1 ELSE -1
    IN  /\ isr = w
        /\ isr' = w + 1
        /\ TempCount' = [TempCount EXCEPT ![w] = IF counts THEN @ + pulse ELSE @]
        /\ fresh' = [fresh EXCEPT ![w] = IF counts THEN @ + pulse ELSE @]
        /\ UNCHANGED <<wheel, status, gpio_status, stageVars>>

\* The whole status is cleared, edges that came after it was read included.
ClearStatus ==
    /\ isr = 3
    /\ isr' = 0
    /\ status' = {}
    /\ UNCHANGED <<wheel, gpio_status, TempCount, fresh, stageVars>>

--------------------------------------------------------------------------------
\* The control stage; the interrupt has priority over it.

MainRuns == isr = 0 /\ status = {}

\* Encoder_Get up to its first read of TempCount, for wheel 1, then wheel 2.
EncoderDelta(w) ==
    /\ MainRuns
    /\ main = 2 * w - 2
    /\ main' = main + 1
    /\ Direction' = [Direction EXCEPT ![w] =
                        IF TempCount[w] - Count[w] >= 0 THEN "FORWARD" ELSE "REVERSAL"]
    /\ UNCHANGED <<wheel, status, handler, Count, Encoder_Last, Distance, route,
                   measured, glitch>>

\* ... and from its second read on.
EncoderTake(w) ==
    /\ MainRuns
    /\ main = 2 * w - 1
    /\ main' = main + 1
    /\ Count' = [Count EXCEPT ![w] = TempCount[w]]
    /\ fresh' = [fresh EXCEPT ![w] = 0]
    /\ UNCHANGED <<wheel, status, isr, gpio_status, TempCount, Direction,
                   Encoder_Last, Distance, route, measured, glitch>>

\* A float is cut off towards zero when it becomes an int32_t.
Truncated(a, b) == IF a >= 0 THEN a \div b ELSE -((-a) \div b)

\* Fault: the step is cut off instead of the distance.
Distance_GetByStep == Distance + Truncated(
    (Count[1] + Count[2] - Encoder_Last[1] - Encoder_Last[2]) * MmNum, MmDen)

Distance_Get == Truncated((Count[1] + Count[2]) * MmNum, MmDen)

Step == Distance_Get - Distance

\* Fault: the last count is read anew instead of kept.
MeasureLive ==
    /\ MainRuns
    /\ main = 4
    /\ main' = 0
    /\ measured' = [w \in Wheels |-> measured[w] + Count[w] - Encoder_Last[w]]
    /\ Encoder_Last' = TempCount
    /\ Distance' = Distance_Get
    /\ route' = IF 0 < Step /\ Step < StepCap THEN route + Step ELSE route
    /\ glitch' = (glitch \/ Step >= StepCap)
    /\ UNCHANGED <<wheel, status, handler, Count, Direction>>

\* The rest of Velocity_Get, Distance_Get, and the route of the mode function.
Measure ==
    /\ MainRuns
    /\ main = 4
    /\ main' = 0
    /\ measured' = [w \in Wheels |-> measured[w] + Count[w] - Encoder_Last[w]]
    /\ Encoder_Last' = Count
    /\ Distance' = Distance_Get
    /\ route' = IF 0 < Step /\ Step < StepCap THEN route + Step ELSE route
    /\ glitch' = (glitch \/ Step >= StepCap)
    /\ UNCHANGED <<wheel, status, handler, Count, Direction>>

GROUP1_IRQHandler == ReadStatus \/ (\E w \in Wheels : CountEdge(w)) \/ ClearStatus

ControlStep == (\E w \in Wheels : EncoderDelta(w) \/ EncoderTake(w)) \/ Measure

EncoderNext ==
    \/ \E w \in Wheels, d \in {-1, 1} : Move(w, d)
    \/ GROUP1_IRQHandler
    \/ ControlStep

EncoderSpec == EncoderInit /\ [][EncoderNext]_encoderVars

--------------------------------------------------------------------------------

Magnitude(n) == IF n >= 0 THEN n ELSE -n

\* The counts are right as long as the handler is done before the wheel moves on,
\* whatever the other wheel does meanwhile: its interrupts, and the clearing of
\* the whole status, cost this wheel nothing.  A quarter step the wheel takes
\* before its last edge has been counted costs at most two counts.
CountErrorBounded ==
    \A w \in Wheels : isr = 0 /\ PinA(w) \notin status =>
        Magnitude(edges[w] - TempCount[w]) <= 2 * slips[w]

\* The interrupt may count between the two reads of Encoder_Get, between the two
\* wheels and before the measurement: every pulse is measured once.
EveryPulseMeasuredOnce ==
    main = 0 => \A w \in Wheels : measured[w] + fresh[w] = TempCount[w]

\* Every step is cut off to whole millimetres, but what one period cuts off the
\* next one counts: while no step is taken for a glitch, the route is never short
\* of the distance the counts stand for.
RouteLosesNothing ==
    main = 0 /\ ~glitch =>
        route >= Truncated((Count[1] + Count[2]) * MmNum, MmDen)

================================================================================
