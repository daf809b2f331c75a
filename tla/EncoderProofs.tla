----------------------------- MODULE EncoderProofs -----------------------------
(***************************************************************************)
(* Proofs about EncoderCount, for all ratios and limits and any number of  *)
(* moves.                                                                  *)
(***************************************************************************)
EXTENDS EncoderCount, TLAPS

Pins == {PinA(1), PinB(1), PinA(2), PinB(2)}

WheelTypes ==
    /\ phase \in [Wheels -> 0 .. 3]
    /\ edges \in [Wheels -> Int] /\ slips \in [Wheels -> Nat]
    /\ moves \in Nat

HandlerTypes ==
    /\ isr \in 0 .. 3
    /\ TempCount \in [Wheels -> Int] /\ fresh \in [Wheels -> Int]

StageTypes ==
    /\ main \in 0 .. 4
    /\ Count \in [Wheels -> Int] /\ Encoder_Last \in [Wheels -> Int]
    /\ measured \in [Wheels -> Int]
    /\ Distance \in Int /\ route \in Int /\ glitch \in BOOLEAN

Types == WheelTypes /\ HandlerTypes /\ StageTypes

\* The last edge of a wheel has been seen by the port, but is not counted yet.
Owed(w) == \/ isr = 0 /\ PinA(w) \in status
           \/ isr # 0 /\ isr <= w /\ PinA(w) \in gpio_status

\* What the handler would count for an edge of a wheel now.
Pulse(p) == IF LevelB(p) THEN 1 ELSE -1

Missing(w) == edges[w] - TempCount[w] - (IF Owed(w) THEN Pulse(phase[w]) ELSE 0)

\* An edge that is owed counts as what the handler will take it for.
Debt(w) == Missing(w) <= 2 * slips[w] /\ -Missing(w) <= 2 * slips[w]

Counted ==
    \A w \in Wheels :
        /\ TempCount[w] = Count[w] + fresh[w]
        /\ measured[w] = Encoder_Last[w]
        /\ main = 0 => Count[w] = Encoder_Last[w]

Routed ==
    /\ ~glitch => route >= Distance
    /\ main = 0 => Distance = Distance_Get

--------------------------------------------------------------------------------

LEMMA DistanceIsInt ==
    ASSUME Types PROVE Distance_Get \in Int
<1>1. (Count[1] + Count[2]) * MmNum \in Int
    BY EncoderAssumption DEF Types, StageTypes, Wheels
<1>2. MmDen \in Nat \ {0}
    BY EncoderAssumption
<1>3. \A a \in Int : Truncated(a, MmDen) \in Int
    BY <1>2 DEF Truncated
<1> QED
    BY <1>1, <1>3 DEF Distance_Get

LEMMA TypesInit == EncoderInit => Types
<1> SUFFICES ASSUME EncoderInit PROVE Types
    OBVIOUS
<1>1. WheelTypes
    BY DEF EncoderInit, WheelTypes
<1>2. HandlerTypes
    BY DEF EncoderInit, HandlerTypes
<1>3. main \in 0 .. 4 /\ Distance \in Int /\ route \in Int
    BY DEF EncoderInit
<1>4. /\ Count \in [Wheels -> Int] /\ Encoder_Last \in [Wheels -> Int]
      /\ measured \in [Wheels -> Int]
    <2>1. 0 \in Int
        OBVIOUS
    <2> QED
        BY <2>1 DEF EncoderInit
<1>5. glitch \in BOOLEAN
    BY DEF EncoderInit
<1> QED
    BY <1>1, <1>2, <1>3, <1>4, <1>5 DEF Types, StageTypes

LEMMA MoveTypes ==
    ASSUME Types, NEW w \in Wheels, NEW d \in {-1, 1}, Move(w, d)
    PROVE  WheelTypes'
<1>1. (phase[w] + d) % 4 \in 0 .. 3
    BY DEF Types, WheelTypes
<1>2. phase' \in [Wheels -> 0 .. 3]
    BY <1>1 DEF Types, WheelTypes, Move
<1>3. edges' \in [Wheels -> Int]
    BY DEF Types, WheelTypes, Move
<1>4. slips' \in [Wheels -> Nat]
    BY DEF Types, WheelTypes, Move
<1> QED
    BY <1>2, <1>3, <1>4 DEF Types, WheelTypes, Move

LEMMA StepKeepsTypes == Types /\ [EncoderNext]_encoderVars => Types'
<1> SUFFICES ASSUME Types, [EncoderNext]_encoderVars PROVE Types'
    OBVIOUS
<1>1. ASSUME NEW w \in Wheels, NEW d \in {-1, 1}, Move(w, d) PROVE Types'
    <2>1. HandlerTypes' /\ StageTypes'
        BY <1>1 DEF Move, Types, handler, stageVars, HandlerTypes, StageTypes
    <2> QED
        BY <1>1, <2>1, MoveTypes DEF Types
<1>2. CASE ReadStatus
    BY <1>2 DEF ReadStatus, Types, wheel, stageVars, WheelTypes, HandlerTypes, StageTypes
<1>3. ASSUME NEW w \in Wheels, CountEdge(w) PROVE Types'
    <2>1. TempCount' \in [Wheels -> Int] /\ fresh' \in [Wheels -> Int] /\ isr' \in 0 .. 3
        BY <1>3 DEF CountEdge, Types, HandlerTypes, Wheels
    <2> QED
        BY <1>3, <2>1 DEF CountEdge, Types, wheel, stageVars, WheelTypes, HandlerTypes, StageTypes
<1>4. CASE ClearStatus
    BY <1>4 DEF ClearStatus, Types, wheel, stageVars, WheelTypes, HandlerTypes, StageTypes
<1>5. ASSUME NEW w \in Wheels, EncoderDelta(w) PROVE Types'
    BY <1>5 DEF EncoderDelta, Types, wheel, handler, WheelTypes, HandlerTypes, StageTypes, Wheels
<1>6. ASSUME NEW w \in Wheels, EncoderTake(w) PROVE Types'
    BY <1>6 DEF EncoderTake, Types, wheel, WheelTypes, HandlerTypes, StageTypes, Wheels
<1>7. CASE Measure
    <2>1. Step \in Int /\ Distance_Get \in Int
        BY DistanceIsInt DEF Step, Types, StageTypes
    <2>2. StepCap \in Nat
        BY EncoderAssumption
    <2>3. route' \in Int /\ glitch' \in BOOLEAN /\ Distance' \in Int
        BY <1>7, <2>1, <2>2 DEF Measure, Types, StageTypes
    <2> QED
        BY <1>7, <2>3 DEF Measure, Types, wheel, handler, WheelTypes, HandlerTypes, StageTypes
<1>8. CASE UNCHANGED encoderVars
    BY <1>8 DEF encoderVars, wheel, handler, stageVars, Types, WheelTypes, HandlerTypes, StageTypes
<1> QED
    BY <1>1, <1>2, <1>3, <1>4, <1>5, <1>6, <1>7, <1>8
    DEF EncoderNext, GROUP1_IRQHandler, ControlStep

--------------------------------------------------------------------------------

LEMMA CountedStep ==
    ASSUME Types, Counted, [EncoderNext]_encoderVars
    PROVE  Counted'
<1> USE DEF Counted
<1>1. ASSUME NEW w \in Wheels, NEW d \in {-1, 1}, Move(w, d) PROVE Counted'
    BY <1>1 DEF Move, handler, stageVars
<1>2. CASE ReadStatus
    BY <1>2 DEF ReadStatus, stageVars
<1>3. ASSUME NEW w \in Wheels, CountEdge(w) PROVE Counted'
    <2> SUFFICES ASSUME NEW v \in Wheels
                 PROVE  TempCount'[v] = Count'[v] + fresh'[v]
        BY <1>3 DEF CountEdge, stageVars
    <2>1. /\ TempCount[v] \in Int /\ Count[v] \in Int /\ fresh[v] \in Int
          /\ TempCount[v] = Count[v] + fresh[v]
        BY DEF Types, HandlerTypes, StageTypes
    <2>2. Count'[v] = Count[v]
        BY <1>3 DEF CountEdge, stageVars
    <2>3. \/ TempCount'[v] = TempCount[v] /\ fresh'[v] = fresh[v]
          \/ TempCount'[v] = TempCount[v] + 1 /\ fresh'[v] = fresh[v] + 1
          \/ TempCount'[v] = TempCount[v] + (-1) /\ fresh'[v] = fresh[v] + (-1)
        BY <1>3 DEF CountEdge, Types, HandlerTypes
    <2> QED
        BY <2>1, <2>2, <2>3
<1>4. CASE ClearStatus
    BY <1>4 DEF ClearStatus, stageVars
<1>5. ASSUME NEW w \in Wheels, EncoderDelta(w) PROVE Counted'
    <2>1. main' # 0
        BY <1>5 DEF EncoderDelta, Wheels
    <2> QED
        BY <1>5, <2>1 DEF EncoderDelta, handler
<1>6. ASSUME NEW w \in Wheels, EncoderTake(w) PROVE Counted'
    <2>1. main' # 0
        BY <1>6 DEF EncoderTake, Wheels
    <2> SUFFICES ASSUME NEW v \in Wheels
                 PROVE  TempCount'[v] = Count'[v] + fresh'[v]
        BY <1>6, <2>1 DEF EncoderTake
    <2> QED
        BY <1>6 DEF EncoderTake, Types, HandlerTypes, StageTypes
<1>7. CASE Measure
    <2> SUFFICES ASSUME NEW v \in Wheels
                 PROVE  /\ TempCount'[v] = Count'[v] + fresh'[v]
                        /\ measured'[v] = Encoder_Last'[v]
                        /\ Count'[v] = Encoder_Last'[v]
        OBVIOUS
    <2>1. TempCount'[v] = Count'[v] + fresh'[v] /\ Count'[v] = Encoder_Last'[v]
        BY <1>7 DEF Measure, handler
    <2>2. /\ measured'[v] = measured[v] + Count[v] - Encoder_Last[v]
          /\ measured[v] = Encoder_Last[v] /\ Encoder_Last'[v] = Count[v]
        BY <1>7 DEF Measure
    <2>3. Count[v] \in Int /\ Encoder_Last[v] \in Int
        BY DEF Types, StageTypes
    <2> QED
        BY <2>1, <2>2, <2>3
<1>8. CASE UNCHANGED encoderVars
    BY <1>8 DEF encoderVars, handler, stageVars
<1> QED
    BY <1>1, <1>2, <1>3, <1>4, <1>5, <1>6, <1>7, <1>8
    DEF EncoderNext, GROUP1_IRQHandler, ControlStep

\* Every pulse is measured once, for any number of moves and interrupts.
THEOREM PulsesMeasuredOnce == EncoderSpec => []EveryPulseMeasuredOnce
<1>1. EncoderInit => Types /\ Counted
    <2> SUFFICES ASSUME EncoderInit PROVE Counted
        BY TypesInit
    <2> QED
        BY DEF EncoderInit, Counted
<1>2. Types /\ Counted /\ [EncoderNext]_encoderVars => Types' /\ Counted'
    BY CountedStep, StepKeepsTypes
<1>3. Types /\ Counted => EveryPulseMeasuredOnce
    <2> SUFFICES ASSUME Types, Counted, main = 0, NEW w \in Wheels
                 PROVE  measured[w] + fresh[w] = TempCount[w]
        BY DEF EveryPulseMeasuredOnce
    <2> QED
        BY DEF Counted
<1> QED
    BY <1>1, <1>2, <1>3, PTL DEF EncoderSpec

--------------------------------------------------------------------------------

LEMMA RoutedStep ==
    ASSUME Types, Routed, [EncoderNext]_encoderVars
    PROVE  Routed'
<1>1. ASSUME NEW w \in Wheels, NEW d \in {-1, 1}, Move(w, d) PROVE Routed'
    BY <1>1 DEF Move, stageVars, Routed, Distance_Get
<1>2. CASE ReadStatus \/ ClearStatus
    BY <1>2 DEF ReadStatus, ClearStatus, stageVars, Routed, Distance_Get
<1>3. ASSUME NEW w \in Wheels, CountEdge(w) PROVE Routed'
    BY <1>3 DEF CountEdge, stageVars, Routed, Distance_Get
<1>4. ASSUME NEW w \in Wheels, EncoderDelta(w) \/ EncoderTake(w) PROVE Routed'
    <2>1. main' # 0
        BY <1>4 DEF EncoderDelta, EncoderTake, Wheels
    <2> QED
        BY <1>4, <2>1 DEF EncoderDelta, EncoderTake, Routed
<1>5. CASE Measure
    <2>1. Distance' = Distance_Get'
        BY <1>5 DEF Measure, Distance_Get
    <2>2. /\ Distance \in Int /\ route \in Int /\ Distance_Get \in Int
          /\ StepCap \in Nat /\ Step = Distance_Get - Distance
        BY DistanceIsInt, EncoderAssumption DEF Types, StageTypes, Step
    <2>3. ASSUME ~glitch' PROVE route' >= Distance'
        <3>1. ~glitch /\ Step < StepCap
            <4>1. ~glitch /\ ~(Step >= StepCap)
                BY <1>5, <2>3 DEF Measure
            <4> QED
                BY <4>1, <2>2
        <3>2. route >= Distance
            BY <3>1 DEF Routed
        <3>3. Distance' = Distance_Get
            BY <1>5 DEF Measure
        <3>4. CASE 0 < Step
            <4>1. route' = route + Step
                BY <1>5, <3>1, <3>4 DEF Measure
            <4> QED
                BY <4>1, <2>2, <3>2, <3>3
        <3>5. CASE ~(0 < Step)
            <4>1. route' = route
                BY <1>5, <3>5 DEF Measure
            <4> QED
                BY <4>1, <2>2, <3>2, <3>3, <3>5
        <3> QED
            BY <3>4, <3>5
    <2> QED
        BY <2>1, <2>3 DEF Routed
<1>6. CASE UNCHANGED encoderVars
    BY <1>6 DEF encoderVars, stageVars, Routed, Distance_Get
<1> QED
    BY <1>1, <1>2, <1>3, <1>4, <1>5, <1>6
    DEF EncoderNext, GROUP1_IRQHandler, ControlStep

\* The route is never short of the distance the counts stand for, for every ratio of
\* millimetres to counts and every limit of a step.
THEOREM RouteLosesNothingEver == EncoderSpec => []RouteLosesNothing
<1>1. EncoderInit => Types /\ Routed
    <2> SUFFICES ASSUME EncoderInit PROVE Routed
        BY TypesInit
    <2>1. \A n \in Nat \ {0} : 0 \div n = 0
        OBVIOUS
    <2>2. Truncated(0, MmDen) = 0
        BY <2>1, EncoderAssumption DEF Truncated
    <2>3. (Count[1] + Count[2]) * MmNum = 0
        BY EncoderAssumption DEF EncoderInit, Wheels
    <2>4. Distance_Get = 0
        BY <2>2, <2>3 DEF Distance_Get
    <2>5. Distance = 0 /\ route = 0
        BY DEF EncoderInit
    <2> QED
        BY <2>4, <2>5 DEF Routed
<1>2. Types /\ Routed /\ [EncoderNext]_encoderVars => Types' /\ Routed'
    BY RoutedStep, StepKeepsTypes
<1>3. Types /\ Routed => RouteLosesNothing
    BY DEF Routed, RouteLosesNothing, Distance_Get
<1> QED
    BY <1>1, <1>2, <1>3, PTL DEF EncoderSpec

--------------------------------------------------------------------------------

\* A quarter step brings at most one edge of channel A, or changes what the handler
\* would count for the last one, never both.
LEMMA QuarterStep ==
    ASSUME NEW p \in 0 .. 3, NEW d \in {-1, 1}
    PROVE  LET q == (p + d) % 4
           IN  IF ~LevelA(p) /\ LevelA(q) THEN Pulse(p) = d /\ Pulse(q) = d
               ELSE Pulse(q) - Pulse(p) \in {-2, 0, 2}
<1>1. \/ p = 0 /\ d = 1 /\ (p + d) % 4 = 1
      \/ p = 1 /\ d = 1 /\ (p + d) % 4 = 2
      \/ p = 2 /\ d = 1 /\ (p + d) % 4 = 3
      \/ p = 3 /\ d = 1 /\ (p + d) % 4 = 0
      \/ p = 0 /\ d = -1 /\ (p + d) % 4 = 3
      \/ p = 1 /\ d = -1 /\ (p + d) % 4 = 0
      \/ p = 2 /\ d = -1 /\ (p + d) % 4 = 1
      \/ p = 3 /\ d = -1 /\ (p + d) % 4 = 2
    OBVIOUS
<1> QED
    BY <1>1 DEF LevelA, LevelB, Pulse

LEMMA MoveDebt ==
    ASSUME Types, NEW v \in Wheels, Debt(v),
           NEW w \in Wheels, NEW d \in {-1, 1}, Move(w, d)
    PROVE  Debt(v)'
<1> DEFINE q == (phase[w] + d) % 4
           rise == ~LevelA(phase[w]) /\ LevelA(q)
<1>1. /\ edges[v] \in Int /\ slips[v] \in Nat /\ TempCount[v] \in Int
      /\ phase[v] \in 0 .. 3 /\ isr \in 0 .. 3 /\ v \in {1, 2}
    BY DEF Types, WheelTypes, HandlerTypes, Wheels
<1>2. TempCount' = TempCount /\ isr' = isr /\ gpio_status' = gpio_status
    BY DEF Move, handler
<1>3. PinA(v) \in status' <=> PinA(v) \in status \/ (v = w /\ rise)
    BY <1>1 DEF Move, PinA, PinB, Wheels
<1>4. CASE v # w
    <2>1. edges'[v] = edges[v] /\ slips'[v] = slips[v] /\ phase'[v] = phase[v]
        BY <1>4 DEF Move, Types, WheelTypes
    <2>2. Owed(v)' <=> Owed(v)
        BY <1>2, <1>3, <1>4 DEF Owed
    <2> QED
        BY <1>2, <2>1, <2>2 DEF Debt, Missing
<1>5. CASE v = w
    <2>1. phase'[v] = q /\ q \in 0 .. 3
        BY <1>1, <1>5 DEF Move, Types, WheelTypes
    <2>2. edges'[v] = IF rise THEN edges[v] + d ELSE edges[v]
        BY <1>5 DEF Move, Types, WheelTypes
    <2>3. slips'[v] = IF isr # 0 \/ PinA(v) \in status THEN slips[v] + 1 ELSE slips[v]
        BY <1>5 DEF Move, Types, WheelTypes
    <2>4. IF rise THEN Pulse(phase[v]) = d /\ Pulse(q) = d
          ELSE Pulse(q) - Pulse(phase[v]) \in {-2, 0, 2}
        BY <1>1, <1>5, QuarterStep
    <2>5. Pulse(phase[v]) \in {-1, 1} /\ Pulse(q) \in {-1, 1}
        BY DEF Pulse
    <2>6. /\ Owed(v)' => Missing(v)' = edges'[v] - TempCount[v] - Pulse(q)
          /\ ~Owed(v)' => Missing(v)' = edges'[v] - TempCount[v] - 0
        BY <1>2, <2>1 DEF Missing, Pulse
    <2>7. /\ Owed(v) => Missing(v) = edges[v] - TempCount[v] - Pulse(phase[v])
          /\ ~Owed(v) => Missing(v) = edges[v] - TempCount[v] - 0
        BY DEF Missing
    <2>8. Missing(v) <= 2 * slips[v] /\ -Missing(v) <= 2 * slips[v]
        BY DEF Debt
    <2> SUFFICES Missing(v)' <= 2 * slips'[v] /\ -(Missing(v)') <= 2 * slips'[v]
        BY DEF Debt
    <2> HIDE DEF q, rise
    <2>9. CASE isr = 0 /\ PinA(v) \notin status
        <3>1. ~Owed(v) /\ (Owed(v)' <=> rise) /\ slips'[v] = slips[v]
            BY <1>2, <1>3, <1>5, <2>3, <2>9 DEF Owed
        <3>2. CASE rise
            BY <1>1, <2>2, <2>4, <2>6, <2>7, <2>8, <3>1, <3>2
        <3>3. CASE ~rise
            BY <1>1, <2>2, <2>6, <2>7, <2>8, <3>1, <3>3
        <3> QED
            BY <3>2, <3>3
    <2>10. CASE isr # 0 \/ PinA(v) \in status
        <3>1. Owed(v)' <=> Owed(v)
            BY <1>2, <1>3, <2>10 DEF Owed
        <3>2. slips'[v] = slips[v] + 1
            BY <2>3, <2>10
        <3>3. CASE Owed(v)
            <4>1. CASE rise
                BY <1>1, <2>2, <2>4, <2>6, <2>7, <2>8, <3>1, <3>2, <3>3, <4>1
            <4>2. CASE ~rise
                BY <1>1, <2>2, <2>4, <2>5, <2>6, <2>7, <2>8, <3>1, <3>2, <3>3, <4>2
            <4> QED
                BY <4>1, <4>2
        <3>4. CASE ~Owed(v)
            BY <1>1, <2>2, <2>6, <2>7, <2>8, <3>1, <3>2, <3>4
        <3> QED
            BY <3>3, <3>4
    <2> QED
        BY <2>9, <2>10
<1> QED
    BY <1>4, <1>5

LEMMA CountEdgeDebt ==
    ASSUME Types, NEW v \in Wheels, Debt(v), NEW w \in Wheels, CountEdge(w)
    PROVE  Debt(v)'
<1>1. /\ edges[v] \in Int /\ slips[v] \in Nat /\ TempCount[v] \in Int
      /\ isr = w /\ v \in {1, 2} /\ w \in {1, 2} /\ isr' = w + 1
    BY DEF CountEdge, Types, WheelTypes, HandlerTypes, Wheels
<1>2. phase' = phase /\ edges' = edges /\ slips' = slips /\ gpio_status' = gpio_status
    BY DEF CountEdge, wheel
<1>3. CASE v # w
    <2>1. TempCount'[v] = TempCount[v]
        BY <1>3 DEF CountEdge, Types, HandlerTypes
    <2>2. Owed(v)' <=> Owed(v)
        BY <1>1, <1>2, <1>3 DEF Owed
    <2> QED
        BY <1>2, <2>1, <2>2 DEF Debt, Missing
<1>4. CASE v = w
    <2>1. ~Owed(v)' /\ (Owed(v) <=> PinA(v) \in gpio_status)
        BY <1>1, <1>4 DEF Owed
    <2>2. TempCount'[v] = TempCount[v] + (IF Owed(v) THEN Pulse(phase[v]) ELSE 0)
        <3>1. TempCount'[v] = IF PinA(v) \in gpio_status
                              THEN TempCount[v] + Pulse(phase[v]) ELSE TempCount[v]
            BY <1>4 DEF CountEdge, Types, HandlerTypes, Pulse
        <3> QED
            BY <1>1, <2>1, <3>1
    <2>3. Pulse(phase[v]) \in Int
        BY DEF Pulse
    <2>4. edges[v] - TempCount'[v] - 0 = Missing(v)
        BY <1>1, <2>2, <2>3 DEF Missing
    <2>5. Missing(v)' = Missing(v)
        BY <1>2, <2>1, <2>4 DEF Missing
    <2> QED
        BY <1>2, <2>5 DEF Debt
<1> QED
    BY <1>3, <1>4

LEMMA DebtStep ==
    ASSUME Types, \A w \in Wheels : Debt(w), [EncoderNext]_encoderVars
    PROVE  \A w \in Wheels : Debt(w)'
<1> SUFFICES ASSUME NEW v \in Wheels PROVE Debt(v)'
    OBVIOUS
<1>0. Debt(v) /\ isr \in 0 .. 3 /\ v \in {1, 2}
    BY DEF Types, HandlerTypes, Wheels
<1>1. ASSUME NEW w \in Wheels, NEW d \in {-1, 1}, Move(w, d) PROVE Debt(v)'
    BY <1>1, <1>0, MoveDebt
<1>2. CASE ReadStatus
    <2>1. Owed(v)' <=> Owed(v)
        BY <1>0, <1>2 DEF ReadStatus, Owed
    <2> QED
        BY <1>0, <1>2, <2>1 DEF ReadStatus, wheel, Debt, Missing
<1>3. ASSUME NEW w \in Wheels, CountEdge(w) PROVE Debt(v)'
    BY <1>3, <1>0, CountEdgeDebt
<1>4. CASE ClearStatus
    <2>1. ~Owed(v)' /\ ~Owed(v)
        BY <1>0, <1>4 DEF ClearStatus, Owed
    <2> QED
        BY <1>0, <1>4, <2>1 DEF ClearStatus, wheel, Debt, Missing
<1>5. CASE UNCHANGED <<wheel, status, isr, gpio_status, TempCount>>
    BY <1>0, <1>5 DEF wheel, Debt, Missing, Owed
<1>6. ASSUME NEW w \in Wheels, EncoderDelta(w) \/ EncoderTake(w) PROVE Debt(v)'
    BY <1>6, <1>5 DEF EncoderDelta, EncoderTake, handler
<1>7. CASE Measure
    BY <1>7, <1>5 DEF Measure, handler
<1>8. CASE UNCHANGED encoderVars
    BY <1>8, <1>5 DEF encoderVars, handler
<1> QED
    BY <1>1, <1>2, <1>3, <1>4, <1>6, <1>7, <1>8
    DEF EncoderNext, GROUP1_IRQHandler, ControlStep

\* The counts of the encoder interrupt are off by at most two for every quarter step
\* a wheel took before its last edge was counted, however often the other wheel
\* interrupts.
THEOREM CountErrorIsBounded == EncoderSpec => []CountErrorBounded
<1> DEFINE Debts == \A w \in Wheels : Debt(w)
<1>1. EncoderInit => Types /\ Debts
    <2> SUFFICES ASSUME EncoderInit, NEW w \in Wheels PROVE Debt(w)
        BY TypesInit
    <2>1. ~Owed(w) /\ edges[w] = 0 /\ TempCount[w] = 0 /\ slips[w] = 0
        BY DEF EncoderInit, Owed
    <2> QED
        BY <2>1 DEF Debt, Missing
<1>2. Types /\ Debts /\ [EncoderNext]_encoderVars => Types' /\ Debts'
    BY DebtStep, StepKeepsTypes
<1>3. Types /\ Debts => CountErrorBounded
    <2> SUFFICES ASSUME Types, Debts, NEW w \in Wheels, isr = 0, PinA(w) \notin status
                 PROVE  Magnitude(edges[w] - TempCount[w]) <= 2 * slips[w]
        BY DEF CountErrorBounded
    <2>1. ~Owed(w) /\ Debt(w)
        BY DEF Owed
    <2>2. edges[w] \in Int /\ TempCount[w] \in Int /\ slips[w] \in Nat
        BY DEF Types, WheelTypes, HandlerTypes
    <2> QED
        BY <2>1, <2>2 DEF Debt, Missing, Magnitude
<1> QED
    BY <1>1, <1>2, <1>3, PTL DEF EncoderSpec

================================================================================
