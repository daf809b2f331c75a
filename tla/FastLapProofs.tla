----------------------------- MODULE FastLapProofs -----------------------------
(***************************************************************************)
(* The 20 s lap for every value of its constants: type correctness, the two *)
(* final stops, the stop of a blind car, the soundness of the finish latch  *)
(* and the bound on the overshoot behind line A.                            *)
(***************************************************************************)
EXTENDS FastLap, TLAPS

(* What the assumptions on the constants give the arithmetic below.         *)
LEMMA ConstantFacts ==
    /\ TimeMod \in Nat /\ Horizon \in Nat /\ Horizon < TimeMod
    /\ BootMs \in Nat /\ BootMs <= Horizon
    /\ AfterLine \in Nat /\ AfterLine > 0
    /\ SearchStart \in Nat /\ Fallback \in Nat
    /\ StepCap \in Nat /\ StepCap > 0
    /\ ConfirmSamples \in Nat /\ ConfirmSamples > 0
    /\ GraceMs \in Nat /\ LostStopMs \in Nat /\ LostStopMs > 0 /\ GraceMs <= LostStopMs
    /\ MaxRunMs \in Nat /\ MaxRunMs > 0
    /\ MaxRoute \in Nat
    /\ Steps \subseteq Int
BY FastLapAssumption, TimeModAssumption, BootMsAssumption

(* A step is one of the actions, or changes nothing.                        *)
LEMMA NextCases ==
    ASSUME [Next]_vars
    PROVE  \/ Timer \/ Top \/ Sample \/ ControlIdle \/ StartLap
           \/ MeasureRoute \/ Track \/ Finish \/ UNCHANGED vars
BY DEF Next, Loop

LEMMA InitType == Init => TypeOK
<1> SUFFICES ASSUME Init PROVE TypeOK
  OBVIOUS
<1>1. {time, now_ms, last_1ms_sample, last_control_ms} \subseteq Clock
  <2>1. time \in 0 .. BootMs /\ now_ms = time /\ last_control_ms = time
        /\ last_1ms_sample = Elapsed(time, 1)
    BY DEF Init, ClockInit
  <2>2. time \in Clock /\ Elapsed(time, 1) \in Clock
    BY <2>1, ConstantFacts DEF Elapsed, Clock
  <2> QED
    BY <2>1, <2>2
<1>2. 0 \in Clock /\ 0 \in 0 .. MaxRoute /\ 0 \in 0 .. ConfirmSamples
  BY ConstantFacts DEF Clock
<1>3. stage = "top"
  BY DEF Init, ClockInit
<1> QED
  BY <1>1, <1>2, <1>3 DEF Init, TypeOK, Drives

LEMMA TimerType == TypeOK /\ Timer => TypeOK'
BY ConstantFacts
   DEF TypeOK, Timer, TimerTick, NextMs, Clock, lapVars, finishVars, history

LEMMA TopType == TypeOK /\ Top => TypeOK'
BY DEF TypeOK, Top, ReadClock, lapVars, finishVars, history

(* The scan is the only step that moves the hit counter and the latch.      *)
LEMMA ScanType ==
    ASSUME TypeOK, NEW wide \in BOOLEAN, Q2_Finish_Fast_Sample(wide),
           ~Q2_Finish_Latched => Q2_Finish_Hit_Count < ConfirmSamples
    PROVE  /\ Q2_Finish_Last_Sample' \in Clock
           /\ Q2_Finish_Hit_Count' \in 0 .. ConfirmSamples
           /\ Q2_Finish_Latched' \in BOOLEAN
           /\ Q2_Finish_Latched_Route_Distance' \in 0 .. MaxRoute
           /\ ~Q2_Finish_Latched' => Q2_Finish_Hit_Count' < ConfirmSamples
<1>1. CASE BeforeSearch
  BY <1>1, ConstantFacts DEF TypeOK, BeforeSearch
<1>2. CASE NoFurtherScan
  BY <1>2, ConstantFacts DEF TypeOK, NoFurtherScan, finishVars
<1>3. CASE Scan(wide)
  <2>1. /\ Q2_Finish_Hit_Count \in 0 .. ConfirmSamples
        /\ Q2_Finish_Hit_Count < ConfirmSamples
    BY <1>3 DEF TypeOK, Scan
  <2>2. Q2_Finish_Hit_Count' \in 0 .. ConfirmSamples
    <3>1. CASE wide
      BY <1>3, <2>1, <3>1, ConstantFacts DEF Scan
    <3>2. CASE ~wide
      BY <1>3, <3>2, ConstantFacts DEF Scan
    <3> QED
      BY <3>1, <3>2
  <2>3. CASE Q2_Finish_Hit_Count' >= ConfirmSamples
    BY <1>3, <2>2, <2>3, ConstantFacts DEF TypeOK, Scan
  <2>4. CASE ~(Q2_Finish_Hit_Count' >= ConfirmSamples)
    BY <1>3, <2>2, <2>4, ConstantFacts DEF TypeOK, Scan
  <2> QED
    BY <2>3, <2>4
<1> QED
  BY <1>1, <1>2, <1>3 DEF Q2_Finish_Fast_Sample

(* Until the latch is set the hit counter stays below the confirmation.     *)
HitsBelow == ~Q2_Finish_Latched => Q2_Finish_Hit_Count < ConfirmSamples

LEMMA SampleType == TypeOK /\ HitsBelow /\ Sample => TypeOK' /\ HitsBelow'
<1> SUFFICES ASSUME TypeOK, HitsBelow, Sample PROVE TypeOK' /\ HitsBelow'
  OBVIOUS
<1>1. CASE SampleDue
  <2>1. PICK wide \in BOOLEAN :
           /\ Q2_Finish_Fast_Sample(wide)
           /\ wide_streak' = IF wide /\ wide_streak < ConfirmSamples
                             THEN wide_streak + 1
                             ELSE IF wide THEN wide_streak ELSE 0
    BY <1>1 DEF Sample
  <2>2. wide_streak' \in 0 .. ConfirmSamples
    BY <2>1, ConstantFacts DEF TypeOK
  <2>3. last_1ms_sample' = now_ms /\ stage' = "control"
    BY <1>1 DEF Sample
  <2> QED
    BY <2>1, <2>2, <2>3, ScanType DEF TypeOK, HitsBelow, Sample, lapVars
<1>2. CASE ~SampleDue
  BY <1>2 DEF TypeOK, HitsBelow, Sample, lapVars, finishVars
<1> QED
  BY <1>1, <1>2

LEMMA ControlIdleType == TypeOK /\ ControlIdle => TypeOK'
BY DEF TypeOK, ControlIdle, lapVars, finishVars, history

LEMMA StartLapType == TypeOK /\ StartLap => TypeOK' /\ HitsBelow'
<1> SUFFICES ASSUME TypeOK, StartLap PROVE TypeOK' /\ HitsBelow'
  OBVIOUS
<1>1. 0 \in Clock /\ 0 \in 0 .. MaxRoute /\ 0 \in 0 .. ConfirmSamples
  BY ConstantFacts DEF Clock
<1>2. HitsBelow'
  BY ConstantFacts DEF HitsBelow, StartLap
<1> QED
  BY <1>1, <1>2 DEF TypeOK, StartLap, Drives, history

(* A counted step lengthens the route by 1 .. StepCap - 1.                  *)
LEMMA CountedRouteFact ==
    ASSUME TypeOK, NEW step \in Steps
    PROVE  /\ CountedRoute(step) \in Nat
           /\ CountedRoute(step) >= Q2_Route_Distance
           /\ CountedRoute(step) <= Q2_Route_Distance + StepCap - 1
BY ConstantFacts DEF TypeOK, CountedRoute

LEMMA MeasureRouteType == TypeOK /\ MeasureRoute => TypeOK'
<1> SUFFICES ASSUME TypeOK, MeasureRoute PROVE TypeOK'
  OBVIOUS
<1>1. Q2_Route_Distance' \in 0 .. MaxRoute
  BY CountedRouteFact, ConstantFacts DEF MeasureRoute
<1> QED
  BY <1>1 DEF TypeOK, MeasureRoute, finishVars, history

LEMMA TrackType == TypeOK /\ Track => TypeOK'
<1> SUFFICES ASSUME TypeOK, Track PROVE TypeOK'
  OBVIOUS
<1>1. PICK reading \in Readings :
         /\ IF reading = "none" THEN LoseLine ELSE FollowLine(reading)
         /\ blind_since' = IF reading # "none" THEN NotBlind
                           ELSE IF blind_since = NotBlind THEN time
                           ELSE blind_since
  BY DEF Track
<1>2. blind_since' \in Clock \cup {NotBlind} /\ track_time' \in Clock
  BY <1>1 DEF TypeOK, Track
<1>3. /\ Track_Lost' \in BOOLEAN
      /\ Track_Lost_Since' \in Clock
      /\ Track_Last_Direction' \in {-1, 1}
      /\ drive' \in Drives
  <2>1. CASE LoseLine
    BY <2>1 DEF LoseLine, TypeOK, Drives
  <2>2. CASE FollowLine(reading)
    BY <2>2 DEF FollowLine, DirectionAfter, TypeOK, Drives
  <2> QED
    BY <1>1, <2>1, <2>2
<1> QED
  BY <1>2, <1>3 DEF TypeOK, Track, finishVars

(* The four outcomes of the stop chain.                                     *)
LEMMA ChainResultFact ==
    /\ ChainResult \in {"none", "line", "fallback", "timeout"}
    /\ ChainResult = "line" <=> Coasted
    /\ ChainResult = "none" => ~Coasted /\ ~TimedOut
    /\ ChainResult = "timeout" => TimedOut
BY DEF ChainResult

LEMMA FinishType == TypeOK /\ Finish => TypeOK'
<1> SUFFICES ASSUME TypeOK, Finish PROVE TypeOK'
  OBVIOUS
<1>1. stop_coast' \in 0 .. MaxRoute
  <2>1. CASE stop_cause = "none" /\ ChainResult = "line"
    BY <2>1, ChainResultFact, ConstantFacts DEF TypeOK, Finish, Coasted
  <2>2. CASE ~(stop_cause = "none" /\ ChainResult = "line")
    BY <2>2 DEF TypeOK, Finish
  <2> QED
    BY <2>1, <2>2
<1>2. drive' \in Drives /\ stop_cause' \in {"none", "line", "fallback", "timeout"}
  BY ChainResultFact DEF TypeOK, Finish, Drives
<1> QED
  BY <1>1, <1>2 DEF TypeOK, Finish, lapVars, finishVars

(* The type invariant.  The hit counter needs HitsBelow: it is bounded only *)
(* because the latch stops the scan.                                        *)
THEOREM TypeCorrect == Spec => [](TypeOK /\ HitsBelow)
<1>1. Init => TypeOK /\ HitsBelow
  BY InitType, ConstantFacts DEF Init, HitsBelow
<1>2. TypeOK /\ HitsBelow /\ [Next]_vars => TypeOK' /\ HitsBelow'
  <2> SUFFICES ASSUME TypeOK, HitsBelow, [Next]_vars PROVE TypeOK' /\ HitsBelow'
    OBVIOUS
  <2>1. CASE Timer
    BY <2>1, TimerType DEF Timer, HitsBelow, finishVars
  <2>2. CASE Top
    BY <2>2, TopType DEF Top, HitsBelow, finishVars
  <2>3. CASE Sample
    BY <2>3, SampleType
  <2>4. CASE ControlIdle
    BY <2>4, ControlIdleType DEF ControlIdle, HitsBelow, finishVars
  <2>5. CASE StartLap
    BY <2>5, StartLapType
  <2>6. CASE MeasureRoute
    BY <2>6, MeasureRouteType DEF MeasureRoute, HitsBelow, finishVars
  <2>7. CASE Track
    BY <2>7, TrackType DEF Track, HitsBelow, finishVars
  <2>8. CASE Finish
    BY <2>8, FinishType DEF Finish, HitsBelow, finishVars
  <2>9. CASE UNCHANGED vars
    BY <2>9 DEF vars, clockVars, lapVars, finishVars, history, TypeOK, HitsBelow
  <2> QED
    BY <2>1, <2>2, <2>3, <2>4, <2>5, <2>6, <2>7, <2>8, <2>9, NextCases
<1> QED
  BY <1>1, <1>2, PTL DEF Spec

--------------------------------------------------------------------------------

(* The clock only moves forward within the horizon, and every time the      *)
(* program keeps was read from it.                                          *)
TimesInOrder ==
    /\ time <= Horizon
    /\ Q2_Run_Start_Time <= time
    /\ Track_Lost_Since <= time
    /\ track_time <= time

(* Only a started lap is tracked, stopped or blind.                         *)
StartedFirst ==
    /\ stage \in {"track", "finish"} => started
    /\ ~started => stop_cause = "none" /\ blind_since = NotBlind

(* The program's own record of the loss agrees with the row of empty        *)
(* readings.                                                                *)
LossIsRecorded ==
    IF blind_since = NotBlind THEN ~Track_Lost
    ELSE Track_Lost /\ Track_Lost_Since = blind_since

(* BlindCarStops between any two steps, not only at rest.                   *)
BlindIsOff ==
    blind_since # NotBlind /\ track_time - blind_since >= LostStopMs
        => drive = "off"

(* The condition that stopped the car for good still holds ...              *)
StopHolds ==
    /\ stop_cause = "line" => Coasted
    /\ stop_cause = "timeout" => TimedOut

(* ... and the wheels obey it at rest.                                      *)
StopIsObeyed == LineStopIsFinal /\ TimeoutStopIsFinal

(* The latched route is behind the car; hits are consecutive readings, the  *)
(* last of them taken by the last 1 ms stage.                               *)
LatchInOrder ==
    /\ Q2_Finish_Latched => Q2_Finish_Latched_Route_Distance <= Q2_Route_Distance
    /\ ~Q2_Finish_Latched => Q2_Finish_Hit_Count <= wide_streak
    /\ ~Q2_Finish_Latched /\ Q2_Finish_Hit_Count > 0 =>
           Q2_Finish_Last_Sample = last_1ms_sample

(* Before its first stop a latched car has at most one step beyond          *)
(* AfterLine, and none once the period is over.                             *)
CoastSoFar ==
    stop_cause = "none" /\ Q2_Finish_Latched =>
        Q2_Route_Distance - Q2_Finish_Latched_Route_Distance
            < AfterLine + (IF AtRest THEN 0 ELSE StepCap - 1)

(* The inductive invariant.                                                 *)
LapInv ==
    /\ TimesInOrder
    /\ StartedFirst
    /\ LossIsRecorded
    /\ BlindIsOff
    /\ StopHolds
    /\ StopIsObeyed
    /\ LatchInOrder
    /\ CoastSoFar
    /\ OvershootBounded

LEMMA InitLapInv == Init => LapInv
<1> SUFFICES ASSUME Init PROVE LapInv
  OBVIOUS
<1>1. TimesInOrder
  BY ConstantFacts DEF Init, ClockInit, TimesInOrder
<1>2. StartedFirst /\ LossIsRecorded /\ BlindIsOff /\ StopHolds /\ StopIsObeyed
  BY DEF Init, ClockInit, StartedFirst, LossIsRecorded, BlindIsOff, StopHolds,
         StopIsObeyed, LineStopIsFinal, TimeoutStopIsFinal
<1>3. LatchInOrder /\ CoastSoFar /\ OvershootBounded
  BY DEF Init, LatchInOrder, CoastSoFar, OvershootBounded
<1> QED
  BY <1>1, <1>2, <1>3 DEF LapInv

(* The timer only makes differences with earlier times larger.              *)
LEMMA TimerLapInv == TypeOK /\ LapInv /\ Timer => LapInv'
<1> SUFFICES ASSUME TypeOK, LapInv, Timer PROVE LapInv'
  OBVIOUS
<1> USE DEF lapVars, finishVars, history
<1>1. time' = time + 1 /\ time' <= Horizon /\ stage' = stage
  BY ConstantFacts DEF TypeOK, Clock, Timer, TimerTick, NextMs
<1>2. TimesInOrder'
  BY <1>1, ConstantFacts DEF LapInv, TimesInOrder, TypeOK, Clock, Timer
<1>3. StopHolds'
  <2>1. TimedOut => TimedOut'
    BY <1>1, ConstantFacts
       DEF LapInv, TimesInOrder, TypeOK, Clock, Timer, TimedOut, Elapsed
  <2> QED
    BY <2>1 DEF LapInv, StopHolds, Coasted, Timer
<1>4. StartedFirst' /\ LossIsRecorded' /\ BlindIsOff'
  BY <1>1 DEF LapInv, StartedFirst, LossIsRecorded, BlindIsOff, Timer
<1>5. StopIsObeyed'
  BY <1>1 DEF LapInv, StopIsObeyed, LineStopIsFinal, TimeoutStopIsFinal, AtRest, Timer
<1>6. LatchInOrder' /\ CoastSoFar' /\ OvershootBounded'
  BY <1>1 DEF LapInv, LatchInOrder, CoastSoFar, OvershootBounded, AtRest, Timer, TimerTick
<1> QED
  BY <1>2, <1>3, <1>4, <1>5, <1>6 DEF LapInv

(* A step from rest to rest that touches only the snapshots and the stage.  *)
LEMMA IdleLapInv ==
    ASSUME LapInv, AtRest, AtRest', time' = time,
           last_1ms_sample' = last_1ms_sample,
           UNCHANGED <<lapVars, finishVars, drive, history>>
    PROVE  LapInv'
<1> USE DEF lapVars, finishVars, history
<1>1. TimesInOrder' /\ StartedFirst' /\ LossIsRecorded' /\ BlindIsOff'
  BY DEF LapInv, TimesInOrder, StartedFirst, LossIsRecorded, BlindIsOff, AtRest
<1>2. StopHolds' /\ StopIsObeyed'
  BY DEF LapInv, StopHolds, Coasted, TimedOut, Elapsed, StopIsObeyed,
         LineStopIsFinal, TimeoutStopIsFinal, AtRest
<1>3. LatchInOrder' /\ CoastSoFar' /\ OvershootBounded'
  BY DEF LapInv, LatchInOrder, CoastSoFar, OvershootBounded, AtRest
<1> QED
  BY <1>1, <1>2, <1>3 DEF LapInv

(* A scan may set the latch, with nothing driven past it yet; it never      *)
(* touches a latch that is set.                                             *)
LEMMA ScanLapInv ==
    ASSUME TypeOK, HitsBelow, LapInv, NEW wide \in BOOLEAN,
           SampleDue, last_1ms_sample' = now_ms,
           Q2_Finish_Fast_Sample(wide),
           wide_streak' = IF wide /\ wide_streak < ConfirmSamples
                          THEN wide_streak + 1
                          ELSE IF wide THEN wide_streak ELSE 0,
           Q2_Route_Distance' = Q2_Route_Distance
    PROVE  /\ LatchInOrder'
           /\ Q2_Finish_Latched =>
                  UNCHANGED <<Q2_Finish_Latched, Q2_Finish_Latched_Route_Distance>>
           /\ ~Q2_Finish_Latched /\ Q2_Finish_Latched' =>
                  /\ wide_streak' = ConfirmSamples
                  /\ Q2_Finish_Latched_Route_Distance' = Q2_Route_Distance
                  /\ Q2_Route_Distance >= SearchStart
<1>1. /\ Q2_Finish_Hit_Count \in 0 .. ConfirmSamples
      /\ wide_streak \in 0 .. ConfirmSamples
      /\ Q2_Route_Distance \in Nat
  BY ConstantFacts DEF TypeOK
<1>2. wide_streak' \in Nat
  BY <1>1, ConstantFacts
<1>3. CASE BeforeSearch
  BY <1>1, <1>2, <1>3, ConstantFacts DEF BeforeSearch, LapInv, LatchInOrder
<1>4. CASE NoFurtherScan /\ Q2_Finish_Latched
  BY <1>4 DEF NoFurtherScan, finishVars, LapInv, LatchInOrder
<1>5. CASE NoFurtherScan /\ ~Q2_Finish_Latched
  <2>1. Q2_Finish_Hit_Count = 0
    BY <1>1, <1>5 DEF NoFurtherScan, SampleDue, LapInv, LatchInOrder
  <2> QED
    BY <1>2, <1>5, <2>1 DEF NoFurtherScan, finishVars, LatchInOrder
<1>6. CASE Scan(wide)
  <2>1. Q2_Finish_Hit_Count <= wide_streak /\ Q2_Finish_Hit_Count < ConfirmSamples
    BY <1>6 DEF Scan, LapInv, LatchInOrder, HitsBelow
  <2>2. Q2_Finish_Hit_Count' <= wide_streak' /\ Q2_Finish_Hit_Count' \in Int
        /\ wide_streak' <= ConfirmSamples
    <3>1. CASE wide
      BY <1>1, <1>6, <2>1, <3>1, ConstantFacts DEF Scan
    <3>2. CASE ~wide
      BY <1>1, <1>6, <2>1, <3>2, ConstantFacts DEF Scan
    <3> QED
      BY <3>1, <3>2
  <2>3. CASE Q2_Finish_Hit_Count' >= ConfirmSamples
    BY <1>1, <1>2, <1>6, <2>2, <2>3, ConstantFacts DEF Scan, LatchInOrder
  <2>4. CASE ~(Q2_Finish_Hit_Count' >= ConfirmSamples)
    BY <1>6, <2>2, <2>4 DEF Scan, LatchInOrder
  <2> QED
    BY <2>3, <2>4
<1> QED
  BY <1>3, <1>4, <1>5, <1>6 DEF Q2_Finish_Fast_Sample

(* The 1 ms stage leaves the lap alone but for the latch.                   *)
LEMMA SampleLapInv == TypeOK /\ HitsBelow /\ LapInv /\ Sample => LapInv'
<1> SUFFICES ASSUME TypeOK, HitsBelow, LapInv, Sample PROVE LapInv'
  OBVIOUS
<1> USE DEF lapVars
<1>1. CASE ~SampleDue
  <2>1. AtRest /\ AtRest'
    BY DEF Sample, AtRest
  <2> QED
    BY <1>1, <2>1, IdleLapInv DEF Sample, history
<1>2. CASE SampleDue
  <2>1. PICK wide \in BOOLEAN :
           /\ Q2_Finish_Fast_Sample(wide)
           /\ wide_streak' = IF wide /\ wide_streak < ConfirmSamples
                             THEN wide_streak + 1
                             ELSE IF wide THEN wide_streak ELSE 0
    BY <1>2 DEF Sample
  <2>2. last_1ms_sample' = now_ms /\ Q2_Route_Distance' = Q2_Route_Distance
    BY <1>2 DEF Sample
  <2>3. /\ LatchInOrder'
        /\ Q2_Finish_Latched =>
               UNCHANGED <<Q2_Finish_Latched, Q2_Finish_Latched_Route_Distance>>
        /\ ~Q2_Finish_Latched /\ Q2_Finish_Latched' =>
               Q2_Finish_Latched_Route_Distance' = Q2_Route_Distance
    BY <1>2, <2>1, <2>2, ScanLapInv
  <2>4. AtRest /\ AtRest'
    BY DEF Sample, AtRest
  <2>5. TimesInOrder' /\ StartedFirst' /\ LossIsRecorded' /\ BlindIsOff'
        /\ OvershootBounded'
    BY <2>4 DEF LapInv, TimesInOrder, StartedFirst, LossIsRecorded, BlindIsOff,
                OvershootBounded, Sample, AtRest
  <2>6. StopHolds' /\ StopIsObeyed'
    BY <2>3, <2>4 DEF LapInv, StopHolds, Coasted, TimedOut, StopIsObeyed,
                      LineStopIsFinal, TimeoutStopIsFinal, Sample
  <2>7. CoastSoFar'
    <3>1. CASE Q2_Finish_Latched
      BY <2>3, <2>4, <3>1 DEF LapInv, CoastSoFar, Sample
    <3>2. CASE ~Q2_Finish_Latched
      BY <2>2, <2>3, <2>4, <3>2, ConstantFacts DEF TypeOK, CoastSoFar
    <3> QED
      BY <3>1, <3>2
  <2> QED
    BY <2>3, <2>5, <2>6, <2>7 DEF LapInv
<1> QED
  BY <1>1, <1>2

(* The first entry finds no stop and no blind row, and resets the rest.     *)
LEMMA StartLapLapInv == TypeOK /\ LapInv /\ StartLap => LapInv'
<1> SUFFICES ASSUME TypeOK, LapInv, StartLap PROVE LapInv'
  OBVIOUS
<1> USE DEF history
<1>1. stop_cause' = "none" /\ blind_since' = NotBlind /\ ~AtRest'
  BY DEF LapInv, StartedFirst, StartLap, AtRest
<1>2. TimesInOrder'
  BY ConstantFacts DEF LapInv, TimesInOrder, TypeOK, Clock, StartLap
<1>3. StartedFirst' /\ LossIsRecorded' /\ BlindIsOff' /\ StopHolds' /\ StopIsObeyed'
  BY <1>1 DEF StartedFirst, LossIsRecorded, BlindIsOff, StopHolds, StopIsObeyed,
              LineStopIsFinal, TimeoutStopIsFinal, StartLap
<1>4. LatchInOrder' /\ CoastSoFar' /\ OvershootBounded'
  BY <1>1, ConstantFacts
     DEF TypeOK, LatchInOrder, CoastSoFar, OvershootBounded, StartLap
<1> QED
  BY <1>2, <1>3, <1>4 DEF LapInv

(* The route only grows, by less than StepCap.                              *)
LEMMA MeasureRouteLapInv == TypeOK /\ LapInv /\ MeasureRoute => LapInv'
<1> SUFFICES ASSUME TypeOK, LapInv, MeasureRoute PROVE LapInv'
  OBVIOUS
<1> USE DEF finishVars, history
<1>1. /\ Q2_Route_Distance' \in Nat
      /\ Q2_Route_Distance' >= Q2_Route_Distance
      /\ Q2_Route_Distance' <= Q2_Route_Distance + StepCap - 1
  BY CountedRouteFact DEF MeasureRoute
<1>2. Q2_Route_Distance \in Int /\ Q2_Finish_Latched_Route_Distance \in Int
      /\ stop_coast \in Int
  BY ConstantFacts DEF TypeOK
<1>3. AtRest /\ ~AtRest'
  BY DEF MeasureRoute, AtRest
<1>4. TimesInOrder' /\ StartedFirst' /\ LossIsRecorded' /\ BlindIsOff'
      /\ OvershootBounded'
  BY DEF LapInv, TimesInOrder, StartedFirst, LossIsRecorded, BlindIsOff,
         OvershootBounded, MeasureRoute
<1>5. Coasted => Coasted'
  BY <1>1, <1>2, ConstantFacts DEF Coasted, MeasureRoute
<1>6. StopHolds' /\ StopIsObeyed'
  BY <1>3, <1>5 DEF LapInv, StopHolds, TimedOut, StopIsObeyed, LineStopIsFinal,
                    TimeoutStopIsFinal, MeasureRoute
<1>7. LatchInOrder' /\ CoastSoFar'
  BY <1>1, <1>2, <1>3, ConstantFacts DEF LapInv, LatchInOrder, CoastSoFar, MeasureRoute
<1> QED
  BY <1>4, <1>6, <1>7 DEF LapInv

(* Run_Track is where a loss begins, lasts and ends.                        *)
LEMMA TrackLapInv == TypeOK /\ LapInv /\ Track => LapInv'
<1> SUFFICES ASSUME TypeOK, LapInv, Track PROVE LapInv'
  OBVIOUS
<1> USE DEF finishVars
<1>1. PICK reading \in Readings :
         /\ IF reading = "none" THEN LoseLine ELSE FollowLine(reading)
         /\ blind_since' = IF reading # "none" THEN NotBlind
                           ELSE IF blind_since = NotBlind THEN time
                           ELSE blind_since
  BY DEF Track
<1>2. ~AtRest /\ ~AtRest' /\ started /\ started' = started
  BY DEF Track, AtRest, LapInv, StartedFirst
<1>3. time \in Nat /\ time' = time /\ track_time' = time
      /\ Track_Lost_Since \in Nat
  BY ConstantFacts DEF TypeOK, Clock, Track
<1>4. TimesInOrder' /\ LossIsRecorded' /\ BlindIsOff'
  <2>1. CASE reading = "none"
    <3>1. LoseLine
      BY <1>1, <2>1
    <3>2. Track_Lost' /\ Track_Lost_Since' = blind_since' /\ blind_since' <= time
          /\ blind_since' # NotBlind /\ blind_since' \in Nat
      BY <1>1, <1>3, <2>1, <3>1, ConstantFacts
         DEF LoseLine, LapInv, LossIsRecorded, TimesInOrder, TypeOK, Clock, NotBlind
    <3>3. BlindIsOff'
      <4> DEFINE since == IF Track_Lost THEN Track_Lost_Since ELSE time
      <4>1. since = blind_since'
        BY <3>1, <3>2 DEF LoseLine
      <4>2. LostMs(since) = time - blind_since'
        BY <1>3, <3>2, <4>1 DEF LostMs, Elapsed
      <4>3. LostMs(since) >= LostStopMs => ~(LostMs(since) < GraceMs)
        BY <1>3, <3>2, <4>2, ConstantFacts
      <4>4. LostMs(since) >= LostStopMs => drive' = "off"
        BY <3>1, <4>3 DEF LoseLine
      <4> QED
        BY <1>3, <4>2, <4>4 DEF BlindIsOff
    <3>4. TimesInOrder'
      BY <1>3, <3>2 DEF LapInv, TimesInOrder, Track
    <3> QED
      BY <3>2, <3>3, <3>4 DEF LossIsRecorded
  <2>2. CASE reading # "none"
    BY <1>1, <1>3, <2>2
       DEF FollowLine, LapInv, LossIsRecorded, BlindIsOff, TimesInOrder, Track
  <2> QED
    BY <2>1, <2>2
<1>5. StartedFirst' /\ StopHolds' /\ StopIsObeyed'
  BY <1>2, <1>3 DEF LapInv, StartedFirst, StopHolds, Coasted, TimedOut,
                    StopIsObeyed, LineStopIsFinal, TimeoutStopIsFinal, Track
<1>6. LatchInOrder' /\ CoastSoFar' /\ OvershootBounded'
  BY <1>2 DEF LapInv, LatchInOrder, CoastSoFar, OvershootBounded, Track
<1> QED
  BY <1>4, <1>5, <1>6 DEF LapInv

(* The stop chain brings the car to rest: a condition that held once holds  *)
(* again and stops the car again.                                           *)
LEMMA FinishLapInv == TypeOK /\ LapInv /\ Finish => LapInv'
<1> SUFFICES ASSUME TypeOK, LapInv, Finish PROVE LapInv'
  OBVIOUS
<1> USE DEF lapVars, finishVars
<1>1. ~AtRest /\ AtRest' /\ started /\ started' = started
  BY DEF Finish, AtRest, LapInv, StartedFirst
<1>2. TimesInOrder' /\ StartedFirst' /\ LossIsRecorded' /\ BlindIsOff'
  BY <1>1 DEF LapInv, TimesInOrder, StartedFirst, LossIsRecorded, BlindIsOff, Finish
<1>3. (Coasted' <=> Coasted) /\ (TimedOut' <=> TimedOut)
  BY DEF Finish, Coasted, TimedOut, Elapsed
<1>4. StopHolds'
  BY <1>3, ChainResultFact DEF LapInv, StopHolds, Finish
<1>5. StopIsObeyed'
  <2>1. Coasted \/ TimedOut => drive' = "off"
    BY ChainResultFact DEF Finish
  <2> QED
    BY <1>3, <1>4, <2>1 DEF StopHolds, StopIsObeyed, LineStopIsFinal, TimeoutStopIsFinal
<1>6. LatchInOrder'
  BY DEF LapInv, LatchInOrder, Finish
<1>7. CoastSoFar' /\ OvershootBounded'
  <2>1. Q2_Route_Distance \in Int /\ Q2_Finish_Latched_Route_Distance \in Int
    BY ConstantFacts DEF TypeOK
  <2>2. CASE stop_cause # "none"
    BY <2>2 DEF LapInv, CoastSoFar, OvershootBounded, Finish
  <2>3. CASE stop_cause = "none" /\ ChainResult = "line"
    BY <1>1, <2>1, <2>3, ChainResultFact, ConstantFacts
       DEF LapInv, CoastSoFar, OvershootBounded, Finish, Coasted
  <2>4. CASE stop_cause = "none" /\ ChainResult # "line"
    BY <1>1, <2>1, <2>4, ChainResultFact, ConstantFacts
       DEF LapInv, CoastSoFar, OvershootBounded, Finish, Coasted
  <2> QED
    BY <2>2, <2>3, <2>4
<1> QED
  BY <1>2, <1>4, <1>5, <1>6, <1>7 DEF LapInv

LEMMA LapInvInductive == Spec => [](TypeOK /\ HitsBelow /\ LapInv)
<1>1. TypeOK /\ HitsBelow /\ LapInv /\ [Next]_vars => LapInv'
  <2> SUFFICES ASSUME TypeOK, HitsBelow, LapInv, [Next]_vars PROVE LapInv'
    OBVIOUS
  <2>1. CASE Timer
    BY <2>1, TimerLapInv
  <2>2. CASE Top
    BY <2>2, IdleLapInv DEF Top, ReadClock, AtRest
  <2>3. CASE Sample
    BY <2>3, SampleLapInv
  <2>4. CASE ControlIdle
    BY <2>4, IdleLapInv DEF ControlIdle, AtRest
  <2>5. CASE StartLap
    BY <2>5, StartLapLapInv
  <2>6. CASE MeasureRoute
    BY <2>6, MeasureRouteLapInv
  <2>7. CASE Track
    BY <2>7, TrackLapInv
  <2>8. CASE Finish
    BY <2>8, FinishLapInv
  <2>9. CASE UNCHANGED vars
    BY <2>9 DEF vars, clockVars, lapVars, finishVars, history, LapInv,
                TimesInOrder, StartedFirst, LossIsRecorded, BlindIsOff, StopHolds,
                Coasted, TimedOut, Elapsed, StopIsObeyed, LineStopIsFinal,
                TimeoutStopIsFinal, LatchInOrder, CoastSoFar, OvershootBounded, AtRest
  <2> QED
    BY <2>1, <2>2, <2>3, <2>4, <2>5, <2>6, <2>7, <2>8, <2>9, NextCases
<1> QED
  BY <1>1, InitLapInv, TypeCorrect, PTL DEF Spec

--------------------------------------------------------------------------------

(* Behind line A the car stays stopped, whatever the sensors, the encoders  *)
(* and the timer do afterwards (empty.c: the first branch of the chain).    *)
THEOREM LineStopFinal == Spec => []LineStopIsFinal
<1>1. LapInv => LineStopIsFinal
  BY DEF LapInv, StopIsObeyed
<1> QED
  BY <1>1, LapInvInductive, PTL

(* The same for the 20 s limit.                                             *)
THEOREM TimeoutStopFinal == Spec => []TimeoutStopIsFinal
<1>1. LapInv => TimeoutStopIsFinal
  BY DEF LapInv, StopIsObeyed
<1> QED
  BY <1>1, LapInvInductive, PTL

(* A car whose readings have all been empty for TRACK_LOST_STOP_MS stands.  *)
THEOREM BlindCarStopsAlways == Spec => []BlindCarStops
<1>1. LapInv => BlindCarStops
  BY DEF LapInv, BlindIsOff, BlindCarStops
<1> QED
  BY <1>1, LapInvInductive, PTL

(* The stop behind line A comes within one counted step of AfterLine.       *)
THEOREM OvershootIsBounded == Spec => []OvershootBounded
<1>1. LapInv => OvershootBounded
  BY DEF LapInv
<1> QED
  BY <1>1, LapInvInductive, PTL

(* The latch is set by ConfirmSamples consecutive wide readings in the      *)
(* search zone and records where that was.                                  *)
THEOREM LatchConfirmed == Spec => LatchIsConfirmed
<1>1. TypeOK /\ HitsBelow /\ LapInv /\ [Next]_vars =>
        [~Q2_Finish_Latched /\ Q2_Finish_Latched' =>
            /\ wide_streak' = ConfirmSamples
            /\ Q2_Finish_Latched_Route_Distance' = Q2_Route_Distance
            /\ Q2_Route_Distance >= SearchStart]_vars
  <2> SUFFICES ASSUME TypeOK, HitsBelow, LapInv, [Next]_vars,
                      ~Q2_Finish_Latched, Q2_Finish_Latched'
               PROVE  /\ wide_streak' = ConfirmSamples
                      /\ Q2_Finish_Latched_Route_Distance' = Q2_Route_Distance
                      /\ Q2_Route_Distance >= SearchStart
    OBVIOUS
  <2>1. Sample
    BY NextCases DEF Timer, Top, ControlIdle, StartLap, MeasureRoute, Track, Finish,
                     vars, finishVars
  <2>2. SampleDue
    BY <2>1 DEF Sample, finishVars
  <2>3. PICK wide \in BOOLEAN :
           /\ Q2_Finish_Fast_Sample(wide)
           /\ wide_streak' = IF wide /\ wide_streak < ConfirmSamples
                             THEN wide_streak + 1
                             ELSE IF wide THEN wide_streak ELSE 0
    BY <2>1, <2>2 DEF Sample
  <2>4. last_1ms_sample' = now_ms /\ Q2_Route_Distance' = Q2_Route_Distance
    BY <2>1, <2>2 DEF Sample, lapVars
  <2> QED
    BY <2>2, <2>3, <2>4, ScanLapInv
<1> QED
  BY <1>1, LapInvInductive, PTL DEF Spec, LatchIsConfirmed

--------------------------------------------------------------------------------
(* Refinement of Lap.                                                       *)

(* Before the lap and after its end the wheels are off, or about to be.     *)
OffUnlessRunning == Phase # "running" => Wheels = "off"

(* How the phase moves: the first entry begins the lap with the wheels off, *)
(* the stop chain ends it, and an end is never taken back.                  *)
PhaseMoves ==
    \/ Phase' = Phase
    \/ Phase = "ready" /\ Phase' = "running" /\ Wheels' = "off"
    \/ Phase = "running" /\ Phase' = "ended"

LEMMA PhaseFact == LapInv /\ [Next]_vars => PhaseMoves
<1> SUFFICES ASSUME LapInv, [Next]_vars PROVE PhaseMoves
  OBVIOUS
<1> USE DEF PhaseMoves, Phase, history
<1>1. CASE StartLap
  BY <1>1 DEF StartLap, LapInv, StartedFirst, Wheels
<1>2. CASE Finish
  BY <1>2, ChainResultFact DEF Finish, LapInv, StartedFirst, lapVars
<1>3. CASE Timer \/ Top \/ Sample \/ ControlIdle \/ MeasureRoute \/ Track
  BY <1>3 DEF Timer, Top, Sample, ControlIdle, MeasureRoute, Track, lapVars
<1>4. CASE UNCHANGED vars
  BY <1>4 DEF vars, lapVars
<1> QED
  BY <1>1, <1>2, <1>3, <1>4, NextCases

(* In the stages at rest an ended car is stopped by StopIsObeyed, between   *)
(* Run_Track and the stop chain by the condition that holds still.          *)
LEMMA OffInductive ==
    LapInv /\ LapInv' /\ OffUnlessRunning /\ [Next]_vars => OffUnlessRunning'
<1> SUFFICES ASSUME LapInv, LapInv', OffUnlessRunning, [Next]_vars,
                    Phase' # "running"
             PROVE  Wheels' = "off"
  BY DEF OffUnlessRunning
<1> USE DEF Phase, Wheels, history
<1>1. stage' = "finish" => Wheels' = "off"
  <2>1. ChainResult' = "none" => ~Coasted' /\ ~TimedOut'
    BY DEF ChainResult
  <2> QED
    BY <2>1 DEF LapInv, StartedFirst, StopHolds
<1>2. AtRest' /\ started' => drive' = "off"
  BY DEF LapInv, StopIsObeyed, LineStopIsFinal, TimeoutStopIsFinal
<1>3. CASE Timer \/ Top \/ Sample \/ ControlIdle
  <2>1. UNCHANGED <<started, drive, stop_cause>> /\ (stage' # "finish" => stage # "finish")
    BY <1>3 DEF Timer, TimerTick, Top, ReadClock, Sample, ControlIdle, lapVars
  <2>2. Phase' = Phase
    BY <2>1
  <2> QED
    BY <1>1, <2>1, <2>2 DEF OffUnlessRunning
<1>4. CASE StartLap
  BY <1>4 DEF StartLap
<1>5. CASE MeasureRoute
  BY <1>5 DEF MeasureRoute, OffUnlessRunning
<1>6. CASE Track
  BY <1>1, <1>6 DEF Track
<1>7. CASE Finish
  <2>1. started' /\ AtRest'
    BY <1>7 DEF Finish, LapInv, StartedFirst, lapVars, AtRest
  <2> QED
    BY <1>2, <2>1
<1>8. CASE UNCHANGED vars
  <2>1. stage' = stage /\ drive' = drive /\ Phase' = Phase
    BY <1>8 DEF vars, clockVars, lapVars
  <2> QED
    BY <1>1, <2>1 DEF OffUnlessRunning
<1> QED
  BY <1>3, <1>4, <1>5, <1>6, <1>7, <1>8, NextCases

(* The 20 s question implements the abstract lap: once it has ended, behind *)
(* line A or by the time limit, no later period drives (empty.c:951-972).   *)
THEOREM LapRefined == Spec => RefinesLap
<1>1. Init => L!Init /\ OffUnlessRunning
  BY DEF Init, L!Init, Phase, Wheels, OffUnlessRunning
<1>2. /\ LapInv /\ OffUnlessRunning /\ OffUnlessRunning' /\ [Next]_vars
      => [L!Next]_(L!lap)
  <2> SUFFICES ASSUME LapInv, OffUnlessRunning, OffUnlessRunning', [Next]_vars
               PROVE  [L!Next]_(L!lap)
    OBVIOUS
  <2> USE DEF L!Next, L!Begin, L!Drive, L!End, L!lap
  <2>1. Wheels \in {"on", "off"} /\ Wheels' \in {"on", "off"}
    BY DEF Wheels
  <2>2. Phase \in {"ready", "running", "ended"}
    BY DEF Phase
  <2>3. CASE Phase' = Phase
    BY <2>1, <2>3 DEF OffUnlessRunning
  <2>4. CASE Phase = "ready" /\ Phase' = "running" /\ Wheels' = "off"
    BY <2>4
  <2>5. CASE Phase = "running" /\ Phase' = "ended"
    BY <2>5 DEF OffUnlessRunning
  <2> QED
    BY <2>3, <2>4, <2>5, PhaseFact DEF PhaseMoves
<1>3. LapInv /\ LapInv' /\ OffUnlessRunning /\ [Next]_vars => OffUnlessRunning'
  BY OffInductive
<1> QED
  BY <1>1, <1>2, <1>3, LapInvInductive, PTL DEF Spec, RefinesLap, L!Spec

--------------------------------------------------------------------------------

(* The remembered direction points to the side of the last reading, and     *)
(* before the lap nothing has been read.                                    *)
SideKept ==
    /\ last_seen = "right" => Track_Last_Direction = 1
    /\ last_seen = "left" => Track_Last_Direction = -1
    /\ ~started => last_seen = "either"
    /\ SearchesWhereLineWent

LEMMA TrackSideKept == LapInv /\ SideKept /\ Track => SideKept'
<1> SUFFICES ASSUME LapInv, SideKept, Track PROVE SideKept'
  OBVIOUS
<1>1. PICK reading \in Readings :
         /\ IF reading = "none" THEN LoseLine ELSE FollowLine(reading)
         /\ last_seen' = IF reading = "none" THEN last_seen
                         ELSE IF reading \in {"left", "right"} THEN reading
                         ELSE "either"
  BY DEF Track
<1>2. started /\ started' = started
  BY DEF Track, LapInv, StartedFirst
<1>3. CASE reading = "none"
  <2>1. LoseLine /\ last_seen' = last_seen
    BY <1>1, <1>3
  <2>2. Track_Last_Direction' = Track_Last_Direction
    BY <2>1 DEF LoseLine
  <2>3. /\ drive' = "search_left" => ~(Track_Last_Direction > 0)
        /\ drive' = "search_right" => Track_Last_Direction > 0
    BY <2>1 DEF LoseLine
  <2> QED
    BY <1>2, <2>1, <2>2, <2>3 DEF SideKept, SearchesWhereLineWent
<1>4. CASE reading = "left"
  BY <1>1, <1>2, <1>4
     DEF FollowLine, DirectionAfter, SideKept, SearchesWhereLineWent
<1>5. CASE reading = "right"
  BY <1>1, <1>2, <1>5
     DEF FollowLine, DirectionAfter, SideKept, SearchesWhereLineWent
<1>6. CASE reading \in {"mid", "wide"}
  <2>1. last_seen' = "either" /\ drive' = "follow"
    BY <1>1, <1>6 DEF FollowLine
  <2> QED
    BY <1>2, <2>1 DEF SideKept, SearchesWhereLineWent
<1> QED
  BY <1>3, <1>4, <1>5, <1>6 DEF Readings

(* A lost line is searched on the side where it was last seen.              *)
THEOREM SearchSideRight == Spec => []SearchesWhereLineWent
<1>1. Init => SideKept
  BY DEF Init, SideKept, SearchesWhereLineWent
<1>2. TypeOK /\ LapInv /\ SideKept /\ [Next]_vars => SideKept'
  <2> SUFFICES ASSUME LapInv, SideKept, [Next]_vars PROVE SideKept'
    OBVIOUS
  <2> USE DEF SideKept, SearchesWhereLineWent
  <2>1. CASE Timer
    BY <2>1 DEF Timer, lapVars, history
  <2>2. CASE Top
    BY <2>2 DEF Top, lapVars, history
  <2>3. CASE Sample
    BY <2>3 DEF Sample, lapVars
  <2>4. CASE ControlIdle
    BY <2>4 DEF ControlIdle, lapVars, history
  <2>5. CASE StartLap
    BY <2>5 DEF StartLap, history
  <2>6. CASE MeasureRoute
    BY <2>6 DEF MeasureRoute, history
  <2>7. CASE Track
    BY <2>7, TrackSideKept
  <2>8. CASE Finish
    <3>1. drive' = drive \/ drive' = "off"
      BY <2>8 DEF Finish
    <3> QED
      BY <2>8, <3>1 DEF Finish, lapVars
  <2>9. CASE UNCHANGED vars
    BY <2>9 DEF vars, lapVars, history
  <2> QED
    BY <2>1, <2>2, <2>3, <2>4, <2>5, <2>6, <2>7, <2>8, <2>9, NextCases
<1>3. SideKept => SearchesWhereLineWent
  BY DEF SideKept
<1> QED
  BY <1>1, <1>2, <1>3, LapInvInductive, PTL DEF Spec

================================================================================
