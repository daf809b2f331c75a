---------------------------- MODULE StableLapProofs ----------------------------
(***************************************************************************)
(* The 30 s lap for every value of its constants: the stop is final, full   *)
(* speed comes back only after a confirmed line, the route counts no        *)
(* distance of a search, a search turns to both sides, and a silent gyro is *)
(* dropped.  None of these depends on how a reading is resolved to a        *)
(* position, so Value stays unexpanded there.  The second half is about the *)
(* resolving itself: the loop of the code computes the choice LinePosition  *)
(* describes, a choice that treats left and right alike and stays between   *)
(* the outermost channels, whence the lap's type correctness.               *)
(***************************************************************************)
EXTENDS StableLap, ResolveLoop, FiniteSetTheorems, TLAPS

LEMMA ConstantFacts ==
    /\ TimeMod \in Nat /\ Horizon \in Nat /\ Horizon < TimeMod
    /\ BootMs \in Nat /\ BootMs <= Horizon
    /\ ReacquireCount \in Nat /\ ReacquireCount > 0
    /\ FinishRoute \in Nat /\ FinishRoute > 0
    /\ MaxRunMs \in Nat /\ MaxRunMs > 0
    /\ StepCap \in Nat
    /\ Steps \subseteq Int
BY StableLapAssumption, TimeModAssumption, BootMsAssumption

LEMMA NextCases ==
    ASSUME [Next]_vars
    PROVE  \/ Timer \/ GyroFrame \/ Top \/ Sample \/ ControlIdle \/ StartLap
           \/ MeasureRoute \/ Track \/ Finish \/ UNCHANGED vars
BY DEF Next, Loop

--------------------------------------------------------------------------------
(* Stops.                                                                   *)

(* The clock only moves forward within the horizon; the route never shrinks.*)
LapType ==
    /\ time \in Nat /\ time <= Horizon
    /\ Stable30_Run_Start_Time \in Nat /\ Stable30_Run_Start_Time <= time
    /\ Stable30_Route_Distance \in Nat
    /\ stage \in {"track", "finish"} => started
    /\ ~started => stop_cause = "none"
    /\ stop_cause \in {"none", "passed", "timeout"}

(* The condition that stopped the car still holds, and it is obeyed.        *)
StopInv ==
    /\ LapType
    /\ stop_cause = "passed" => Passed
    /\ stop_cause = "timeout" => TimedOut
    /\ StopIsFinal

(* A step between two stages that leaves the lap alone.                     *)
LEMMA IdleStopInv ==
    ASSUME StopInv, AtRest, AtRest',
           UNCHANGED <<time, started, route, drive, stop_cause>>
    PROVE  StopInv'
BY DEF StopInv, LapType, Passed, TimedOut, Elapsed, StopIsFinal, AtRest, route

LEMMA TimerStopInv == StopInv /\ Timer => StopInv'
<1> SUFFICES ASSUME StopInv, Timer PROVE StopInv'
  OBVIOUS
<1> USE DEF route, history
<1>1. time' = time + 1 /\ time' <= Horizon /\ stage' = stage
  BY ConstantFacts DEF StopInv, LapType, Timer, TimerTick, NextMs
<1>2. LapType'
  BY <1>1, ConstantFacts DEF StopInv, LapType, Timer
<1>3. (Passed => Passed') /\ (TimedOut => TimedOut')
  BY <1>1, ConstantFacts DEF StopInv, LapType, Passed, TimedOut, Elapsed, Timer
<1> QED
  BY <1>1, <1>2, <1>3 DEF StopInv, StopIsFinal, AtRest, Timer

LEMMA CountedRouteFact ==
    ASSUME LapType, NEW step \in Steps
    PROVE  /\ CountedRoute(step) \in Nat
           /\ CountedRoute(step) >= Stable30_Route_Distance
BY ConstantFacts DEF LapType, CountedRoute

LEMMA MeasureStopInv == StopInv /\ MeasureRoute => StopInv'
<1> SUFFICES ASSUME StopInv, MeasureRoute PROVE StopInv'
  OBVIOUS
<1> USE DEF history
<1>1. /\ Stable30_Route_Distance' \in Nat
      /\ Stable30_Route_Distance' >= Stable30_Route_Distance
  BY CountedRouteFact DEF MeasureRoute, StopInv
<1>2. LapType'
  BY <1>1 DEF StopInv, LapType, MeasureRoute
<1>3. (Passed => Passed') /\ (TimedOut => TimedOut')
  BY <1>1, ConstantFacts DEF StopInv, LapType, Passed, TimedOut, Elapsed, MeasureRoute
<1>4. ~AtRest'
  BY DEF MeasureRoute, AtRest
<1> QED
  BY <1>2, <1>3, <1>4 DEF StopInv, StopIsFinal, MeasureRoute

LEMMA StartStopInv == StopInv /\ StartLap => StopInv'
<1> SUFFICES ASSUME StopInv, StartLap PROVE StopInv'
  OBVIOUS
<1>1. LapType' /\ stop_cause' = "none"
  BY DEF StopInv, LapType, StartLap, history
<1> QED
  BY <1>1 DEF StopInv, StopIsFinal

LEMMA TrackStopInv == StopInv /\ Track => StopInv'
<1> SUFFICES ASSUME StopInv, Track PROVE StopInv'
  OBVIOUS
<1>1. LapType' /\ ~AtRest'
  BY DEF StopInv, LapType, Track, route, AtRest
<1>2. (Passed => Passed') /\ (TimedOut => TimedOut') /\ stop_cause' = stop_cause
  BY DEF Passed, TimedOut, Elapsed, Track, route
<1> QED
  BY <1>1, <1>2 DEF StopInv, StopIsFinal

(* A condition that held once holds again and stops the car again.          *)
LEMMA FinishStopInv == StopInv /\ Finish => StopInv'
<1> SUFFICES ASSUME StopInv, Finish PROVE StopInv'
  OBVIOUS
<1>1. LapType'
  BY DEF StopInv, LapType, Finish, route
<1>2. (Passed' <=> Passed) /\ (TimedOut' <=> TimedOut)
  BY DEF Passed, TimedOut, Elapsed, Finish, route
<1>3. Passed \/ TimedOut => drive' = "off"
  BY DEF Finish
<1>4. /\ stop_cause' = "passed" => Passed
      /\ stop_cause' = "timeout" => TimedOut
  BY DEF Finish, StopInv
<1> QED
  BY <1>1, <1>2, <1>3, <1>4 DEF StopInv, StopIsFinal, LapType

LEMMA StopInvInductive == Spec => []StopInv
<1>1. Init => StopInv
  BY ConstantFacts DEF Init, ClockInit, StopInv, LapType, StopIsFinal, Passed, TimedOut
<1>2. StopInv /\ [Next]_vars => StopInv'
  <2> SUFFICES ASSUME StopInv, [Next]_vars PROVE StopInv'
    OBVIOUS
  <2>1. CASE Timer
    BY <2>1, TimerStopInv
  <2>2. CASE GyroFrame
    BY <2>2 DEF GyroFrame, clockVars, route, history, StopInv, LapType, Passed,
                TimedOut, Elapsed, StopIsFinal, AtRest
  <2>3. CASE Top
    BY <2>3, IdleStopInv DEF Top, ReadClock, AtRest, history
  <2>4. CASE Sample
    BY <2>4, IdleStopInv DEF Sample, AtRest, history
  <2>5. CASE ControlIdle
    BY <2>5, IdleStopInv DEF ControlIdle, AtRest, history
  <2>6. CASE StartLap
    BY <2>6, StartStopInv
  <2>7. CASE MeasureRoute
    BY <2>7, MeasureStopInv
  <2>8. CASE Track
    BY <2>8, TrackStopInv
  <2>9. CASE Finish
    BY <2>9, FinishStopInv
  <2>10. CASE UNCHANGED vars
    BY <2>10 DEF vars, clockVars, route, history, StopInv, LapType, Passed,
                 TimedOut, Elapsed, StopIsFinal, AtRest
  <2> QED
    BY <2>1, <2>2, <2>3, <2>4, <2>5, <2>6, <2>7, <2>8, <2>9, <2>10, NextCases
<1> QED
  BY <1>1, <1>2, PTL DEF Spec

(* Once a stop condition has held, the car is stopped at the end of every   *)
(* period, although Run_Track_Stable30 runs first (empty.c:1454-1473).      *)
THEOREM StopFinal == Spec => []StopIsFinal
<1>1. StopInv => StopIsFinal
  BY DEF StopInv
<1> QED
  BY <1>1, StopInvInductive, PTL

--------------------------------------------------------------------------------
(* Refinement of Lap.                                                       *)

(* Before the lap and after its end the wheels are off, or about to be.     *)
OffUnlessRunning == Phase # "running" => Wheels = "off"

(* How the phase moves: the first entry begins the lap with the wheels off, *)
(* the stop conditions end it, and an end is never taken back.              *)
PhaseMoves ==
    \/ Phase' = Phase
    \/ Phase = "ready" /\ Phase' = "running" /\ Wheels' = "off"
    \/ Phase = "running" /\ Phase' = "ended"

LEMMA PhaseFact == StopInv /\ [Next]_vars => PhaseMoves
<1> SUFFICES ASSUME StopInv, [Next]_vars PROVE PhaseMoves
  OBVIOUS
<1> USE DEF PhaseMoves, Phase, history
<1>1. CASE StartLap
  BY <1>1 DEF StartLap, StopInv, LapType, Wheels
<1>2. CASE Finish
  BY <1>2 DEF Finish, StopInv, LapType
<1>3. CASE Timer \/ GyroFrame \/ Top \/ Sample \/ ControlIdle \/ MeasureRoute \/ Track
  BY <1>3 DEF Timer, GyroFrame, Top, Sample, ControlIdle, MeasureRoute, Track
<1>4. CASE UNCHANGED vars
  BY <1>4 DEF vars
<1> QED
  BY <1>1, <1>2, <1>3, <1>4, NextCases

(* In the stages at rest an ended car is stopped by StopIsFinal, between    *)
(* Run_Track_Stable30 and the conditions by the condition that holds still. *)
LEMMA OffInductive ==
    StopInv /\ StopInv' /\ OffUnlessRunning /\ [Next]_vars => OffUnlessRunning'
<1> SUFFICES ASSUME StopInv, StopInv', OffUnlessRunning, [Next]_vars,
                    Phase' # "running"
             PROVE  Wheels' = "off"
  BY DEF OffUnlessRunning
<1> USE DEF Phase, Wheels, history
<1>1. stage' = "finish" /\ started' => Passed' \/ TimedOut'
  BY DEF StopInv, LapType
<1>2. AtRest' /\ started' => drive' = "off"
  BY DEF StopInv, StopIsFinal
<1>3. CASE Timer \/ GyroFrame \/ Top \/ Sample \/ ControlIdle
  <2>1. UNCHANGED <<started, drive, stop_cause>> /\ (stage' = "finish" => stage = "finish")
    BY <1>3 DEF Timer, TimerTick, GyroFrame, clockVars, Top, ReadClock, Sample,
                ControlIdle
  <2>2. Phase' = Phase
    BY <2>1
  <2>3. drive = "off" \/ (stage = "finish" /\ started /\ stop_cause # "none")
    BY <2>2 DEF OffUnlessRunning, StopInv, LapType
  <2>4. CASE stage' = "finish" /\ started'
    BY <1>1, <2>1, <2>2, <2>4
  <2>5. CASE stage' # "finish" /\ stage = "finish" /\ started
    BY <1>3, <2>5 DEF Timer, TimerTick, GyroFrame, clockVars, Top, ReadClock,
                      Sample, ControlIdle
  <2> QED
    BY <2>1, <2>3, <2>4, <2>5
<1>4. CASE StartLap
  BY <1>4 DEF StartLap
<1>5. CASE MeasureRoute
  BY <1>5 DEF MeasureRoute, OffUnlessRunning
<1>6. CASE Track
  BY <1>1, <1>6 DEF Track, StopInv, LapType
<1>7. CASE Finish
  BY <1>2, <1>7 DEF Finish, StopInv, LapType, AtRest
<1>8. CASE UNCHANGED vars
  BY <1>8 DEF vars, clockVars, route, OffUnlessRunning, Passed, TimedOut, Elapsed
<1> QED
  BY <1>3, <1>4, <1>5, <1>6, <1>7, <1>8, NextCases

(* The 30 s question implements the abstract lap: once it has ended, by the *)
(* route or by the time limit, no later period drives (empty.c:1440-1473).  *)
THEOREM LapRefined == Spec => RefinesLap
<1>1. Init => L!Init /\ OffUnlessRunning
  BY DEF Init, L!Init, Phase, Wheels, OffUnlessRunning
<1>2. /\ StopInv /\ StopInv' /\ OffUnlessRunning /\ OffUnlessRunning' /\ [Next]_vars
      => [L!Next]_(L!lap)
  <2> SUFFICES ASSUME StopInv, OffUnlessRunning, OffUnlessRunning', [Next]_vars
               PROVE  [L!Next]_(L!lap)
    OBVIOUS
  <2> USE DEF L!Next, L!Begin, L!Drive, L!End, L!lap
  <2>1. Wheels \in {"on", "off"} /\ Wheels' \in {"on", "off"}
    BY DEF Wheels
  <2>2. Phase \in {"ready", "running", "ended"}
    BY DEF Phase
  <2>3. CASE Phase' = Phase
    BY <2>1, <2>3 DEF OffUnlessRunning
  <2>4. CASE Phase = "ready" /\ Phase' = "running" /\ Wheels' = "off"
    BY <2>4
  <2>5. CASE Phase = "running" /\ Phase' = "ended"
    BY <2>5 DEF OffUnlessRunning
  <2> QED
    BY <2>3, <2>4, <2>5, PhaseFact DEF PhaseMoves
<1>3. StopInv /\ StopInv' /\ OffUnlessRunning /\ [Next]_vars => OffUnlessRunning'
  BY OffInductive
<1> QED
  BY <1>1, <1>2, <1>3, StopInvInductive, PTL DEF Spec, RefinesLap, L!Spec

--------------------------------------------------------------------------------
(* Reacquisition.                                                           *)

(* The confirmation counts readings of the current row, and a line that     *)
(* counts as held has a full row behind it.                                 *)
ReacquireInv ==
    /\ good_row \in Nat
    /\ reacquire_count \in Nat
    /\ reacquire_count <= good_row
    /\ ~lost => good_row >= ReacquireCount /\ blind_since = NotBlind
    /\ stage \in {"track", "finish"} => started
    /\ ~started => good_row >= ReacquireCount /\ blind_since = NotBlind
    /\ FullSpeedNeedsReacquire

(* Everything the invariant reads but the stage stays as it is.             *)
LEMMA IdleReacquireInv ==
    ASSUME ReacquireInv, stage' \notin {"track", "finish"},
           UNCHANGED <<started, stable30Track, history>>,
           drive' = drive
    PROVE  ReacquireInv'
BY DEF ReacquireInv, FullSpeedNeedsReacquire, stable30Track, history

LEMMA TrackReacquireInv == ReacquireInv /\ Track => ReacquireInv'
<1> SUFFICES ASSUME ReacquireInv, Track PROVE ReacquireInv'
  OBVIOUS
<1>1. started /\ started' /\ good_row \in Nat /\ reacquire_count \in Nat
      /\ reacquire_count <= good_row
  BY DEF Track, ReacquireInv
<1>2. CASE Value = 0
  <2>1. LoseLine /\ good_row' = 0
    BY <1>2 DEF Track
  <2>2. lost' /\ reacquire_count' = 0 /\ drive' # "follow"
    BY <2>1 DEF LoseLine
  <2> QED
    BY <1>1, <2>1, <2>2 DEF ReacquireInv, FullSpeedNeedsReacquire
<1>3. CASE Value # 0
  <2>1. /\ FollowLine
        /\ good_row' = IF good_row <= ReacquireCount THEN good_row + 1 ELSE good_row
        /\ blind_since' = NotBlind
    BY <1>3 DEF Track
  <2>2. good_row' \in Nat /\ good_row' >= good_row
        /\ (good_row' >= good_row + 1 \/ good_row' > ReacquireCount)
    BY <1>1, <2>1, ConstantFacts
  <2>3. CASE ~lost
    <3>1. good_row >= ReacquireCount
      BY <2>3 DEF ReacquireInv
    <3>2. reacquire_count' = reacquire_count
      BY <2>1, <2>3 DEF FollowLine
    <3> QED
      BY <1>1, <2>1, <2>2, <3>1, <3>2, ConstantFacts
         DEF ReacquireInv, FullSpeedNeedsReacquire
  <2>4. CASE lost /\ reacquire_count + 1 >= ReacquireCount
    <3>1. reacquire_count' = 0 /\ drive' = "reacquire"
      BY <2>1, <2>4 DEF FollowLine
    <3>2. good_row' >= ReacquireCount
      BY <1>1, <2>2, <2>4, ConstantFacts
    <3> QED
      BY <1>1, <2>1, <2>2, <3>1, <3>2 DEF ReacquireInv, FullSpeedNeedsReacquire
  <2>5. CASE lost /\ ~(reacquire_count + 1 >= ReacquireCount)
    <3>1. reacquire_count' = reacquire_count + 1 /\ lost' /\ drive' = "reacquire"
      BY <2>1, <2>5 DEF FollowLine
    <3>2. reacquire_count' <= good_row'
      BY <1>1, <2>2, <2>5, <3>1, ConstantFacts
    <3> QED
      BY <1>1, <2>2, <3>1, <3>2 DEF ReacquireInv, FullSpeedNeedsReacquire
  <2> QED
    BY <2>3, <2>4, <2>5
<1> QED
  BY <1>2, <1>3

LEMMA ReacquireInvInductive == Spec => []ReacquireInv
<1>1. Init => ReacquireInv
  BY ConstantFacts DEF Init, ClockInit, ReacquireInv, FullSpeedNeedsReacquire
<1>2. ReacquireInv /\ [Next]_vars => ReacquireInv'
  <2> SUFFICES ASSUME ReacquireInv, [Next]_vars PROVE ReacquireInv'
    OBVIOUS
  <2> USE DEF stable30Track, history
  <2>1. CASE Timer
    BY <2>1 DEF Timer, TimerTick, ReacquireInv, FullSpeedNeedsReacquire
  <2>2. CASE GyroFrame
    BY <2>2 DEF GyroFrame, clockVars, ReacquireInv, FullSpeedNeedsReacquire
  <2>3. CASE Top
    BY <2>3, IdleReacquireInv DEF Top, ReadClock
  <2>4. CASE Sample
    BY <2>4, IdleReacquireInv DEF Sample
  <2>5. CASE ControlIdle
    BY <2>5, IdleReacquireInv DEF ControlIdle
  <2>6. CASE StartLap
    BY <2>6, ConstantFacts DEF StartLap, ReacquireInv, FullSpeedNeedsReacquire
  <2>7. CASE MeasureRoute
    BY <2>7 DEF MeasureRoute, ReacquireInv, FullSpeedNeedsReacquire
  <2>8. CASE Track
    BY <2>8, TrackReacquireInv
  <2>9. CASE Finish
    <3>1. drive' = "off" \/ drive' = drive
      BY <2>9 DEF Finish
    <3> QED
      BY <2>9, <3>1, IdleReacquireInv
         DEF Finish, ReacquireInv, FullSpeedNeedsReacquire
  <2>10. CASE UNCHANGED vars
    BY <2>10 DEF vars, clockVars, ReacquireInv, FullSpeedNeedsReacquire
  <2> QED
    BY <2>1, <2>2, <2>3, <2>4, <2>5, <2>6, <2>7, <2>8, <2>9, <2>10, NextCases
<1> QED
  BY <1>1, <1>2, PTL DEF Spec

(* The car goes at full speed only with a full row of readings behind it.   *)
THEOREM FullSpeedConfirmed == Spec => []FullSpeedNeedsReacquire
<1>1. ReacquireInv => FullSpeedNeedsReacquire
  BY DEF ReacquireInv
<1> QED
  BY <1>1, ReacquireInvInductive, PTL

(* Distance is counted only while the line has been held since the period   *)
(* before.                                                                  *)
THEOREM RouteOfHeldLine == Spec => RouteCountsHeldLine
<1>1. StopInv /\ ReacquireInv /\ [Next]_vars =>
        [Stable30_Route_Distance' > Stable30_Route_Distance =>
            blind_since = NotBlind /\ good_row >= ReacquireCount]_vars
  <2> SUFFICES ASSUME ReacquireInv, [Next]_vars, Stable30_Route_Distance \in Nat,
                      Stable30_Route_Distance' > Stable30_Route_Distance
               PROVE  blind_since = NotBlind /\ good_row >= ReacquireCount
    BY DEF StopInv, LapType
  <2> DEFINE still == Stable30_Route_Distance' = Stable30_Route_Distance
  <2>1. ~still
    OBVIOUS
  <2>2. /\ Timer => still
        /\ GyroFrame => still
        /\ Top => still
        /\ Sample => still
        /\ ControlIdle => still
    BY DEF Timer, GyroFrame, Top, Sample, ControlIdle, route, stable30Track
  <2>3. /\ Track => still
        /\ Finish => still
        /\ UNCHANGED vars => still
    BY DEF Track, Finish, vars, route
  <2>4. MeasureRoute \/ StartLap
    BY <2>1, <2>2, <2>3, NextCases
  <2>5. CASE MeasureRoute
    <3>1. ~lost
      BY <2>5 DEF MeasureRoute, CountedRoute
    <3> QED
      BY <3>1 DEF ReacquireInv
  <2>6. CASE StartLap
    BY <2>6 DEF StartLap, ReacquireInv
  <2> QED
    BY <2>4, <2>5, <2>6
<1> QED
  BY <1>1, StopInvInductive, ReacquireInvInductive, PTL DEF Spec, RouteCountsHeldLine

--------------------------------------------------------------------------------
(* Time.                                                                    *)

LEMMA TimeFacts ==
    /\ TimeMod \in Nat /\ Horizon \in Nat /\ Horizon < TimeMod
    /\ BootMs \in Nat /\ BootMs <= Horizon
    /\ Interval \in Nat /\ Interval > 0
    /\ MaxLag \in Nat /\ MaxLag > 0
    /\ GraceMs \in Nat /\ GraceMs > 0
    /\ TightMs \in Nat /\ GraceMs <= TightMs
    /\ SweepMs \in Nat /\ SweepMs > 0
    /\ Interval + 2 * MaxLag <= SweepMs + 1
BY StableLapAssumption, SweepAssumption, TimeModAssumption, BootMsAssumption,
   IntervalAssumption, MaxLagAssumption

(* How far the counter, the snapshot, the last control period and the last  *)
(* look for the line can be apart in each stage.  The counter does not wrap *)
(* within the horizon.                                                      *)
ClockInv ==
    /\ time \in Nat /\ time <= Horizon
    /\ now_ms \in Nat /\ now_ms <= time /\ time <= now_ms + MaxLag
    /\ last_control_ms \in Nat /\ last_control_ms <= now_ms
    /\ stage \in {"top", "sample", "control", "track", "finish"}
    /\ stage \in {"track", "finish"} => last_control_ms = now_ms
    /\ stage = "top" => now_ms - last_control_ms < Interval
    /\ stage \in {"sample", "control"} =>
          now_ms - last_control_ms < Interval + MaxLag
    /\ track_time \in Nat /\ track_time <= time
    /\ stage \in {"sample", "control", "track"} => track_time <= now_ms

(* A loss began no later than the last look for the line, and the next look *)
(* follows the last one within a period and the lags of two iterations.     *)
LossInv ==
    lost =>
       /\ lost_since \in Nat /\ lost_since <= track_time
       /\ lost_since <= last_control_ms + MaxLag
       /\ IF stage = "track" THEN now_ms - track_time < Interval + MaxLag
          ELSE last_control_ms <= track_time

TimeInv == ClockInv /\ LossInv

LEMMA ElapsedIsDifference ==
    ASSUME NEW a \in Nat, NEW b \in Nat, b <= a
    PROVE  Elapsed(a, b) = a - b
BY DEF Elapsed

LEMMA ControlDueFact ==
    ASSUME ClockInv
    PROVE  ControlDue <=> now_ms - last_control_ms >= Interval
BY ElapsedIsDifference DEF ClockInv, ControlDue

LEMMA TimerTimeInv == TimeInv /\ Timer => TimeInv'
<1> SUFFICES ASSUME TimeInv, Timer PROVE TimeInv'
  OBVIOUS
<1>1. time - now_ms < MaxLag
  BY ElapsedIsDifference DEF TimeInv, ClockInv, Timer, TimerTick
<1>2. time' = time + 1 /\ time' <= Horizon
  BY TimeFacts DEF TimeInv, ClockInv, Timer, TimerTick, NextMs
<1>3. UNCHANGED <<now_ms, last_control_ms, stage, track_time, lost, lost_since>>
  BY DEF Timer, TimerTick, stable30Track, history
<1>4. ClockInv'
  BY <1>1, <1>2, <1>3, TimeFacts DEF TimeInv, ClockInv
<1>5. LossInv'
  BY <1>3 DEF TimeInv, LossInv
<1> QED
  BY <1>4, <1>5 DEF TimeInv

LEMMA MeasureTimeInv == TimeInv /\ MeasureRoute => TimeInv'
<1> SUFFICES ASSUME TimeInv, MeasureRoute PROVE TimeInv'
  OBVIOUS
<1>1. /\ stage = "control" /\ stage' = "track"
      /\ last_control_ms' = now_ms
      /\ UNCHANGED <<time, now_ms, track_time, lost, lost_since>>
  BY DEF MeasureRoute, stable30Track, history
<1>2. ClockInv'
  BY <1>1 DEF TimeInv, ClockInv
<1>3. LossInv'
  BY <1>1, TimeFacts DEF TimeInv, ClockInv, LossInv
<1> QED
  BY <1>2, <1>3 DEF TimeInv

(* A loss keeps the time it began at; a new one begins now.                 *)
LEMMA LostSinceMoves ==
    ASSUME Track, lost'
    PROVE  lost_since' = IF lost THEN lost_since ELSE time
<1>1. CASE Value = 0
  BY <1>1 DEF Track, LoseLine
<1>2. CASE Value # 0
  BY <1>2 DEF Track, FollowLine
<1> QED
  BY <1>1, <1>2

LEMMA TrackTimeInv == TimeInv /\ Track => TimeInv'
<1> SUFFICES ASSUME TimeInv, Track PROVE TimeInv'
  OBVIOUS
<1>1. /\ stage = "track" /\ stage' = "finish"
      /\ track_time' = time
      /\ UNCHANGED <<time, now_ms, last_control_ms>>
  BY DEF Track
<1>2. ClockInv'
  BY <1>1 DEF TimeInv, ClockInv
<1>3. LossInv'
  BY <1>1, LostSinceMoves DEF TimeInv, ClockInv, LossInv
<1> QED
  BY <1>2, <1>3 DEF TimeInv

LEMMA TimeInvInductive == Spec => []TimeInv
<1>1. Init => TimeInv
  BY TimeFacts DEF Init, ClockInit, TimeInv, ClockInv, LossInv
<1>2. TimeInv /\ [Next]_vars => TimeInv'
  <2> SUFFICES ASSUME TimeInv, [Next]_vars PROVE TimeInv'
    OBVIOUS
  <2> USE DEF stable30Track, history
  <2>1. CASE Timer
    BY <2>1, TimerTimeInv
  <2>2. CASE GyroFrame
    BY <2>2 DEF GyroFrame, clockVars, TimeInv, ClockInv, LossInv
  <2>3. CASE Top
    BY <2>3, TimeFacts DEF Top, ReadClock, TimeInv, ClockInv, LossInv
  <2>4. CASE Sample
    BY <2>4 DEF Sample, TimeInv, ClockInv, LossInv
  <2>5. CASE ControlIdle
    <3>1. ~(now_ms - last_control_ms >= Interval)
      BY <2>5, ControlDueFact DEF ControlIdle, TimeInv
    <3> QED
      BY <2>5, <3>1, TimeFacts DEF ControlIdle, TimeInv, ClockInv, LossInv
  <2>6. CASE StartLap
    BY <2>6 DEF StartLap, TimeInv, ClockInv, LossInv
  <2>7. CASE MeasureRoute
    BY <2>7, MeasureTimeInv
  <2>8. CASE Track
    BY <2>8, TrackTimeInv
  <2>9. CASE Finish
    BY <2>9, TimeFacts DEF Finish, TimeInv, ClockInv, LossInv
  <2>10. CASE UNCHANGED vars
    BY <2>10 DEF vars, clockVars, TimeInv, ClockInv, LossInv
  <2> QED
    BY <2>1, <2>2, <2>3, <2>4, <2>5, <2>6, <2>7, <2>8, <2>9, <2>10, NextCases
<1> QED
  BY <1>1, <1>2, PTL DEF Spec

--------------------------------------------------------------------------------
(* Division by a positive number.                                           *)

LEMMA DivBound ==
    ASSUME NEW r \in Nat, r > 0, NEW x \in Nat, NEW m \in Nat, m * r <= x
    PROVE m <= x \div r
BY Z3

LEMMA DivNat ==
    ASSUME NEW r \in Nat, r > 0, NEW x \in Nat
    PROVE x \div r \in Nat
BY Z3

LEMMA DivSmall ==
    ASSUME NEW r \in Nat, r > 0, NEW x \in Nat
    PROVE  /\ x < r => x \div r = 0
           /\ r <= x /\ x < 2 * r => x \div r = 1
BY Z3

--------------------------------------------------------------------------------
(* The search.                                                              *)

(* Milliseconds from the loss to the last look for the line.                *)
Blind == track_time - lost_since

(* In a loss that has been blind from its start the first sweep looks away  *)
(* from the side first chosen and the second looks back.  A loss in which   *)
(* the line was seen once never counts as blind from its start again.       *)
SearchInv ==
    /\ last_direction \in Sides /\ recovery_direction \in Sides
    /\ searched \subseteq Sides
    /\ ~lost => blind_since = NotBlind
    /\ ~started => ~lost
    /\ stage \in {"track", "finish"} => started
    /\ lost /\ blind_since = NotBlind =>
          IF stage = "track" THEN lost_since < now_ms
          ELSE lost_since <= last_control_ms
    /\ lost /\ blind_since = lost_since =>
          /\ Blind >= TightMs => -recovery_direction \in searched
          /\ Blind >= TightMs + SweepMs => recovery_direction \in searched

LEMMA SidesFact == \A d \in Sides : -d \in Sides /\ Sides = {d, -d}
BY DEF Sides

(* The first two sweeps turn to either side.                                *)
LEMMA SweepFact ==
    ASSUME NEW ms \in Nat, NEW d \in Sides
    PROVE  /\ TightMs <= ms /\ ms < TightMs + SweepMs => SearchSide(ms, d) = -d
           /\ TightMs + SweepMs <= ms /\ ms < TightMs + 2 * SweepMs =>
                 SearchSide(ms, d) = d
<1>1. CASE TightMs <= ms /\ ms < TightMs + SweepMs
  <2>1. (ms - TightMs) \div SweepMs = 0
    BY <1>1, DivSmall, TimeFacts
  <2> QED
    BY <1>1, <2>1, TimeFacts DEF SearchSide
<1>2. CASE TightMs + SweepMs <= ms /\ ms < TightMs + 2 * SweepMs
  <2>1. (ms - TightMs) \div SweepMs = 1
    BY <1>2, DivSmall, TimeFacts
  <2> QED
    BY <1>2, <2>1, TimeFacts DEF SearchSide
<1> QED
  BY <1>1, <1>2, TimeFacts

LEMMA LoseLineSearch ==
    ASSUME TimeInv, SearchInv, stage = "track", LoseLine
    PROVE  /\ recovery_direction' \in Sides /\ searched' \subseteq Sides
           /\ searched \subseteq searched'
           /\ LET ms == time - lost_since'
              IN  ms >= TightMs =>
                    SearchSide(ms, recovery_direction') \in searched'
<1>1. LossDirection \in Sides
  BY DEF LossDirection, SearchInv, Sides
<1>2. recovery_direction' \in Sides
  BY <1>1 DEF LoseLine, SearchInv
<1>3. lost_since' = IF lost THEN lost_since ELSE time
  BY DEF LoseLine
<1> DEFINE ms == time - lost_since'
<1>4. ms \in Nat /\ Elapsed(time, lost_since') = ms
  BY <1>3, ElapsedIsDifference DEF TimeInv, ClockInv, LossInv
<1>5. SearchSide(ms, recovery_direction') \in Sides
  BY <1>2, SidesFact DEF SearchSide
<1> HIDE DEF ms
<1>6. IF ms < GraceMs THEN searched' = searched
      ELSE searched' = searched \cup {SearchSide(ms, recovery_direction')}
  BY <1>4 DEF LoseLine
<1>7. ms >= TightMs => ~(ms < GraceMs)
  BY <1>4, TimeFacts
<1> QED
  BY <1>2, <1>5, <1>6, <1>7 DEF SearchInv, ms

LEMMA BlindTrackSearch ==
    ASSUME TimeInv, SearchInv, Track, Value = 0,
           blind_since' = lost_since'
    PROVE  /\ Blind' >= TightMs => -recovery_direction' \in searched'
           /\ Blind' >= TightMs + SweepMs => recovery_direction' \in searched'
<1> DEFINE ms == time - lost_since'
<1>1. LoseLine /\ stage = "track" /\ Blind' = ms
  BY DEF Track, Blind
<1>2. /\ recovery_direction' \in Sides
      /\ searched \subseteq searched'
      /\ ms >= TightMs => SearchSide(ms, recovery_direction') \in searched'
  BY <1>1, LoseLineSearch
<1>3. CASE ~lost
  <2>1. ms = 0
    BY <1>1, <1>3 DEF LoseLine, TimeInv, ClockInv
  <2> QED
    BY <1>1, <2>1, TimeFacts
<1>4. CASE lost
  <2>1. lost_since' = lost_since /\ recovery_direction' = recovery_direction
    BY <1>1, <1>4 DEF LoseLine
  <2>2. blind_since = lost_since
    <3>1. CASE blind_since = NotBlind
      <4>1. blind_since' = time
        BY <3>1 DEF Track
      <4> QED
        BY <1>1, <1>4, <2>1, <3>1, <4>1 DEF SearchInv, TimeInv, ClockInv, LossInv
    <3>2. CASE blind_since # NotBlind
      BY <2>1, <3>2 DEF Track
    <3> QED
      BY <3>1, <3>2
  <2>3. /\ ms \in Nat /\ Blind \in Nat
        /\ ms <= Blind + SweepMs
    BY <1>1, <1>4, <2>1, TimeFacts DEF TimeInv, ClockInv, LossInv, Blind
  <2>4. /\ Blind >= TightMs => -recovery_direction \in searched
        /\ Blind >= TightMs + SweepMs => recovery_direction \in searched
    BY <1>4, <2>2 DEF SearchInv
  <2> HIDE DEF ms
  <2>5. /\ TightMs <= ms /\ ms < TightMs + SweepMs =>
              -recovery_direction \in searched'
        /\ TightMs + SweepMs <= ms /\ ms < TightMs + 2 * SweepMs =>
              recovery_direction \in searched'
    BY <1>2, <2>1, <2>3, SweepFact, TimeFacts
  <2>6. ms >= TightMs => -recovery_direction \in searched'
    BY <1>2, <2>3, <2>4, <2>5, TimeFacts
  <2>7. ms >= TightMs + SweepMs => recovery_direction \in searched'
    BY <1>2, <2>3, <2>4, <2>5, TimeFacts
  <2> QED
    BY <1>1, <2>1, <2>6, <2>7
<1> QED
  BY <1>3, <1>4

LEMMA TrackSearchInv == TimeInv /\ SearchInv /\ Track => SearchInv'
<1> SUFFICES ASSUME TimeInv, SearchInv, Track PROVE SearchInv'
  OBVIOUS
<1>1. /\ stage = "track" /\ stage' = "finish" /\ started /\ started'
      /\ last_control_ms' = now_ms /\ now_ms \in Nat /\ time \in Nat
  BY DEF Track, SearchInv, TimeInv, ClockInv
<1>2. CASE Value = 0
  <2>1. LoseLine /\ lost'
    BY <1>2 DEF Track, LoseLine
  <2>2. recovery_direction' \in Sides /\ searched' \subseteq Sides
    BY <1>1, <2>1, LoseLineSearch
  <2>3. blind_since' # NotBlind
    BY <1>1, <1>2 DEF Track, NotBlind
  <2>4. last_direction' \in Sides
    BY <2>1 DEF LoseLine, SearchInv
  <2>5. blind_since' = lost_since' =>
           /\ Blind' >= TightMs => -recovery_direction' \in searched'
           /\ Blind' >= TightMs + SweepMs => recovery_direction' \in searched'
    BY <1>2, BlindTrackSearch
  <2> QED
    BY <1>1, <2>1, <2>2, <2>3, <2>4, <2>5 DEF SearchInv
<1>3. CASE Value # 0
  <2>1. FollowLine /\ blind_since' = NotBlind
    BY <1>3 DEF Track
  <2>2. last_direction' \in Sides /\ recovery_direction' \in Sides
        /\ searched' = {}
    BY <2>1 DEF FollowLine, DirectionAfter, SearchInv, Sides
  <2>3. lost' => lost /\ lost_since' = lost_since
    BY <2>1 DEF FollowLine
  <2>4. lost' => lost_since' \in Nat /\ lost_since' <= now_ms
    BY <1>1, <2>3 DEF TimeInv, ClockInv, LossInv
  <2>5. lost' => lost_since' # NotBlind
    BY <2>4 DEF NotBlind
  <2> QED
    BY <1>1, <2>1, <2>2, <2>4, <2>5 DEF SearchInv
<1> QED
  BY <1>2, <1>3

LEMMA MeasureSearchInv == TimeInv /\ SearchInv /\ MeasureRoute => SearchInv'
<1> SUFFICES ASSUME TimeInv, SearchInv, MeasureRoute PROVE SearchInv'
  OBVIOUS
<1>1. now_ms - last_control_ms >= Interval
  BY ControlDueFact DEF MeasureRoute, TimeInv
<1>2. lost /\ lost_since <= last_control_ms => lost_since < now_ms
  BY <1>1, TimeFacts DEF TimeInv, ClockInv, LossInv
<1> QED
  BY <1>2 DEF MeasureRoute, SearchInv, Blind, stable30Track, history

(* Everything the invariant reads but the stage stays as it is.             *)
LEMMA IdleSearchInv ==
    ASSUME SearchInv, stage # "track", stage' \notin {"track", "finish"},
           UNCHANGED <<last_control_ms, started, stable30Track, track_time,
                       blind_since, searched>>
    PROVE  SearchInv'
BY DEF SearchInv, Blind, stable30Track

LEMMA SearchInvInductive == Spec => []SearchInv
<1>1. Init => SearchInv
  BY DEF Init, ClockInit, SearchInv, Sides
<1>2. TimeInv /\ SearchInv /\ [Next]_vars => SearchInv'
  <2> SUFFICES ASSUME TimeInv, SearchInv, [Next]_vars PROVE SearchInv'
    OBVIOUS
  <2> USE DEF stable30Track, history
  <2>1. CASE Timer
    BY <2>1 DEF Timer, TimerTick, SearchInv, Blind
  <2>2. CASE GyroFrame
    BY <2>2 DEF GyroFrame, clockVars, SearchInv, Blind
  <2>3. CASE Top
    BY <2>3, IdleSearchInv DEF Top, ReadClock
  <2>4. CASE Sample
    BY <2>4, IdleSearchInv DEF Sample
  <2>5. CASE ControlIdle
    BY <2>5, IdleSearchInv DEF ControlIdle
  <2>6. CASE StartLap
    BY <2>6 DEF StartLap, SearchInv, Sides
  <2>7. CASE MeasureRoute
    BY <2>7, MeasureSearchInv
  <2>8. CASE Track
    BY <2>8, TrackSearchInv
  <2>9. CASE Finish
    BY <2>9, IdleSearchInv DEF Finish
  <2>10. CASE UNCHANGED vars
    BY <2>10 DEF vars, clockVars, SearchInv, Blind
  <2> QED
    BY <2>1, <2>2, <2>3, <2>4, <2>5, <2>6, <2>7, <2>8, <2>9, <2>10, NextCases
<1> QED
  BY <1>1, <1>2, TimeInvInductive, PTL DEF Spec

(* A car that has not seen the line since it lost it has turned to both     *)
(* sides when the first sweep is over, whatever the constants of the search *)
(* (Run_Track_Stable30, empty.c:1198).                                 *)
THEOREM BothSidesAreSearched == Spec => []BothSidesSearched
<1>1. TimeInv /\ SearchInv => BothSidesSearched
  <2> SUFFICES ASSUME TimeInv, SearchInv, lost, blind_since = lost_since,
                      track_time - lost_since >= TightMs + SweepMs
               PROVE  searched = Sides
    BY DEF BothSidesSearched
  <2>1. Blind >= TightMs /\ Blind >= TightMs + SweepMs
    BY TimeFacts DEF Blind, TimeInv, ClockInv, LossInv
  <2>2. recovery_direction \in searched /\ -recovery_direction \in searched
    BY <2>1 DEF SearchInv
  <2> QED
    BY <2>2, SidesFact DEF SearchInv
<1> QED
  BY <1>1, TimeInvInductive, SearchInvInductive, PTL

--------------------------------------------------------------------------------
(* The age of the gyro's last value.                                        *)

LEMMA GyroFacts ==
    /\ ReacquireCount \in Nat /\ ReacquireCount > 0
    /\ StaleMax \in Nat /\ StaleCap \in Nat /\ StaleMax < StaleCap
    /\ AgeCap \in Nat
    /\ GracePeriods \in Nat /\ GracePeriods >= 1
<1>1. GracePeriods \in Nat
  BY TimeFacts, Z3 DEF GracePeriods
<1>2. 1 * Interval <= GraceMs + MaxLag + Interval - 1
  BY TimeFacts
<1>3. GracePeriods >= 1
  BY <1>2, DivBound, TimeFacts DEF GracePeriods
<1> QED
  BY <1>1, <1>3, StableLapAssumption

(* The last value is as old as the calls counted, and the grace periods     *)
(* nobody counted: m full grace times, each of them closed by ReacquireCount *)
(* counted readings, and h periods of the loss that is open, which is as    *)
(* long as they are.                                                        *)
AgeIs(m, h) ==
    /\ gyro_age <= gyro_stale_ticks + GracePeriods * m + h
    /\ h <= GracePeriods
    /\ m * ReacquireCount <= gyro_stale_ticks
    /\ h > 0 =>
          /\ lost
          /\ m * ReacquireCount + reacquire_count <= gyro_stale_ticks
          /\ (h - 1) * Interval <= last_control_ms - lost_since + MaxLag
          /\ stage = "track" =>
                h * Interval <= last_control_ms - lost_since + MaxLag

AgeInv ==
    /\ stage \in {"track", "finish"} => started
    /\ ~started => gyro_age = 0 /\ ~gyro_used
    /\ reacquire_count \in 0 .. ReacquireCount - 1
    /\ gyro_stale_ticks \in Nat /\ gyro_age \in Nat
    /\ gyro_used => gyro_stale_ticks <= StaleMax
    /\ gyro_stale_ticks < StaleCap => \E m, h \in Nat : AgeIs(m, h)

(* A value that has just come in.                                           *)
LEMMA FreshAge ==
    ASSUME gyro_age' = 0, gyro_stale_ticks' = 0
    PROVE  AgeIs(0, 0)'
BY GyroFacts DEF AgeIs

(* A period of the recovery, or of the line held, that counts.              *)
LEMMA CountedAge ==
    ASSUME TimeInv, NEW m \in Nat, NEW h \in Nat, AgeIs(m, h),
           stage = "track", stage' # "track",
           gyro_age \in Nat, gyro_stale_ticks \in Nat, reacquire_count \in Nat,
           gyro_age' \in Nat, gyro_age' <= gyro_age + 1,
           gyro_stale_ticks' = gyro_stale_ticks + 1,
           lost' => reacquire_count' \in Nat /\ reacquire_count' <= reacquire_count + 1,
           lost /\ lost' => lost_since' = lost_since,
           lost /\ ~lost' => reacquire_count + 1 >= ReacquireCount,
           ~lost /\ lost' => h = 0,
           last_control_ms' = last_control_ms
    PROVE  \E i, j \in Nat : AgeIs(i, j)'
<1>1. CASE h = 0
  <2>1. AgeIs(m, 0)'
    BY <1>1, GyroFacts DEF AgeIs
  <2> QED
    BY <2>1
<1>2. CASE h > 0 /\ lost'
  <2>1. AgeIs(m, h)'
    BY <1>2, GyroFacts, TimeFacts DEF AgeIs, TimeInv, ClockInv, LossInv
  <2> QED
    BY <2>1
<1>3. CASE h > 0 /\ ~lost'
  <2>1. lost /\ reacquire_count + 1 >= ReacquireCount
    BY <1>3 DEF AgeIs
  <2>2. (m + 1) * ReacquireCount <= gyro_stale_ticks'
    BY <1>3, <2>1, GyroFacts DEF AgeIs
  <2>3. GracePeriods * (m + 1) = GracePeriods * m + GracePeriods
    BY GyroFacts
  <2>4. GracePeriods * m \in Nat
    BY GyroFacts
  <2>5. gyro_age' <= gyro_stale_ticks' + GracePeriods * (m + 1)
    BY <2>3, <2>4, GyroFacts DEF AgeIs
  <2>6. AgeIs(m + 1, 0)'
    BY <2>2, <2>5, GyroFacts DEF AgeIs
  <2> QED
    BY <2>6
<1> QED
  BY <1>1, <1>2, <1>3

(* A period of grace, which does not count.                                 *)
LEMMA HeldAge ==
    ASSUME TimeInv, NEW m \in Nat, NEW h \in Nat, AgeIs(m, h),
           stage = "track", stage' # "track",
           gyro_age \in Nat, gyro_stale_ticks \in Nat, reacquire_count \in Nat,
           gyro_age' \in Nat, gyro_age' <= gyro_age + 1,
           gyro_stale_ticks' = gyro_stale_ticks,
           lost', reacquire_count' = 0,
           lost_since' = IF lost THEN lost_since ELSE time,
           time - lost_since' < GraceMs,
           last_control_ms' = last_control_ms
    PROVE  AgeIs(m, h + 1)'
<1> DEFINE open == last_control_ms - lost_since' + MaxLag
<1>1. open \in Nat /\ open < GraceMs + MaxLag
  BY TimeFacts DEF TimeInv, ClockInv, LossInv
<1>2. h * Interval <= open
  <2>1. CASE h = 0
    BY <1>1, <2>1, TimeFacts
  <2>2. CASE h > 0
    BY <2>2 DEF AgeIs
  <2> QED
    BY <2>1, <2>2
<1> HIDE DEF open
<1>3. h + 1 <= GracePeriods
  <2>1. (h + 1) * Interval <= GraceMs + MaxLag + Interval - 1
    BY <1>1, <1>2, TimeFacts
  <2> QED
    BY <2>1, DivBound, TimeFacts DEF GracePeriods
<1>4. gyro_age' <= gyro_stale_ticks' + GracePeriods * m + (h + 1)
  BY GyroFacts DEF AgeIs
<1>5. m * ReacquireCount + reacquire_count' <= gyro_stale_ticks'
  BY GyroFacts DEF AgeIs
<1> QED
  BY <1>2, <1>3, <1>4, <1>5, GyroFacts DEF AgeIs, open

LEMMA UpdateGyroFact ==
    ASSUME AgeInv, UpdateGyro, AgeGyro
    PROVE  /\ gyro_stale_ticks' \in Nat /\ gyro_age' \in Nat
           /\ gyro_used' => gyro_stale_ticks' <= StaleMax
           /\ gyro_age' <= gyro_age + 1
           /\ gyro_stale_ticks' < StaleCap =>
                 \/ gyro_stale_ticks' = 0 /\ gyro_age' = 0
                 \/ gyro_stale_ticks < StaleCap
                    /\ gyro_stale_ticks' = gyro_stale_ticks + 1
<1>1. gyro_stale_ticks \in Nat /\ gyro_age \in Nat
  BY DEF AgeInv
<1>2. ~gyro_new' /\ (gyro_used' => gyro_stale_ticks' <= StaleMax)
  BY DEF UpdateGyro
<1>3. CASE gyro_new
  <2>1. gyro_stale_ticks' = 0 /\ gyro_age' = 0
    BY <1>2, <1>3 DEF UpdateGyro, AgeGyro
  <2> QED
    BY <1>1, <1>2, <2>1, GyroFacts
<1>4. CASE ~gyro_new
  <2>1. gyro_stale_ticks' = IF gyro_stale_ticks < StaleCap
                            THEN gyro_stale_ticks + 1 ELSE gyro_stale_ticks
    BY <1>4 DEF UpdateGyro
  <2>2. gyro_age' = IF gyro_age < AgeCap THEN gyro_age + 1 ELSE gyro_age
    BY <1>4 DEF AgeGyro
  <2> QED
    BY <1>1, <1>2, <2>1, <2>2, GyroFacts
<1> QED
  BY <1>3, <1>4

LEMMA LoseLineAge ==
    ASSUME TimeInv, AgeInv, Track, Value = 0
    PROVE  AgeInv'
<1>1. /\ LoseLine /\ AgeGyro
      /\ stage = "track" /\ stage' = "finish" /\ last_control_ms' = last_control_ms
      /\ started'
  BY DEF Track, AgeInv
<1>2. /\ lost' /\ reacquire_count' = 0
      /\ lost_since' = IF lost THEN lost_since ELSE time
      /\ reacquire_count \in Nat /\ gyro_stale_ticks \in Nat /\ gyro_age \in Nat
  BY <1>1 DEF LoseLine, AgeInv
<1>3. lost_since' \in Nat /\ Elapsed(time, lost_since') = time - lost_since'
  BY <1>2, ElapsedIsDifference DEF TimeInv, ClockInv, LossInv
<1>4. CASE time - lost_since' < GraceMs
  <2>1. ~gyro_used' /\ UNCHANGED gyro
    BY <1>1, <1>3, <1>4 DEF LoseLine
  <2>2. gyro_age' \in Nat /\ gyro_age' <= gyro_age + 1
    BY <1>1, <2>1, GyroFacts DEF AgeGyro, AgeInv, gyro
  <2>3. ASSUME gyro_stale_ticks' < StaleCap
        PROVE  \E m, h \in Nat : AgeIs(m, h)'
    <3>1. PICK m \in Nat, h \in Nat : AgeIs(m, h)
      BY <2>1, <2>3 DEF AgeInv, gyro
    <3>2. AgeIs(m, h + 1)'
      BY <1>1, <1>2, <1>4, <2>1, <2>2, <3>1, HeldAge DEF gyro
    <3> QED
      BY <3>2
  <2> QED
    BY <1>1, <1>2, <2>1, <2>2, <2>3, GyroFacts DEF AgeInv, gyro
<1>5. CASE ~(time - lost_since' < GraceMs)
  <2>1. UpdateGyro
    BY <1>1, <1>3, <1>5 DEF LoseLine
  <2>2. lost
    BY <1>2, <1>5, TimeFacts DEF TimeInv, ClockInv
  <2>3. ASSUME gyro_stale_ticks' < StaleCap
        PROVE  \E m, h \in Nat : AgeIs(m, h)'
    <3>1. CASE gyro_stale_ticks' = 0 /\ gyro_age' = 0
      BY <3>1, FreshAge
    <3>2. CASE gyro_stale_ticks < StaleCap /\ gyro_stale_ticks' = gyro_stale_ticks + 1
      <4>1. PICK m \in Nat, h \in Nat : AgeIs(m, h)
        BY <3>2 DEF AgeInv
      <4> QED
        BY <1>1, <1>2, <2>1, <2>2, <3>2, <4>1, UpdateGyroFact, CountedAge
    <3> QED
      BY <1>1, <2>1, <2>3, <3>1, <3>2, UpdateGyroFact
  <2> QED
    BY <1>1, <1>2, <2>1, <2>3, GyroFacts, UpdateGyroFact DEF AgeInv
<1> QED
  BY <1>4, <1>5

LEMMA FollowLineAge ==
    ASSUME TimeInv, AgeInv, Track, Value # 0
    PROVE  AgeInv'
<1>1. /\ FollowLine /\ UpdateGyro /\ AgeGyro
      /\ stage = "track" /\ stage' = "finish" /\ last_control_ms' = last_control_ms
      /\ started'
  BY DEF Track, FollowLine, AgeInv
<1>2. /\ reacquire_count \in 0 .. ReacquireCount - 1
      /\ gyro_stale_ticks \in Nat /\ gyro_age \in Nat
  BY DEF AgeInv
<1>3. /\ reacquire_count' \in 0 .. ReacquireCount - 1
      /\ reacquire_count' <= reacquire_count + 1
      /\ lost' => lost /\ lost_since' = lost_since
      /\ lost /\ ~lost' => reacquire_count + 1 >= ReacquireCount
  BY <1>1, <1>2, GyroFacts DEF FollowLine
<1>4. ASSUME gyro_stale_ticks' < StaleCap
      PROVE  \E m, h \in Nat : AgeIs(m, h)'
  <2>1. CASE gyro_stale_ticks' = 0 /\ gyro_age' = 0
    BY <2>1, FreshAge
  <2>2. CASE gyro_stale_ticks < StaleCap /\ gyro_stale_ticks' = gyro_stale_ticks + 1
    <3>1. PICK m \in Nat, h \in Nat : AgeIs(m, h)
      BY <2>2 DEF AgeInv
    <3> QED
      BY <1>1, <1>2, <1>3, <2>2, <3>1, UpdateGyroFact, CountedAge
  <2> QED
    BY <1>1, <1>4, <2>1, <2>2, UpdateGyroFact
<1> QED
  BY <1>1, <1>3, <1>4, UpdateGyroFact DEF AgeInv

(* Nothing of the age moves; a period that begins makes an open loss longer. *)
LEMMA IdleAge ==
    ASSUME AgeInv, TimeInv,
           \/ last_control_ms' = last_control_ms /\ (stage' = "track" => stage = "track")
           \/ lost /\ last_control_ms' >= last_control_ms + Interval
              /\ last_control_ms' \in Nat,
           stage' \in {"track", "finish"} => started,
           UNCHANGED <<started, stable30Track, gyro_stale_ticks, gyro_used, gyro_age>>
    PROVE  AgeInv'
<1>1. ASSUME NEW m \in Nat, NEW h \in Nat, AgeIs(m, h) PROVE AgeIs(m, h)'
  <2>1. CASE h = 0
    BY <1>1, <2>1 DEF AgeIs
  <2>2. CASE h > 0
    <3>1. (h - 1) * Interval \in Nat /\ h * Interval = (h - 1) * Interval + Interval
      BY <2>2, TimeFacts
    <3> QED
      BY <1>1, <2>2, <3>1, TimeFacts
         DEF AgeIs, stable30Track, TimeInv, ClockInv, LossInv
  <2> QED
    BY <2>1, <2>2
<1> QED
  BY <1>1 DEF AgeInv, stable30Track

LEMMA MeasureAge == TimeInv /\ AgeInv /\ MeasureRoute => AgeInv'
<1> SUFFICES ASSUME TimeInv, AgeInv, MeasureRoute PROVE AgeInv'
  OBVIOUS
<1>1. /\ last_control_ms' = now_ms /\ stage' = "track"
      /\ started
      /\ UNCHANGED <<started, stable30Track, gyro_stale_ticks, gyro_used, gyro_age>>
  BY DEF MeasureRoute, gyro, history
<1>2. now_ms \in Nat /\ now_ms >= last_control_ms + Interval
  BY ControlDueFact, TimeFacts DEF MeasureRoute, TimeInv, ClockInv
<1>3. CASE lost
  BY <1>1, <1>2, <1>3, IdleAge
<1>4. CASE ~lost
  <2>1. ASSUME NEW m \in Nat, NEW h \in Nat, AgeIs(m, h) PROVE AgeIs(m, h)'
    BY <1>1, <1>4, <2>1, GyroFacts DEF AgeIs, stable30Track
  <2> QED
    BY <1>1, <2>1 DEF AgeInv, stable30Track
<1> QED
  BY <1>3, <1>4

(* Before the lap the gyro has had no say, so its age may be counted afresh. *)
LEMMA StartLapAge == AgeInv /\ StartLap => AgeInv'
<1> SUFFICES ASSUME AgeInv, StartLap PROVE AgeInv'
  OBVIOUS
<1>1. gyro_age' = 0 /\ gyro_stale_ticks' = 0 /\ reacquire_count' = 0 /\ ~gyro_used'
      /\ started'
  BY DEF AgeInv, StartLap, history
<1>2. AgeIs(0, 0)'
  BY <1>1, FreshAge
<1> QED
  BY <1>1, <1>2, GyroFacts DEF AgeInv

LEMMA AgeInvInductive == Spec => []AgeInv
<1>1. Init => AgeInv
  <2> SUFFICES ASSUME Init PROVE AgeInv
    OBVIOUS
  <2>1. AgeIs(0, 0)
    BY GyroFacts DEF Init, AgeIs
  <2> QED
    BY <2>1, GyroFacts DEF Init, ClockInit, AgeInv
<1>2. TimeInv /\ AgeInv /\ [Next]_vars => AgeInv'
  <2> SUFFICES ASSUME TimeInv, AgeInv, [Next]_vars PROVE AgeInv'
    OBVIOUS
  <2> USE DEF gyro, history
  <2>1. CASE Timer
    BY <2>1, IdleAge DEF Timer, TimerTick, AgeInv
  <2>2. CASE GyroFrame
    BY <2>2, IdleAge DEF GyroFrame, clockVars, AgeInv
  <2>3. CASE Top
    BY <2>3, IdleAge DEF Top, ReadClock
  <2>4. CASE Sample
    BY <2>4, IdleAge DEF Sample
  <2>5. CASE ControlIdle
    BY <2>5, IdleAge DEF ControlIdle
  <2>6. CASE StartLap
    BY <2>6, StartLapAge
  <2>7. CASE MeasureRoute
    BY <2>7, MeasureAge
  <2>8. CASE Track
    BY <2>8, LoseLineAge, FollowLineAge
  <2>9. CASE Finish
    BY <2>9, IdleAge DEF Finish
  <2>10. CASE UNCHANGED vars
    BY <2>10, IdleAge DEF vars, clockVars, AgeInv
  <2> QED
    BY <2>1, <2>2, <2>3, <2>4, <2>5, <2>6, <2>7, <2>8, <2>9, <2>10, NextCases
<1> QED
  BY <1>1, <1>2, TimeInvInductive, PTL DEF Spec

(* A gyro that has stopped sending steers for a bounded number of periods:  *)
(* its age counts calls, the bound counts the grace periods in between      *)
(* (Stable30_Update_Gyro, empty.c:1076).                                         *)
THEOREM SilentGyroDropped == Spec => []SilentGyroIsDropped
<1>1. AgeInv => SilentGyroIsDropped
  <2> SUFFICES ASSUME AgeInv, gyro_used PROVE gyro_age <= GyroAgeLimit
    BY DEF SilentGyroIsDropped
  <2>1. /\ gyro_stale_ticks \in Nat /\ gyro_age \in Nat
        /\ gyro_stale_ticks <= StaleMax
    BY DEF AgeInv
  <2>2. PICK m \in Nat, h \in Nat : AgeIs(m, h)
    BY <2>1, GyroFacts DEF AgeInv
  <2> DEFINE most == StaleMax \div ReacquireCount
  <2>3. m * ReacquireCount <= StaleMax
    BY <2>1, <2>2, GyroFacts DEF AgeIs
  <2>4. m <= most /\ most \in Nat
    BY <2>3, DivBound, DivNat, GyroFacts
  <2> HIDE DEF most
  <2>5. GracePeriods * m <= GracePeriods * most
    BY <2>4, GyroFacts
  <2>6. GracePeriods * (most + 1) = GracePeriods * most + GracePeriods
    BY <2>4, GyroFacts
  <2>7. GracePeriods * m \in Nat /\ GracePeriods * most \in Nat
    BY <2>4, GyroFacts
  <2>8. gyro_age <= StaleMax + GracePeriods * (most + 1)
    BY <2>1, <2>2, <2>5, <2>6, <2>7, GyroFacts DEF AgeIs
  <2> QED
    BY <2>8 DEF GyroAgeLimit, most
<1> QED
  BY <1>1, AgeInvInductive, PTL

--------------------------------------------------------------------------------
(* The sum of some channels.                                                *)

Weight(bits, i) == IF i \in bits THEN i ELSE 0

Total(bits) == Weight(bits, 1) + Weight(bits, 2) + Weight(bits, 3)
               + Weight(bits, 4) + Weight(bits, 5) + Weight(bits, 6)

LEMMA TotalSplits ==
    ASSUME NEW bits \in SUBSET Channels, NEW x \in bits
    PROVE  Total(bits) = x + Total(bits \ {x})
BY DEF Total, Weight, Channels

Size(bits) ==
    LET one(i) == IF i \in bits THEN 1 ELSE 0
    IN  one(1) + one(2) + one(3) + one(4) + one(5) + one(6)

LEMMA SizeEmpty == Size({}) = 0
BY DEF Size

LEMMA SizeFalls ==
    ASSUME NEW bits \in SUBSET Channels, NEW x \in bits, NEW k \in Nat, Size(bits) <= k + 1
    PROVE  Size(bits \ {x}) <= k
BY DEF Size, Channels

LEMMA SumSetFact ==
    ASSUME NEW S \in SUBSET Channels
    PROVE  SumSet(S) = Total(S)
<1> DEFINE step(g) == [s \in SUBSET S |-> IF s = {} THEN 0
                       ELSE LET x == CHOOSE x \in s : TRUE IN x + g[s \ {x}]]
           iter == CHOOSE g : g = step(g)
<1>1. SumSet(S) = iter[S]
  BY DEF SumSet, FoldSet, MapThenFoldSet
<1> HIDE DEF step, iter
<1>2. iter = step(iter)
  <2> DEFINE t == [s \in SUBSET S |-> Total(s)]
  <2>1. ASSUME NEW s \in SUBSET S, s # {}
        PROVE  LET x == CHOOSE x \in s : TRUE IN x + t[s \ {x}] = Total(s)
    <3> DEFINE x == CHOOSE y \in s : TRUE
    <3>1. x \in s
      BY <2>1
    <3> HIDE DEF x
    <3>2. x + Total(s \ {x}) = Total(s)
      BY <3>1, TotalSplits
    <3>3. x + t[s \ {x}] = Total(s)
      BY <3>2
    <3> QED
      BY <3>3 DEF x
  <2>2. Total({}) = 0
    BY DEF Total, Weight
  <2>3. t = step(t)
    BY <2>1, <2>2 DEF step
  <2> HIDE DEF t
  <2> QED
    BY <2>3, Zenon DEF iter
<1>3. ASSUME NEW s \in SUBSET S
      PROVE  IF s = {} THEN iter[s] = 0 ELSE \E x \in s : iter[s] = x + iter[s \ {x}]
  <2>1. iter[s] = IF s = {} THEN 0 ELSE LET x == CHOOSE x \in s : TRUE IN x + iter[s \ {x}]
    BY <1>2 DEF step
  <2>2. s # {} => (CHOOSE x \in s : TRUE) \in s
    OBVIOUS
  <2> QED
    BY <2>1, <2>2
<1> DEFINE Right(k) == \A s \in SUBSET S : Size(s) <= k => iter[s] = Total(s)
<1>4. Right(0)
  <2> SUFFICES ASSUME NEW s \in SUBSET S, Size(s) <= 0 PROVE iter[s] = Total(s)
    OBVIOUS
  <2>1. s = {} /\ Total(s) = 0
    BY DEF Size, Total, Weight, Channels
  <2> QED
    BY <1>3, <2>1
<1>5. ASSUME NEW k \in 0 .. 5, Right(k) PROVE Right(k + 1)
  <2> SUFFICES ASSUME NEW s \in SUBSET S, Size(s) <= k + 1, s # {} PROVE iter[s] = Total(s)
    BY <1>4, SizeEmpty
  <2>1. PICK x \in s : iter[s] = x + iter[s \ {x}]
    BY <1>3
  <2>2. Size(s \ {x}) <= k
    BY SizeFalls
  <2>3. iter[s \ {x}] = Total(s \ {x})
    BY <1>5, <2>2
  <2> QED
    BY <2>1, <2>3, TotalSplits
<1> HIDE DEF Right
<1>6. Right(6)
  <2>1. Right(1) BY <1>4, <1>5
  <2>2. Right(2) BY <2>1, <1>5
  <2>3. Right(3) BY <2>2, <1>5
  <2>4. Right(4) BY <2>3, <1>5
  <2>5. Right(5) BY <2>4, <1>5
  <2> QED BY <2>5, <1>5
<1>7. Size(S) <= 6
  BY DEF Size
<1> QED
  BY <1>1, <1>6, <1>7 DEF Right

LEMMA LeastChannel ==
    ASSUME NEW S \in SUBSET (1 .. 6), S # {}
    PROVE  Min(S) \in S /\ \A i \in S : Min(S) <= i
<1>1. \E m \in S : \A i \in S : m <= i
  <2> DEFINE Least(m) == m \in S /\ \A i \in S : m <= i
  <2>1. 1 \in S => Least(1)
    OBVIOUS
  <2>2. 1 \notin S /\ 2 \in S => Least(2)
    OBVIOUS
  <2>3. 1 \notin S /\ 2 \notin S /\ 3 \in S => Least(3)
    OBVIOUS
  <2>4. 1 \notin S /\ 2 \notin S /\ 3 \notin S /\ 4 \in S => Least(4)
    OBVIOUS
  <2>5. S \cap {1, 2, 3, 4} = {} => \A i \in S : i \in {5, 6}
    OBVIOUS
  <2>6. S \cap {1, 2, 3, 4} = {} /\ 5 \in S => Least(5)
    BY <2>5
  <2>7. S \cap {1, 2, 3, 4} = {} /\ 5 \notin S => Least(6)
    <3>1. S # {} /\ (S \cap {1, 2, 3, 4} = {} /\ 5 \notin S => \A i \in S : i = 6)
      BY <2>5
    <3>2. S \cap {1, 2, 3, 4} = {} /\ 5 \notin S => 6 \in S
      BY <3>1
    <3> QED
      BY <3>1, <3>2
  <2> HIDE DEF Least
  <2>8. 1 \in S \/ 2 \in S \/ 3 \in S \/ 4 \in S \/ S \cap {1, 2, 3, 4} = {}
    OBVIOUS
  <2>9. \E m \in 1 .. 6 : Least(m)
    BY <2>1, <2>2, <2>3, <2>4, <2>6, <2>7, <2>8
  <2>10. PICK m : Least(m)
    BY <2>9
  <2> QED
    BY <2>10 DEF Least
<1> QED
  BY <1>1 DEF Min

(* The sum of a run of channels is its number of channels times its middle. *)
LEMMA RunTotal ==
    ASSUME NEW f \in 1 .. 6, NEW l \in 1 .. 6, f <= l
    PROVE  /\ 10 * Total(f .. l) \in 0 .. 255
           /\ (10 * Total(f .. l)) \div (l - f + 1) = 5 * (f + l)
<1> DEFINE one(i) == IF i \in f .. l THEN i ELSE 0
           T == Total(f .. l)
<1>1. T = one(1) + one(2) + one(3) + one(4) + one(5) + one(6)
  BY DEF Total, Weight
<1>2. T \in 0 .. 21 /\ 10 * T = (5 * (f + l)) * (l - f + 1)
  <2>1. CASE f = 1
    BY <1>1, <2>1
  <2>2. CASE f = 2
    BY <1>1, <2>2
  <2>3. CASE f = 3
    BY <1>1, <2>3
  <2>4. CASE f = 4
    BY <1>1, <2>4
  <2>5. CASE f = 5
    BY <1>1, <2>5
  <2>6. CASE f = 6
    BY <1>1, <2>6
  <2> QED
    BY <2>1, <2>2, <2>3, <2>4, <2>5, <2>6
<1> HIDE DEF T
<1> DEFINE n == l - f + 1
           p == 5 * (f + l)
<1>3. n \in 1 .. 6 /\ p \in 10 .. 60 /\ 10 * T = p * n
  BY <1>2
<1> HIDE DEF n, p
<1>4. (10 * T) \div n = p
  <2>1. CASE n = 1
    BY <1>3, <2>1
  <2>2. CASE n = 2
    BY <1>3, <2>2
  <2>3. CASE n = 3
    BY <1>3, <2>3
  <2>4. CASE n = 4
    BY <1>3, <2>4
  <2>5. CASE n = 5
    BY <1>3, <2>5
  <2>6. CASE n = 6
    BY <1>3, <2>6
  <2> QED
    BY <1>3, <2>1, <2>2, <2>3, <2>4, <2>5, <2>6
<1>5. 10 * T \in 0 .. 255
  BY <1>2
<1> QED
  BY <1>4, <1>5 DEF n, p, T

--------------------------------------------------------------------------------
(* Clusters.                                                                *)

LEMMA ClusterFact ==
    ASSUME NEW bits \in SUBSET Channels, NEW c \in Clusters(bits)
    PROVE  /\ c = <<c[1], c[2]>> /\ c[1] \in 1 .. 6 /\ c[2] \in 1 .. 6 /\ c[1] <= c[2]
           /\ c[1] .. c[2] \subseteq bits /\ c[1] - 1 \notin bits /\ c[2] + 1 \notin bits
           /\ Width(c) \in 1 .. 6 /\ Position(c) \in 10 .. 60
<1>1. c \in bits \X bits /\ c[1] <= c[2] /\ c[1] .. c[2] \subseteq bits
      /\ c[1] - 1 \notin bits /\ c[2] + 1 \notin bits
  BY DEF Clusters
<1>2. c = <<c[1], c[2]>> /\ c[1] \in bits /\ c[2] \in bits
  BY <1>1
<1>3. c[1] \in 1 .. 6 /\ c[2] \in 1 .. 6
  BY <1>2 DEF Channels
<1>4. Width(c) \in 1 .. 6 /\ Position(c) \in 10 .. 60
  BY <1>1, <1>3 DEF Width, Position
<1> QED
  BY <1>1, <1>2, <1>3, <1>4

LEMMA ClusterMade ==
    ASSUME NEW bits \in SUBSET Channels, NEW f \in bits, NEW l \in bits, f <= l,
           f .. l \subseteq bits, f - 1 \notin bits, l + 1 \notin bits
    PROVE  <<f, l>> \in Clusters(bits)
BY DEF Clusters

(* Clusters do not overlap.                                                 *)
LEMMA SameCluster ==
    ASSUME NEW bits \in SUBSET Channels, NEW c \in Clusters(bits), NEW d \in Clusters(bits),
           NEW i \in c[1] .. c[2], i \in d[1] .. d[2]
    PROVE  c = d
<1>1. ASSUME NEW a \in Clusters(bits), NEW b \in Clusters(bits), i \in a[1] .. a[2], i \in b[1] .. b[2]
      PROVE  a[1] <= b[1] /\ b[2] <= a[2]
  <2>1. ASSUME b[1] < a[1] PROVE FALSE
    <3>1. a[1] - 1 \in b[1] .. b[2]
      BY <1>1, <2>1, ClusterFact
    <3> QED
      BY <3>1, <1>1, ClusterFact
  <2>2. ASSUME a[2] < b[2] PROVE FALSE
    <3>1. a[2] + 1 \in b[1] .. b[2]
      BY <1>1, <2>2, ClusterFact
    <3> QED
      BY <3>1, <1>1, ClusterFact
  <2> QED
    BY <2>1, <2>2, <1>1, ClusterFact
<1>2. c[1] = d[1] /\ c[2] = d[2]
  BY <1>1, ClusterFact
<1> QED
  BY <1>2, ClusterFact

(* Every active channel is in a cluster.                                    *)
LEMMA Covered ==
    ASSUME NEW bits \in SUBSET Channels, NEW i \in bits
    PROVE  \E c \in Clusters(bits) : i \in c[1] .. c[2]
<1> DEFINE Firsts == {j \in 1 .. i : j .. i \subseteq bits}
           Lasts == {j \in i .. 6 : j + 1 \notin bits}
<1>0. i \in 1 .. 6
  BY DEF Channels
<1>1. PICK f \in Firsts : \A j \in Firsts : f <= j
  <2>1. i \in Firsts /\ Firsts \in SUBSET (1 .. 6)
    BY <1>0
  <2> HIDE DEF Firsts
  <2> QED
    BY <2>1, LeastChannel
<1>2. PICK l \in Lasts : \A j \in Lasts : l <= j
  <2>1. 6 \in Lasts /\ Lasts \in SUBSET (1 .. 6)
    BY <1>0 DEF Channels
  <2> HIDE DEF Lasts
  <2> QED
    BY <2>1, LeastChannel
<1>3. f - 1 \notin bits
  <2> SUFFICES ASSUME f - 1 \in bits PROVE FALSE
    OBVIOUS
  <2>1. f - 1 \in 1 .. i /\ f - 1 .. i \subseteq bits
    BY <1>0, <1>1 DEF Channels
  <2> QED
    BY <1>1, <2>1
<1>4. i .. l \subseteq bits
  <2> SUFFICES ASSUME NEW k \in i .. l, k \notin bits PROVE FALSE
    OBVIOUS
  <2>1. k - 1 \in Lasts /\ k - 1 < l
    BY <1>0, <1>2
  <2> QED
    BY <1>2, <2>1
<1>5. f \in bits /\ l \in bits /\ f <= l /\ f .. l \subseteq bits /\ l + 1 \notin bits /\ i \in f .. l
  BY <1>0, <1>1, <1>2, <1>4
<1>6. <<f, l>> \in Clusters(bits)
  BY <1>3, <1>5, ClusterMade
<1> QED
  BY <1>5, <1>6

--------------------------------------------------------------------------------
(* The preferred cluster.                                                   *)

(* c is a cluster of this set that is preferred to every other.             *)
IsBest(c, some, ref) == c \in some /\ \A d \in some : Preferred(c, d, ref)

LEMMA PreferredTotal ==
    ASSUME NEW bits \in SUBSET Channels, NEW ref \in Int,
           NEW b \in Clusters(bits), NEW c \in Clusters(bits), NEW d \in Clusters(bits)
    PROVE  /\ Preferred(c, c, ref)
           /\ Preferred(c, d, ref) \/ Preferred(d, c, ref)
           /\ Preferred(b, c, ref) /\ Preferred(c, d, ref) => Preferred(b, d, ref)
           /\ Preferred(c, d, ref) /\ Preferred(d, c, ref) => c = d
<1>1. ASSUME NEW a \in Clusters(bits)
      PROVE  Width(a) \in Int /\ Distance(Position(a), ref) \in Int /\ a[1] \in Int /\ a[1] \in a[1] .. a[2]
  BY ClusterFact DEF Distance
<1>2. Preferred(c, d, ref) /\ Preferred(d, c, ref) => c[1] = d[1]
  BY <1>1 DEF Preferred
<1>3. c[1] = d[1] => c = d
  BY <1>1, SameCluster
<1> QED
  BY <1>1, <1>2, <1>3 DEF Preferred

(* The better of the best so far and one cluster more.                      *)
LEMMA BestOfOneMore ==
    ASSUME NEW bits \in SUBSET Channels, NEW ref \in Int,
           NEW some \in SUBSET Clusters(bits), NEW b, IsBest(b, some, ref), NEW n \in Clusters(bits)
    PROVE  /\ Preferred(n, b, ref) => IsBest(n, some \cup {n}, ref)
           /\ Preferred(b, n, ref) => IsBest(b, some \cup {n}, ref)
BY PreferredTotal DEF IsBest

(* The clusters that begin in front of a channel.                           *)
Before(bits, i) == {c \in Clusters(bits) : c[1] < i}

LEMMA BestExists ==
    ASSUME NEW bits \in SUBSET Channels, bits # {}, NEW ref \in Int
    PROVE  \E c : IsBest(c, Clusters(bits), ref)
<1> DEFINE Found(i) == Before(bits, i) = {} \/ \E c : IsBest(c, Before(bits, i), ref)
<1>1. Found(1)
  BY ClusterFact DEF Before
<1>2. ASSUME NEW i \in 1 .. 6, Found(i) PROVE Found(i + 1)
  <2>1. CASE \A c \in Clusters(bits) : c[1] # i
    <3>1. Before(bits, i + 1) = Before(bits, i)
      BY <2>1, ClusterFact DEF Before
    <3> QED
      BY <1>2, <3>1
  <2>2. ASSUME NEW n \in Clusters(bits), n[1] = i PROVE Found(i + 1)
    <3>1. Before(bits, i + 1) = Before(bits, i) \cup {n}
      <4>1. ASSUME NEW c \in Clusters(bits), c[1] = i PROVE c = n
        BY <2>2, <4>1, ClusterFact, SameCluster
      <4> QED
        BY <2>2, <4>1, ClusterFact DEF Before
    <3>2. CASE Before(bits, i) = {}
      BY <3>1, <3>2, PreferredTotal DEF IsBest
    <3>3. ASSUME NEW b, IsBest(b, Before(bits, i), ref) PROVE Found(i + 1)
      <4>1. b \in Clusters(bits) /\ Before(bits, i) \in SUBSET Clusters(bits)
        BY <3>3 DEF IsBest, Before
      <4>2. IsBest(n, Before(bits, i + 1), ref) \/ IsBest(b, Before(bits, i + 1), ref)
        BY <3>1, <3>3, <4>1, BestOfOneMore, PreferredTotal
      <4> QED
        BY <4>2
    <3> QED
      BY <1>2, <3>2, <3>3
  <2> QED
    BY <2>1, <2>2
<1>3. Found(7)
  <2> HIDE DEF Found
  <2>1. Found(2) BY <1>1, <1>2
  <2>2. Found(3) BY <2>1, <1>2
  <2>3. Found(4) BY <2>2, <1>2
  <2>4. Found(5) BY <2>3, <1>2
  <2>5. Found(6) BY <2>4, <1>2
  <2> QED BY <2>5, <1>2
<1>4. Before(bits, 7) = Clusters(bits)
  BY ClusterFact DEF Before
<1>5. Clusters(bits) # {}
  BY Covered
<1> QED
  BY <1>3, <1>4, <1>5

LEMMA BestFact ==
    ASSUME NEW bits \in SUBSET Channels, bits # {}, NEW ref \in Int
    PROVE  /\ IsBest(Best(bits, ref), Clusters(bits), ref)
           /\ \A c : IsBest(c, Clusters(bits), ref) => c = Best(bits, ref)
<1>1. \E c \in Clusters(bits) : \A d \in Clusters(bits) : Preferred(c, d, ref)
  BY BestExists DEF IsBest
<1>2. IsBest(Best(bits, ref), Clusters(bits), ref)
  BY <1>1 DEF Best, IsBest
<1>3. ASSUME NEW c, IsBest(c, Clusters(bits), ref) PROVE c = Best(bits, ref)
  BY <1>2, <1>3, PreferredTotal DEF IsBest
<1> QED
  BY <1>2, <1>3

LEMMA ReferenceFact ==
    ASSUME NEW previous
    PROVE  Reference(previous) \in 10 .. 60
BY DEF Reference, Valid, Centre

(* A position is one between the outermost channels, or none.               *)
LEMMA ResolveRange ==
    ASSUME NEW bits \in SUBSET Channels, NEW previous
    PROVE  Resolve(bits, previous) \in {0} \cup 10 .. 60
<1>1. CASE bits = {} \/ bits = Channels
  BY <1>1 DEF Resolve, Centre
<1>2. CASE bits # {} /\ bits # Channels
  <2> DEFINE c == Best(bits, Reference(previous))
  <2>1. c \in Clusters(bits)
    BY <1>2, ReferenceFact, BestFact DEF IsBest
  <2>2. Position(c) \in 10 .. 60
    BY <2>1, ClusterFact
  <2>3. Resolve(bits, previous) \in {0, Position(c)}
    BY <1>2 DEF Resolve
  <2> QED
    BY <2>2, <2>3
<1> QED
  BY <1>1, <1>2

--------------------------------------------------------------------------------
(* Types.                                                                   *)

LEMMA TypeFacts ==
    /\ TimeMod \in Nat /\ TimeMod > 1
    /\ ReacquireCount \in Nat /\ ReacquireCount > 0
    /\ StaleCap \in Nat /\ AgeCap \in Nat /\ MaxRoute \in Nat
    /\ BootMs \in Nat /\ BootMs < TimeMod
    /\ Lines \subseteq SUBSET Channels /\ Steps \subseteq Int
BY StableLapAssumption, TimeModAssumption, BootMsAssumption, IntervalAssumption, MaxLagAssumption

LEMMA ValueRange ==
    ASSUME TypeOK
    PROVE  Value \in {0} \cup 10 .. 60
<1>1. ControlBits \in SUBSET Channels
  BY DEF ControlBits, TypeOK
<1> QED
  BY <1>1, ResolveRange DEF Value

LEMMA UpdateGyroType ==
    ASSUME TypeOK, UpdateGyro
    PROVE  /\ {gyro_new, gyro_last_seen, gyro_ever, gyro_used}' \subseteq BOOLEAN
           /\ gyro_stale_ticks' \in 0 .. StaleCap
<1>1. gyro_new' \in BOOLEAN /\ gyro_last_seen' \in BOOLEAN /\ gyro_ever' \in BOOLEAN
  BY DEF UpdateGyro, TypeOK
<1>2. gyro_stale_ticks' \in 0 .. StaleCap
  BY TypeFacts DEF UpdateGyro, TypeOK
<1>3. gyro_used' \in BOOLEAN
  BY DEF UpdateGyro
<1> QED
  BY <1>1, <1>2, <1>3

LEMMA TrackType == TypeOK /\ Track => TypeOK'
<1> SUFFICES ASSUME TypeOK, Track PROVE TypeOK'
  OBVIOUS
<1> DEFINE gyroTyped == /\ {gyro_new, gyro_last_seen, gyro_ever, gyro_used} \subseteq BOOLEAN
                        /\ gyro_stale_ticks \in 0 .. StaleCap
           lineTyped == /\ lost \in BOOLEAN /\ lost_since \in Clock
                        /\ reacquire_count \in 0 .. ReacquireCount - 1
                        /\ last_reliable_position \in 0 .. 60
                        /\ last_direction \in Sides /\ recovery_direction \in Sides
                        /\ drive \in Drives /\ searched \subseteq Sides
<1>1. ASSUME Value = 0 PROVE gyroTyped' /\ lineTyped'
  <2> DEFINE direction == IF lost THEN recovery_direction ELSE LossDirection
             since == IF lost THEN lost_since ELSE time
             lost_ms == Elapsed(time, since)
             side == SearchSide(lost_ms, direction)
  <2>1. LoseLine
    BY <1>1 DEF Track
  <2>2. direction \in Sides /\ side \in Sides
    <3>1. LossDirection \in Sides
      BY DEF LossDirection, TypeOK, Sides
    <3>2. direction \in Sides
      BY <3>1 DEF TypeOK
    <3> HIDE DEF direction, lost_ms
    <3> QED
      BY <3>2 DEF SearchSide, Sides
  <2>3. /\ lost' = TRUE /\ lost_since' = since /\ recovery_direction' = direction
        /\ reacquire_count' = 0
        /\ UNCHANGED <<last_reliable_position, last_direction>>
        /\ \/ drive' = "hold" /\ gyro_used' = FALSE /\ searched' = searched /\ UNCHANGED gyro
           \/ /\ drive' \in {"left", "right"} /\ searched' = searched \cup {side} /\ UpdateGyro
    BY <2>1 DEF LoseLine
  <2> HIDE DEF direction, side
  <2>4. lineTyped'
    BY <2>2, <2>3, TypeFacts DEF TypeOK, Drives
  <2>5. gyroTyped'
    BY <2>3, UpdateGyroType DEF TypeOK, gyro
  <2> QED
    BY <2>4, <2>5
<1>2. ASSUME Value # 0 PROVE gyroTyped' /\ lineTyped'
  <2>1. FollowLine
    BY <1>2 DEF Track
  <2>2. last_direction' \in Sides
    BY <2>1 DEF FollowLine, DirectionAfter, TypeOK, Sides
  <2>3. last_reliable_position' \in 0 .. 60
    BY <2>1, ValueRange DEF FollowLine
  <2>4. /\ lost' \in BOOLEAN /\ lost_since' \in Clock
        /\ reacquire_count' \in 0 .. ReacquireCount - 1
    <3>1. lost \in BOOLEAN /\ lost_since \in Clock /\ reacquire_count \in 0 .. ReacquireCount - 1
      BY DEF TypeOK
    <3>2. CASE lost /\ reacquire_count + 1 >= ReacquireCount
      <4>1. lost' = FALSE /\ lost_since' = 0 /\ reacquire_count' = 0
        BY <2>1, <3>2 DEF FollowLine
      <4>2. 0 \in Clock /\ 0 \in 0 .. ReacquireCount - 1
        BY TypeFacts DEF Clock
      <4> QED
        BY <4>1, <4>2
    <3>3. CASE lost /\ ~(reacquire_count + 1 >= ReacquireCount)
      <4>1. lost' = lost /\ lost_since' = lost_since /\ reacquire_count' = reacquire_count + 1
        BY <2>1, <3>3 DEF FollowLine
      <4>2. reacquire_count + 1 \in 0 .. ReacquireCount - 1
        BY <3>1, <3>3, TypeFacts
      <4> QED
        BY <3>1, <4>1, <4>2
    <3>4. CASE ~lost
      <4>1. lost' = lost /\ lost_since' = lost_since /\ reacquire_count' = reacquire_count
        BY <2>1, <3>4 DEF FollowLine
      <4> QED
        BY <3>1, <4>1
    <3> QED
      BY <3>2, <3>3, <3>4
  <2>5. recovery_direction' \in Sides /\ drive' \in Drives /\ searched' \subseteq Sides
    BY <2>1 DEF FollowLine, TypeOK, Drives
  <2>6. gyroTyped'
    BY <2>1, UpdateGyroType DEF FollowLine
  <2> QED
    BY <2>2, <2>3, <2>4, <2>5, <2>6
<1>3. /\ gyro_age' \in 0 .. AgeCap
      /\ good_row' \in 0 .. ReacquireCount + 1
      /\ blind_since' \in Clock \cup {NotBlind} /\ track_time' \in Clock
  BY TypeFacts DEF Track, AgeGyro, TypeOK
<1> QED
  BY <1>1, <1>2, <1>3 DEF Track, TypeOK, route

(* Type correctness of the 30 s lap: the positions it keeps are 0 or        *)
(* between the outermost channels whatever the sensors show, and its 8-bit  *)
(* counters stay below their limits.                                        *)
THEOREM TypeCorrect == Spec => []TypeOK
<1>1. Init => TypeOK
  <2> SUFFICES ASSUME Init PROVE TypeOK
    OBVIOUS
  <2>1. time \in 0 .. BootMs /\ now_ms = time /\ last_control_ms = time
        /\ last_1ms_sample = Elapsed(time, 1) /\ stage = "top"
    BY DEF Init, ClockInit
  <2>2. time \in Clock /\ 0 \in Clock
    BY <2>1, TypeFacts DEF Clock
  <2>3. Elapsed(time, 1) \in Clock
    BY <2>2, TypeFacts DEF Elapsed, Clock
  <2>4. {time, now_ms, last_1ms_sample, last_control_ms} \subseteq Clock
    BY <2>1, <2>2, <2>3
  <2>5. 0 \in 0 .. ReacquireCount - 1 /\ 0 \in 0 .. 60 /\ 0 \in 0 .. StaleCap
        /\ 0 \in 0 .. MaxRoute /\ ReacquireCount \in 0 .. ReacquireCount + 1 /\ 0 \in 0 .. AgeCap
    BY TypeFacts
  <2> QED
    BY <2>1, <2>2, <2>4, <2>5 DEF Init, TypeOK, Sides, Drives
<1>2. TypeOK /\ [Next]_vars => TypeOK'
  <2> SUFFICES ASSUME TypeOK, [Next]_vars PROVE TypeOK'
    OBVIOUS
  <2> USE DEF stable30Track, gyro, route, history
  <2>1. CASE Timer
    <3>1. time' \in Clock
      BY <2>1, TypeFacts DEF Timer, TimerTick, NextMs, TypeOK, Clock
    <3> QED
      BY <2>1, <3>1 DEF Timer, TimerTick, TypeOK
  <2>2. CASE GyroFrame
    BY <2>2 DEF GyroFrame, clockVars, TypeOK
  <2>3. CASE Top
    BY <2>3 DEF Top, ReadClock, TypeOK
  <2>4. CASE Sample
    <3>1. stable_bits' \subseteq Channels /\ last_1ms_sample' \in Clock
      BY <2>4, TypeFacts DEF Sample, TypeOK
    <3> QED
      BY <2>4, <3>1 DEF Sample, TypeOK
  <2>5. CASE ControlIdle
    BY <2>5 DEF ControlIdle, TypeOK
  <2>6. CASE StartLap
    <3>1. 0 \in Clock /\ 0 \in 0 .. ReacquireCount - 1 /\ Centre \in 0 .. 60
          /\ 0 \in 0 .. StaleCap /\ 0 \in 0 .. MaxRoute /\ 1 \in Sides /\ "off" \in Drives
      BY TypeFacts DEF Clock, Centre, Sides, Drives
    <3>2. {time, now_ms, last_1ms_sample, last_control_ms}' \subseteq Clock
      BY <2>6 DEF StartLap, TypeOK
    <3>3. {gyro_new, gyro_last_seen, gyro_ever, gyro_used}' \subseteq BOOLEAN
      BY <2>6 DEF StartLap, TypeOK
    <3> QED
      BY <2>6, <3>1, <3>2, <3>3 DEF StartLap, TypeOK
  <2>7. CASE MeasureRoute
    <3>1. Stable30_Route_Distance' \in 0 .. MaxRoute
      BY <2>7, TypeFacts DEF MeasureRoute, CountedRoute, TypeOK
    <3> QED
      BY <2>7, <3>1 DEF MeasureRoute, TypeOK
  <2>8. CASE Track
    BY <2>8, TrackType
  <2>9. CASE Finish
    BY <2>9 DEF Finish, TypeOK, Drives
  <2>10. CASE UNCHANGED vars
    BY <2>10 DEF vars, clockVars, TypeOK
  <2> QED
    BY <2>1, <2>2, <2>3, <2>4, <2>5, <2>6, <2>7, <2>8, <2>9, <2>10, NextCases
<1> QED
  BY <1>1, <1>2, PTL DEF Spec

--------------------------------------------------------------------------------
(* The loop: what it has is the best of the clusters it has passed.         *)

Ref == Reference(previous_position)

(* The best cluster of some, as the loop remembers it.                      *)
Kept(c, some) ==
    /\ IsBest(c, some, Ref)
    /\ best_position = Position(c) /\ best_count = Width(c)
    /\ best_distance = Distance(Position(c), Ref)

Taken == Before(active_bits, index)

TurnInv ==
    /\ active_bits \in SUBSET Channels
    /\ index \in 1 .. 7
    /\ index = 1 \/ index \notin active_bits
    /\ (\E i \in active_bits : i < index) => Taken # {}
    /\ Taken = {} => best_position = 0
    /\ Taken # {} => \E c : Kept(c, Taken)
    /\ Returned => result = Resolve(active_bits, previous_position)

(* The cluster a turn of the loop takes.                                    *)
LEMMA TurnCluster ==
    ASSUME TurnInv, MoreClusters
    PROVE  LET first == NextFirst(index)
               last == NextLast(first)
               n == <<first, last>>
           IN  /\ first \in active_bits /\ last \in active_bits /\ index <= first /\ first <= last
               /\ n \in Clusters(active_bits)
               /\ \A i \in active_bits : i < last + 1 => i < index \/ i \in first .. last
<1> DEFINE first == NextFirst(index)
           last == NextLast(first)
           Firsts == {i \in active_bits : i >= index}
           Lasts == {i \in first .. 6 : i + 1 \notin active_bits}
<1>0. active_bits \in SUBSET (1 .. 6) /\ index \in 1 .. 7
  BY DEF TurnInv, Channels
<1>1. first \in Firsts /\ \A i \in Firsts : first <= i
  <2>1. Firsts \in SUBSET (1 .. 6) /\ Firsts # {}
    BY <1>0 DEF MoreClusters
  <2>2. first = Min(Firsts)
    BY DEF NextFirst
  <2> HIDE DEF Firsts, first
  <2> QED
    BY <2>1, <2>2, LeastChannel
<1>2. first \in 1 .. 6 /\ first \in active_bits /\ index <= first
  BY <1>0, <1>1
<1>3. last \in Lasts /\ \A i \in Lasts : last <= i
  <2>1. Lasts \in SUBSET (1 .. 6) /\ 6 \in Lasts
    BY <1>0, <1>2
  <2>2. last = Min(Lasts)
    BY DEF NextLast
  <2> HIDE DEF Lasts, last
  <2> QED
    BY <2>1, <2>2, LeastChannel
<1> HIDE DEF first, last
<1>4. first .. last \subseteq active_bits
  <2> SUFFICES ASSUME NEW k \in first .. last, k \notin active_bits PROVE FALSE
    OBVIOUS
  <2>1. k - 1 \in Lasts /\ k - 1 < last
    BY <1>2, <1>3
  <2> QED
    BY <1>3, <2>1
<1>5. first <= last /\ last \in active_bits /\ last + 1 \notin active_bits /\ last \in 1 .. 6
  BY <1>2, <1>3, <1>4
<1>6. first - 1 \notin active_bits
  BY <1>0, <1>1, <1>2 DEF TurnInv
<1>7. <<first, last>> \in Clusters(active_bits)
  BY <1>2, <1>4, <1>5, <1>6, ClusterMade DEF TurnInv
<1>8. \A i \in active_bits : i < last + 1 => i < index \/ i \in first .. last
  BY <1>0, <1>1, <1>2, <1>5
<1> QED
  BY <1>2, <1>5, <1>7, <1>8 DEF first, last

(* Behind it one cluster more has been passed.                              *)
LEMMA OneMorePassed ==
    ASSUME TurnInv, NEW n \in Clusters(active_bits), index <= n[1],
           \A i \in active_bits : i < n[2] + 1 => i < index \/ i \in n[1] .. n[2]
    PROVE  Before(active_bits, n[2] + 1) = Before(active_bits, index) \cup {n}
<1>1. n[1] \in 1 .. 6 /\ n[2] \in 1 .. 6 /\ n[1] <= n[2] /\ index \in 1 .. 7
      /\ active_bits \in SUBSET Channels
  BY ClusterFact DEF TurnInv
<1>2. ASSUME NEW c \in Clusters(active_bits), c[1] < n[2] + 1 PROVE c[1] < index \/ c = n
  <2>1. c[1] \in active_bits /\ c[1] \in c[1] .. c[2]
    BY <1>1, ClusterFact
  <2>2. c[1] < index \/ c[1] \in n[1] .. n[2]
    BY <1>2, <2>1
  <2> QED
    BY <1>1, <2>1, <2>2, SameCluster
<1>3. ASSUME NEW c \in Clusters(active_bits), c[1] < index PROVE c[1] < n[2] + 1
  BY <1>1, <1>3, ClusterFact
<1> QED
  BY <1>1, <1>2, <1>3 DEF Before

(* Its position and distance, through the bytes of the loop.                *)
LEMMA TurnBytes ==
    ASSUME NEW n \in Clusters(active_bits), active_bits \in SUBSET Channels
    PROVE  /\ Byte(10 * SumSet(n[1] .. n[2])) \div (n[2] - n[1] + 1) = Position(n)
           /\ Byte(Distance(Position(n), Ref)) = Distance(Position(n), Ref)
<1>1. n[1] \in 1 .. 6 /\ n[2] \in 1 .. 6 /\ n[1] <= n[2] /\ Position(n) \in 10 .. 60
  BY ClusterFact
<1>2. SumSet(n[1] .. n[2]) = Total(n[1] .. n[2])
  BY <1>1, SumSetFact DEF Channels
<1>3. /\ 10 * Total(n[1] .. n[2]) \in 0 .. 255
      /\ (10 * Total(n[1] .. n[2])) \div (n[2] - n[1] + 1) = Position(n)
  BY <1>1, RunTotal DEF Position
<1>4. \A b \in 0 .. 255 : Byte(b) = b
  BY DEF Byte
<1>5. Distance(Position(n), Ref) \in 0 .. 255
  BY <1>1, ReferenceFact DEF Distance, Ref
<1> QED
  BY <1>2, <1>3, <1>4, <1>5

LEMMA TakeClusterInv == TurnInv /\ TakeCluster => TurnInv'
<1> SUFFICES ASSUME TurnInv, TakeCluster PROVE TurnInv'
  OBVIOUS
<1> DEFINE first == NextFirst(index)
           last == NextLast(first)
           n == <<first, last>>
           better == \/ best_position = 0
                     \/ Width(n) > best_count
                     \/ Width(n) = best_count /\ Distance(Position(n), Ref) < best_distance
<1>1. /\ first \in active_bits /\ last \in active_bits /\ index <= first /\ first <= last
      /\ n \in Clusters(active_bits)
      /\ \A i \in active_bits : i < last + 1 => i < index \/ i \in first .. last
  BY TurnCluster DEF TakeCluster
<1>2. /\ index' = last + 1
      /\ IF better
         THEN /\ best_position' = Position(n)
              /\ best_count' = Width(n)
              /\ best_distance' = Distance(Position(n), Ref)
         ELSE UNCHANGED <<best_position, best_count, best_distance>>
      /\ UNCHANGED <<active_bits, previous_position, result>>
      /\ ~Returned /\ Returned' = Returned
  <2> DEFINE count == last - first + 1
             position == Byte(10 * SumSet(first .. last)) \div count
             distance == Byte(Distance(position, Reference(previous_position)))
  <2>1. n[1] = first /\ n[2] = last /\ count = Width(n)
    BY DEF Width
  <2> HIDE DEF first, last
  <2>2. position = Position(n) /\ distance = Distance(Position(n), Ref)
    BY <1>1, <2>1, TurnBytes DEF TurnInv, Ref
  <2>3. /\ index' = last + 1
        /\ IF \/ best_position = 0
              \/ count > best_count
              \/ count = best_count /\ distance < best_distance
           THEN best_position' = position /\ best_count' = count /\ best_distance' = distance
           ELSE UNCHANGED <<best_position, best_count, best_distance>>
        /\ UNCHANGED <<active_bits, previous_position, result>>
    BY DEF TakeCluster, first, last
  <2>4. ~Returned /\ Returned' = Returned
    BY <2>3 DEF TakeCluster, Searching, Returned
  <2> QED
    BY <2>1, <2>2, <2>3, <2>4
<1>3. n[1] = first /\ n[2] = last
  OBVIOUS
<1> HIDE DEF first, last, n, better
<1>4. Taken' = Taken \cup {n} /\ Ref' = Ref
  BY <1>1, <1>2, <1>3, OneMorePassed DEF Taken, Ref
<1>5. last \in 1 .. 6 /\ last + 1 \notin active_bits /\ active_bits \in SUBSET Channels
  BY <1>1, <1>3, ClusterFact DEF TurnInv
<1>6. Width(n) \in Int /\ Distance(Position(n), Ref) \in Int /\ n[1] \in Int
  BY <1>1, <1>5, ClusterFact, ReferenceFact DEF Distance, Ref
<1>7. Ref \in Int /\ Taken \in SUBSET Clusters(active_bits)
  BY ReferenceFact DEF Ref, Taken, Before
<1> PICK m : m = n
  OBVIOUS
<1>8. \E c : Kept(c, Taken)'
  <2>1. CASE Taken = {}
    <3>1. better
      BY <2>1 DEF better, TurnInv
    <3>2. IsBest(n, {n}, Ref)
      BY <1>1, <1>5, <1>7, PreferredTotal DEF IsBest
    <3>3. Kept(m, Taken)'
      BY <1>2, <1>4, <2>1, <3>1, <3>2 DEF Kept
    <3> QED
      BY <3>3
  <2>2. ASSUME NEW b, Kept(b, Taken) PROVE \E c : Kept(c, Taken)'
    <3>1. IsBest(b, Taken, Ref) /\ b \in Clusters(active_bits) /\ b[1] < index
      BY <1>7, <2>2 DEF Kept, IsBest, Taken, Before
    <3>2. /\ best_position = Position(b) /\ best_count = Width(b)
          /\ best_distance = Distance(Position(b), Ref)
      BY <2>2 DEF Kept
    <3>3. Width(b) \in Int /\ Position(b) # 0 /\ Distance(Position(b), Ref) \in Int /\ b[1] \in Int
      BY <1>5, <1>7, <3>1, ClusterFact DEF Distance
    <3>4. b[1] < n[1]
      BY <1>1, <1>3, <1>6, <3>1, <3>3 DEF TurnInv
    <3>5. CASE better
      <4>1. Preferred(n, b, Ref)
        BY <1>6, <3>2, <3>3, <3>5 DEF better, Preferred
      <4>2. IsBest(n, Taken \cup {n}, Ref)
        BY <1>1, <1>5, <1>7, <3>1, <4>1, BestOfOneMore
      <4>3. Kept(m, Taken)'
        BY <1>2, <1>4, <3>5, <4>2 DEF Kept
      <4> QED
        BY <4>3
    <3>6. CASE ~better
      <4>1. Preferred(b, n, Ref)
        BY <1>6, <3>2, <3>3, <3>4, <3>6 DEF better, Preferred
      <4>2. IsBest(b, Taken \cup {n}, Ref)
        BY <1>1, <1>5, <1>7, <3>1, <4>1, BestOfOneMore
      <4>3. Kept(b, Taken)'
        BY <1>2, <1>4, <3>2, <3>6, <4>2 DEF Kept
      <4> QED
        BY <4>3
    <3> QED
      BY <3>5, <3>6
  <2> QED
    BY <2>1, <2>2 DEF TurnInv
<1> QED
  BY <1>2, <1>4, <1>5, <1>8 DEF TurnInv

LEMMA ReturnInv == TurnInv /\ Return => TurnInv'
<1> SUFFICES ASSUME TurnInv, Return PROVE TurnInv'
  OBVIOUS
<1> USE DEF Return
<1>1. active_bits \in SUBSET Channels /\ active_bits # {} /\ active_bits # Channels
  BY DEF TurnInv, Searching
<1>2. \A i \in active_bits : i < index
  BY <1>1 DEF MoreClusters, TurnInv, Channels
<1>3. Taken = Clusters(active_bits)
  BY <1>1, <1>2, ClusterFact DEF Taken, Before
<1>4. PICK c : Kept(c, Clusters(active_bits))
  BY <1>1, <1>2, <1>3 DEF TurnInv
<1>5. c = Best(active_bits, Ref) /\ c \in Clusters(active_bits)
  BY <1>1, <1>4, BestFact, ReferenceFact DEF Kept, Ref, IsBest
<1>6. Position(c) \in 10 .. 60
  BY <1>1, <1>5, ClusterFact
<1>7. Stray(c, previous_position) <=>
          Valid(previous_position) /\ best_count = 1 /\ best_distance > 20
  <2>1. Valid(previous_position) => Ref = previous_position
    BY DEF Ref, Reference
  <2> QED
    BY <1>4, <2>1 DEF Stray, Kept
<1>8. result' = Resolve(active_bits, previous_position)
  BY <1>1, <1>4, <1>5, <1>7 DEF Resolve, Ref, Kept
<1>9. UNCHANGED <<active_bits, previous_position, index, best_position, best_count, best_distance>>
  OBVIOUS
<1> QED
  BY <1>8, <1>9 DEF TurnInv, Taken, Kept, Ref

LEMMA TurnInvInductive == ResolveSpec => []TurnInv
<1>1. ResolveInit => TurnInv
  <2> SUFFICES ASSUME ResolveInit PROVE TurnInv
    OBVIOUS
  <2> USE DEF ResolveInit
  <2>1. active_bits \in SUBSET Channels /\ index = 1 /\ ~Returned /\ best_position = 0
    BY DEF Returned
  <2>2. Taken = {} /\ \A i \in active_bits : ~(i < index)
    BY <2>1, ClusterFact DEF Taken, Before, Channels
  <2> QED
    BY <2>1, <2>2 DEF TurnInv
<1>2. TurnInv /\ [ResolveNext]_resolveVars => TurnInv'
  <2> SUFFICES ASSUME TurnInv, [ResolveNext]_resolveVars PROVE TurnInv'
    OBVIOUS
  <2>1. CASE ReturnEarly
    <3>1. result' = Resolve(active_bits, previous_position)
      BY <2>1 DEF ReturnEarly, Resolve, Channels
    <3> QED
      BY <2>1, <3>1 DEF ReturnEarly, TurnInv, Taken, Kept, Ref
  <2>2. CASE UNCHANGED resolveVars
    BY <2>2 DEF resolveVars, TurnInv, Taken, Kept, Ref, Returned
  <2> QED
    BY <2>1, <2>2, TakeClusterInv, ReturnInv DEF ResolveNext
<1> QED
  BY <1>1, <1>2, PTL DEF ResolveSpec

LEMMA SixChannels == IsFiniteSet(Channels) /\ Cardinality(Channels) = 6
<1>1. IsFiniteSet(1 .. 6) /\ Cardinality(1 .. 6) = IF 1 > 6 THEN 0 ELSE 6 - 1 + 1
  <2>1. \A a, b \in Int : IsFiniteSet(a .. b) /\ Cardinality(a .. b) = IF a > b THEN 0 ELSE b - a + 1
    BY FS_Interval
  <2>2. 1 \in Int /\ 6 \in Int
    OBVIOUS
  <2> QED
    BY <2>1, <2>2, Zenon
<1> QED
  BY <1>1 DEF Channels

(* A single cluster is all there is.                                        *)
LEMMA SingleCluster ==
    ASSUME NEW bits \in SUBSET Channels, NEW c \in Clusters(bits), Cardinality(Clusters(bits)) <= 1
    PROVE  bits = c[1] .. c[2]
<1>1. IsFiniteSet(Clusters(bits))
  <2>1. IsFiniteSet(bits)
    BY SixChannels, FS_Subset
  <2>2. IsFiniteSet(bits \X bits)
    BY <2>1, FS_Product
  <2>3. Clusters(bits) \in SUBSET (bits \X bits)
    BY DEF Clusters
  <2> QED
    BY <2>2, <2>3, FS_Subset
<1>2. ASSUME NEW d \in Clusters(bits), d # c PROVE FALSE
  <2>1. IsFiniteSet({c}) /\ Cardinality({c}) = 1
    BY FS_Singleton
  <2>2. Cardinality({c} \cup {d}) = 2
    BY <1>2, <2>1, FS_AddElement
  <2>3. Cardinality({c} \cup {d}) <= Cardinality(Clusters(bits))
    BY <1>1, FS_Subset
  <2>4. Cardinality(Clusters(bits)) \in Nat
    BY <1>1, FS_CardinalityType
  <2> QED
    BY <2>2, <2>3, <2>4
<1>3. ASSUME NEW i \in bits PROVE i \in c[1] .. c[2]
  BY <1>2, Covered
<1> QED
  BY <1>3, ClusterFact

(* Without a reference and of one cluster both modes make the same.         *)
LEMMA SameAsCentroid ==
    ASSUME NEW bits \in SUBSET Channels, Cardinality(Clusters(bits)) <= 1
    PROVE  Resolve(bits, 0) = Centroid(bits)
<1>1. CASE bits = {}
  BY <1>1 DEF Resolve, Centroid
<1>2. CASE bits = Channels
  <2>1. SumSet(bits) = Total(1 .. 6) /\ Cardinality(bits) = 6
    BY <1>2, SumSetFact, SixChannels DEF Channels
  <2>2. (10 * Total(1 .. 6)) \div 6 = 35
    BY DEF Total, Weight
  <2> QED
    BY <1>2, <2>1, <2>2 DEF Resolve, Centroid, Centre, Channels
<1>3. CASE bits # {} /\ bits # Channels
  <2> DEFINE c == Best(bits, Reference(0))
  <2>1. c \in Clusters(bits)
    BY <1>3, BestFact, ReferenceFact DEF IsBest
  <2>2. ~Stray(c, 0)
    BY DEF Stray, Valid
  <2>3. Resolve(bits, 0) = Position(c)
    BY <1>3, <2>2 DEF Resolve
  <2> HIDE DEF c
  <2>4. bits = c[1] .. c[2] /\ c[1] \in 1 .. 6 /\ c[2] \in 1 .. 6 /\ c[1] <= c[2]
    BY <2>1, SingleCluster, ClusterFact
  <2>5. Cardinality(bits) = c[2] - c[1] + 1
    BY <2>4, FS_Interval
  <2>6. SumSet(bits) = Total(c[1] .. c[2])
    BY <2>4, SumSetFact
  <2>7. (10 * Total(c[1] .. c[2])) \div (c[2] - c[1] + 1) = Position(c)
    BY <2>4, RunTotal DEF Position
  <2> QED
    BY <1>3, <2>3, <2>5, <2>6, <2>7 DEF Centroid
<1> QED
  BY <1>1, <1>2, <1>3

(* The loop of Stable30_Resolve_Position, with its 8-bit sums, returns the  *)
(* declared choice for every set of channels and every previous position;   *)
(* of a single line without a reference, that is the centroid.              *)
THEOREM LoopComputesResolve == ResolveSpec => []ComputesResolve
<1>1. TurnInv => ComputesResolve
  BY SameAsCentroid DEF TurnInv, ComputesResolve
<1> QED
  BY <1>1, TurnInvInductive, PTL

--------------------------------------------------------------------------------
(* Left and right.                                                          *)

Image(c) == <<7 - c[2], 7 - c[1]>>

LEMMA MirroredFact ==
    ASSUME NEW bits \in SUBSET Channels
    PROVE  /\ Mirrored(bits) \in SUBSET Channels /\ Mirrored(Mirrored(bits)) = bits
           /\ \A i \in Int : i \in Mirrored(bits) <=> 7 - i \in bits
<1>1. \A i \in Int : i \in Mirrored(bits) <=> 7 - i \in bits
  <2> SUFFICES ASSUME NEW i \in Int PROVE i \in Mirrored(bits) <=> 7 - i \in bits
    OBVIOUS
  <2>1. \A j \in bits : j \in Int
    BY DEF Channels
  <2>2. 7 - (7 - i) = i /\ \A j \in Int : 7 - j = i => 7 - i = j
    OBVIOUS
  <2> QED
    BY <2>1, <2>2 DEF Mirrored
<1>2. Mirrored(bits) \in SUBSET Channels
  BY DEF Mirrored, Channels
<1>3. ASSUME NEW i \in bits PROVE i \in Mirrored(Mirrored(bits))
  <2>1. 7 - i \in Mirrored(bits) /\ 7 - (7 - i) = i
    BY DEF Mirrored, Channels
  <2> QED
    BY <2>1 DEF Mirrored
<1>4. ASSUME NEW i \in Mirrored(Mirrored(bits)) PROVE i \in bits
  <2>1. PICK j \in Mirrored(bits) : i = 7 - j
    BY DEF Mirrored
  <2>2. j \in Int
    BY <1>2 DEF Channels
  <2> QED
    BY <1>1, <2>1, <2>2
<1> QED
  BY <1>1, <1>2, <1>3, <1>4

LEMMA ImageFact ==
    ASSUME NEW bits \in SUBSET Channels, NEW c \in Clusters(bits)
    PROVE  /\ Image(c) \in Clusters(Mirrored(bits)) /\ Image(Image(c)) = c
           /\ Width(Image(c)) = Width(c) /\ Position(Image(c)) = 70 - Position(c)
<1>1. /\ c = <<c[1], c[2]>> /\ c[1] \in 1 .. 6 /\ c[2] \in 1 .. 6 /\ c[1] <= c[2]
      /\ c[1] .. c[2] \subseteq bits /\ c[1] - 1 \notin bits /\ c[2] + 1 \notin bits
  BY ClusterFact
<1> DEFINE f == 7 - c[2]
           l == 7 - c[1]
<1>2. f \in 1 .. 6 /\ l \in 1 .. 6 /\ f <= l
  BY <1>1
<1>3. f .. l \subseteq Mirrored(bits)
  <2> SUFFICES ASSUME NEW i \in f .. l PROVE 7 - i \in bits
    BY <1>2, MirroredFact
  <2>1. 7 - i \in c[1] .. c[2]
    BY <1>1
  <2> QED
    BY <1>1, <2>1
<1>4. f - 1 \notin Mirrored(bits) /\ l + 1 \notin Mirrored(bits)
  <2>1. f - 1 \in Int /\ l + 1 \in Int /\ 7 - (f - 1) = c[2] + 1 /\ 7 - (l + 1) = c[1] - 1
    BY <1>1
  <2> QED
    BY <1>1, <2>1, MirroredFact
<1>5. f \in Mirrored(bits) /\ l \in Mirrored(bits)
  BY <1>2, <1>3
<1>6. <<f, l>> \in Clusters(Mirrored(bits))
  BY <1>2, <1>3, <1>4, <1>5, MirroredFact, ClusterMade
<1>7. Image(Image(c)) = c
  <2>1. 7 - (7 - c[1]) = c[1] /\ 7 - (7 - c[2]) = c[2]
    BY <1>1
  <2> QED
    BY <1>1, <2>1 DEF Image
<1>8. Width(Image(c)) = Width(c) /\ Position(Image(c)) = 70 - Position(c)
  BY <1>1 DEF Width, Position, Image
<1> QED
  BY <1>6, <1>7, <1>8 DEF Image

LEMMA DistanceMirrored ==
    ASSUME NEW a \in Int, NEW b \in Int
    PROVE  Distance(70 - a, 70 - b) = Distance(a, b)
BY DEF Distance

LEMMA BestMirrored ==
    ASSUME NEW bits \in SUBSET Channels, bits # {}, NEW ref \in Int, ~Tied(bits, ref)
    PROVE  Best(Mirrored(bits), 70 - ref) = Image(Best(bits, ref))
<1> DEFINE c == Best(bits, ref)
           other == Mirrored(bits)
<1>1. IsBest(c, Clusters(bits), ref) /\ c \in Clusters(bits)
  BY BestFact DEF IsBest
<1>2. other \in SUBSET Channels /\ other # {}
  BY MirroredFact DEF Mirrored
<1>3. Image(c) \in Clusters(other)
  BY <1>1, ImageFact
<1>4. ASSUME NEW d \in Clusters(other) PROVE Preferred(Image(c), d, 70 - ref)
  <2> DEFINE e == Image(d)
  <2>1. e \in Clusters(bits) /\ Image(e) = d /\ Width(e) = Width(d)
        /\ Position(e) = 70 - Position(d)
    BY <1>2, <1>4, ImageFact, MirroredFact
  <2> HIDE DEF e, c, other
  <2>2. Preferred(c, e, ref)
    BY <1>1, <2>1 DEF IsBest
  <2>3. c = e \/ Width(c) # Width(e) \/ Distance(Position(c), ref) # Distance(Position(e), ref)
    BY <1>1, <2>1 DEF Tied
  <2>4. Width(Image(c)) = Width(c) /\ Position(Image(c)) = 70 - Position(c)
    BY <1>1, ImageFact
  <2>5. Position(c) \in Int /\ Position(e) \in Int /\ Position(d) \in Int /\ Width(c) \in Int /\ Width(e) \in Int
    BY <1>1, <1>2, <2>1, ClusterFact
  <2>6. Position(d) = 70 - Position(e)
    BY <2>1, <2>5
  <2>7. /\ Distance(Position(Image(c)), 70 - ref) = Distance(Position(c), ref)
        /\ Distance(Position(d), 70 - ref) = Distance(Position(e), ref)
    BY <2>4, <2>5, <2>6, DistanceMirrored
  <2>8. CASE c = e
    BY <1>2, <1>3, <2>1, <2>8, PreferredTotal
  <2>9. CASE c # e
    BY <2>1, <2>2, <2>3, <2>4, <2>5, <2>7, <2>9 DEF Preferred
  <2> QED
    BY <2>8, <2>9
<1>5. IsBest(Image(c), Clusters(other), 70 - ref)
  BY <1>3, <1>4 DEF IsBest
<1> HIDE DEF c, other
<1>6. Image(c) = Best(other, 70 - ref)
  BY <1>2, <1>5, BestFact
<1> QED
  BY <1>6 DEF c, other

LEMMA ResolveMirrored ==
    ASSUME NEW bits \in SUBSET Channels, NEW previous \in Int,
           Valid(previous) \/ previous = 0, ~Tied(bits, Reference(previous))
    PROVE  Resolve(Mirrored(bits), IF previous = 0 THEN 0 ELSE 70 - previous)
               = IF Resolve(bits, previous) = 0 THEN 0 ELSE 70 - Resolve(bits, previous)
<1> DEFINE other == Mirrored(bits)
           mirrored == IF previous = 0 THEN 0 ELSE 70 - previous
           ref == Reference(previous)
<1>1. /\ Valid(mirrored) <=> Valid(previous)
      /\ Reference(mirrored) = 70 - ref
      /\ Valid(previous) => mirrored = 70 - previous
  BY DEF Valid, Reference, Centre
<1>2. /\ other \in SUBSET Channels /\ (other = {} <=> bits = {})
      /\ (other = Channels <=> bits = Channels)
  <2>1. Mirrored({}) = {} /\ Mirrored(Channels) = Channels
    BY DEF Mirrored, Channels
  <2> QED
    BY <2>1, MirroredFact
<1>3. CASE bits = {} \/ bits = Channels
  BY <1>2, <1>3 DEF Resolve, Centre
<1>4. CASE bits # {} /\ bits # Channels
  <2> DEFINE c == Best(bits, ref)
  <2>1. ref \in Int
    BY ReferenceFact
  <2>2. c \in Clusters(bits)
    BY <1>4, <2>1, BestFact DEF IsBest
  <2>3. Best(other, Reference(mirrored)) = Image(c)
    BY <1>1, <1>4, <2>1, BestMirrored
  <2>4. /\ Width(Image(c)) = Width(c) /\ Position(Image(c)) = 70 - Position(c)
        /\ Position(c) \in 10 .. 60
    BY <2>2, ImageFact, ClusterFact
  <2>5. Stray(Image(c), mirrored) <=> Stray(c, previous)
    <3>1. Valid(previous) => Distance(Position(Image(c)), mirrored) = Distance(Position(c), previous)
      BY <1>1, <2>4, DistanceMirrored
    <3> QED
      BY <1>1, <2>4, <3>1 DEF Stray
  <2>6. Resolve(bits, previous) = IF Stray(c, previous) THEN 0 ELSE Position(c)
    BY <1>4 DEF Resolve
  <2>7. Resolve(other, mirrored) = IF Stray(Image(c), mirrored) THEN 0 ELSE Position(Image(c))
    BY <1>2, <1>4, <2>3 DEF Resolve
  <2> HIDE DEF c, other, mirrored, ref
  <2>8. Resolve(other, mirrored) = IF Resolve(bits, previous) = 0 THEN 0 ELSE 70 - Resolve(bits, previous)
    BY <2>4, <2>5, <2>6, <2>7
  <2> QED
    BY <2>8 DEF other, mirrored
<1> QED
  BY <1>3, <1>4

(* The mirror image of a reading resolves to the mirrored position, for     *)
(* every reading in which no two clusters tie and every previous position.  *)
THEOREM LeftRightTreatedAlike == ResolveSpec => []LeftRightAlike
<1>1. TurnInv => LeftRightAlike
  <2> SUFFICES ASSUME TurnInv, Returned, Valid(previous_position) \/ previous_position = 0,
                      ~Tied(active_bits, Reference(previous_position))
               PROVE  LET mirrored == Resolve(Mirrored(active_bits),
                                  IF previous_position = 0 THEN 0 ELSE 70 - previous_position)
                      IN  mirrored = IF result = 0 THEN 0 ELSE 70 - result
    BY DEF LeftRightAlike
  <2>1. previous_position \in Int
    BY DEF Valid
  <2> QED
    BY <2>1, ResolveMirrored DEF TurnInv
<1> QED
  BY <1>1, TurnInvInductive, PTL

================================================================================
