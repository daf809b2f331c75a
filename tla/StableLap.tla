------------------------------- MODULE StableLap -------------------------------
(***************************************************************************)
(* Question 3: one lap with the ball on board, slow and smooth, to be       *)
(* finished within 30 s.                                                    *)
(*                                                                          *)
(* Every control period Mode_Question_Three integrates the route, lets      *)
(* Run_Track_Stable30 follow the line or look for it, and applies the two   *)
(* stop conditions.  Losing the line opens a recovery: hold the last        *)
(* targets, turn towards the side where the line went, then sweep from side *)
(* to side; it closes after ReacquireCount readings in a row that see the   *)
(* line.  The gyro, whose frames arrive in the UART interrupt, corrects the *)
(* turning while its data are recent.                                       *)
(*                                                                          *)
(* Abstractions: speeds, feedback and feedforward terms are left out,       *)
(* `drive` keeps which branch commanded the wheels and `gyro_used` whether  *)
(* the gyro had a say; the stable bits of TrackFilter are any set of Lines; *)
(* the filtered error is its sign; a gyro frame is the fact that            *)
(* GyroUpdateCount() moved.  Distance is as in FastLap.                     *)
(***************************************************************************)
EXTENDS LoopClock, LinePosition

CONSTANTS
    GraceMs,          \* STABLE30_LOST_GRACE_MS
    TightMs,          \* STABLE30_RECOVERY_TIGHT_MS
    SweepMs,          \* STABLE30_RECOVERY_SWEEP_MS
    ReacquireCount,   \* STABLE30_RECOVERY_REACQUIRE_COUNT
    StaleMax,         \* STABLE30_GYRO_STALE_TICKS_MAX
    StaleCap,         \* 255U, where gyro_stale_ticks saturates
    BIgnoreStart, BIgnoreEnd,  \* STABLE30_B_MARK_IGNORE_START_MM, _END_MM
    FinishRoute,      \* STABLE30_LAP_DISTANCE_MM + STABLE30_FINISH_PASS_DISTANCE_MM
    MaxRunMs,         \* STABLE30_MAX_RUN_TIME_MS
    StepCap,          \* a distance step of 100 mm or more is taken for a glitch
    Lines,            \* the sets of channels the filter may report
    Steps,            \* the distance steps a control period may measure, in mm
    ImuFitted,        \* whether the IMU sends gyro frames
    AgeCap,           \* bound on the history variables that count periods
    MaxRoute,         \* bound on the route (int32_t in the code)
    Horizon           \* bound on `time`, before the counter wraps

ASSUME StableLapAssumption ==
    /\ GraceMs \in Nat \ {0} /\ TightMs \in Nat /\ SweepMs \in Nat \ {0}
    /\ GraceMs <= TightMs
    /\ ReacquireCount \in Nat \ {0}
    /\ StaleMax \in Nat /\ StaleCap \in Nat /\ StaleMax < StaleCap
    /\ BIgnoreStart \in Nat /\ BIgnoreEnd \in Nat
    /\ FinishRoute \in Nat \ {0} /\ MaxRunMs \in Nat \ {0}
    /\ StepCap \in Nat \ {0} /\ MaxRoute \in Nat
    /\ Lines \subseteq SUBSET Channels
    /\ Steps \subseteq Int /\ 0 \in Steps
    /\ ImuFitted \in BOOLEAN
    /\ AgeCap \in Nat
    /\ Horizon \in Nat /\ Horizon < TimeMod /\ BootMs <= Horizon

(* Two looks for the line in a row are never a whole sweep apart: the       *)
(* control period is 20 ms, STABLE30_RECOVERY_SWEEP_MS is 700 ms.           *)
ASSUME SweepAssumption == Interval + 2 * MaxLag <= SweepMs + 1

VARIABLES
    started,                  \* the mode function's static flag
    stable_bits,              \* what Track_ReadStable would return now
    lost, lost_since, reacquire_count,
    last_reliable_position,
    last_direction,           \* -1 or 1: sign of the filtered error
    recovery_direction,       \* -1 left, 1 right
    gyro_new,                 \* GyroUpdateCount() # gyro_last_update_count
    gyro_last_seen,           \* gyro_last_update_count # 0
    gyro_ever,                \* GyroUpdateCount() # 0
    gyro_stale_ticks,
    Stable30_Route_Distance, Stable30_Run_Start_Time,
    drive,                    \* the command the wheels are under
    gyro_used,                \* the last period let the gyro correct the turn
    \* History variables, read by the properties only.
    track_time,   \* the `time` the last Run_Track_Stable30 was given
    good_row,     \* periods in a row that resolved a position, at first unbounded
    blind_since,  \* track_time of the first of the last unbroken row of periods
                  \* without a position, NotBlind after one with a position
    searched,     \* the sides searched since blind_since
    gyro_age,     \* periods since a gyro frame entered the filter, or the start
    stop_cause    \* which stop condition held first, "none" before

stable30Track == <<lost, lost_since, reacquire_count, last_reliable_position,
                   last_direction, recovery_direction>>
gyro == <<gyro_new, gyro_last_seen, gyro_ever, gyro_stale_ticks>>
route == <<Stable30_Route_Distance, Stable30_Run_Start_Time>>
history == <<track_time, good_row, blind_since, searched, gyro_age, stop_cause>>
vars == <<clockVars, started, stable_bits, stable30Track, gyro, route,
          drive, gyro_used, history>>

NotBlind == -1

Sides == {-1, 1}

Drives == {"off", "follow", "reacquire", "hold", "left", "right"}

AtRest == stage \notin {"track", "finish"}

Init ==
    /\ ClockInit
    /\ started = FALSE
    /\ stable_bits = {}
    /\ lost = FALSE
    /\ lost_since = 0
    /\ reacquire_count = 0
    /\ last_reliable_position = 0
    /\ last_direction = 1
    /\ recovery_direction = 1
    /\ gyro_new = FALSE
    /\ gyro_last_seen = FALSE
    /\ gyro_ever = FALSE
    /\ gyro_stale_ticks = 0
    /\ Stable30_Route_Distance = 0
    /\ Stable30_Run_Start_Time = 0
    /\ drive = "off"
    /\ gyro_used = FALSE
    /\ track_time = 0
    /\ good_row = ReacquireCount
    /\ blind_since = NotBlind
    /\ searched = {}
    /\ gyro_age = 0
    /\ stop_cause = "none"

--------------------------------------------------------------------------------

Timer ==
    /\ time < Horizon
    /\ TimerTick
    /\ UNCHANGED <<started, stable_bits, stable30Track, gyro, route,
                   drive, gyro_used, history>>

\* The UART interrupt completes a gyro frame: g_imu_gyro_update_count++.
GyroFrame ==
    /\ ImuFitted
    /\ ~gyro_new
    /\ gyro_new' = TRUE
    /\ gyro_ever' = TRUE
    /\ UNCHANGED <<clockVars, started, stable_bits, stable30Track,
                   gyro_last_seen, gyro_stale_ticks, route,
                   drive, gyro_used, history>>

Top ==
    /\ ReadClock
    /\ UNCHANGED <<started, stable_bits, stable30Track, gyro, route,
                   drive, gyro_used, history>>

\* The 1 ms stage.  Q2_Finish_Fast_Sample runs too, and does nothing: the
\* route of the 20 s mode stays 0.
Sample ==
    /\ stage = "sample"
    /\ stage' = "control"
    /\ IF SampleDue
       THEN last_1ms_sample' = now_ms /\ stable_bits' \in Lines
       ELSE UNCHANGED <<last_1ms_sample, stable_bits>>
    /\ UNCHANGED <<time, now_ms, last_control_ms, started, stable30Track,
                   gyro, route, drive, gyro_used, history>>

ControlIdle ==
    /\ stage = "control"
    /\ ~ControlDue
    /\ stage' = "top"
    /\ UNCHANGED <<time, now_ms, last_1ms_sample, last_control_ms, started,
                   stable_bits, stable30Track, gyro, route,
                   drive, gyro_used, history>>

\* First entry of the mode: Run_Stop and Stable30_Track_Reset, which also
\* clears the filter of the sensors.
StartLap ==
    /\ stage = "control"
    /\ ControlDue
    /\ ~started
    /\ stage' = "track"
    /\ last_control_ms' = now_ms
    /\ started' = TRUE
    /\ stable_bits' = {}
    /\ lost' = FALSE
    /\ lost_since' = 0
    /\ reacquire_count' = 0
    /\ last_reliable_position' = Centre
    /\ last_direction' = 1
    /\ recovery_direction' = 1
    /\ gyro_new' = FALSE
    /\ gyro_last_seen' = gyro_ever
    /\ gyro_stale_ticks' = 0
    /\ Stable30_Route_Distance' = 0
    /\ Stable30_Run_Start_Time' = time
    /\ drive' = "off"
    /\ UNCHANGED <<time, now_ms, last_1ms_sample, gyro_ever, gyro_used, history>>

\* Fault: the distance of a search is counted too.
CountedRouteLost(step) ==
    IF 0 < step /\ step < StepCap THEN Stable30_Route_Distance + step
    ELSE Stable30_Route_Distance

\* A step is counted only while the line is held and only if plausible.
CountedRoute(step) ==
    IF ~lost /\ 0 < step /\ step < StepCap
    THEN Stable30_Route_Distance + step
    ELSE Stable30_Route_Distance

MeasureRoute ==
    /\ stage = "control"
    /\ ControlDue
    /\ started
    /\ stage' = "track"
    /\ last_control_ms' = now_ms
    /\ \E step \in Steps :
          /\ CountedRoute(step) <= MaxRoute
          /\ Stable30_Route_Distance' = CountedRoute(step)
    /\ UNCHANGED <<time, now_ms, last_1ms_sample, started, stable_bits,
                   stable30Track, gyro, Stable30_Run_Start_Time,
                   drive, gyro_used, history>>

--------------------------------------------------------------------------------
\* Run_Track_Stable30.

\* The channels control looks at: mark B beside the track is not the line.
ControlBits ==
    IF BIgnoreStart <= Stable30_Route_Distance
       /\ Stable30_Route_Distance <= BIgnoreEnd
    THEN stable_bits \ {6} ELSE stable_bits

Observed == Resolve(ControlBits, 0)

\* Track_Value.  While the line is lost there is no position to compare with.
Value == Resolve(ControlBits, IF lost THEN 0 ELSE last_reliable_position)

\* Fault: the 8-bit age wraps instead of saturating.
UpdateGyroWrapping ==
    /\ gyro_new' = FALSE
    /\ gyro_last_seen' = (gyro_last_seen \/ gyro_new)
    /\ gyro_stale_ticks' = IF gyro_new THEN 0
                           ELSE (gyro_stale_ticks + 1) % (StaleCap + 1)
    /\ gyro_used' = (gyro_last_seen' /\ gyro_stale_ticks' <= StaleMax)
    /\ UNCHANGED gyro_ever

\* Stable30_Update_Gyro, and whether the correction that follows is not 0.
UpdateGyro ==
    /\ gyro_new' = FALSE
    /\ gyro_last_seen' = (gyro_last_seen \/ gyro_new)
    /\ gyro_stale_ticks' = IF gyro_new THEN 0
                           ELSE IF gyro_stale_ticks < StaleCap
                           THEN gyro_stale_ticks + 1
                           ELSE gyro_stale_ticks
    /\ gyro_used' = (gyro_last_seen' /\ gyro_stale_ticks' <= StaleMax)
    /\ UNCHANGED gyro_ever

\* The side to search first: where the refused signal was, else where the
\* line went.
LossDirection ==
    IF Observed > Centre THEN 1
    ELSE IF Observed < Centre /\ Observed # 0 THEN -1
    ELSE last_direction

\* Fault: no sweep, the turn goes on towards the first side.
SearchSideFixed(lost_ms, direction) == direction

\* The side to turn to after lost_ms milliseconds without the line.
SearchSide(lost_ms, direction) ==
    IF /\ lost_ms >= TightMs
       /\ ((lost_ms - TightMs) \div SweepMs) % 2 = 0
    THEN -direction ELSE direction

\* Fault: a gap in the confirmation does not start it again.
LoseLineKeepCount ==
    /\ lost' = TRUE
    /\ lost_since' = IF lost THEN lost_since ELSE time
    /\ recovery_direction' = IF lost THEN recovery_direction ELSE LossDirection
    /\ drive' = "hold"
    /\ gyro_used' = FALSE
    /\ UNCHANGED <<reacquire_count, last_reliable_position, last_direction,
                   searched, gyro>>

\* A period without a position.  During the grace time the last targets are
\* held and the gyro is not consulted.
LoseLine ==
    LET since == IF lost THEN lost_since ELSE time
        direction == IF lost THEN recovery_direction ELSE LossDirection
        lost_ms == Elapsed(time, since)
        side == SearchSide(lost_ms, direction)
    IN  /\ lost' = TRUE
        /\ lost_since' = since
        /\ recovery_direction' = direction
        /\ reacquire_count' = 0
        /\ UNCHANGED <<last_reliable_position, last_direction>>
        /\ IF lost_ms < GraceMs
           THEN /\ drive' = "hold"
                /\ gyro_used' = FALSE
                /\ searched' = searched
                /\ UNCHANGED gyro
           ELSE /\ drive' = IF side = 1 THEN "right" ELSE "left"
                /\ searched' = searched \cup {side}
                /\ UpdateGyro

\* The sign of the filtered error after a position was resolved.  The first
\* reading of a recovery restarts the filter at the reading itself; a later
\* one leaves the sign to the history.
DirectionAfter(value) ==
    IF lost /\ reacquire_count = 0
    THEN IF value > Centre THEN {1} ELSE IF value < Centre THEN {-1}
         ELSE {last_direction}
    ELSE Sides

\* A period with a position.  While the line counts as lost it is followed at
\* reduced speed, and enough such periods in a row end the recovery.
FollowLine ==
    /\ last_direction' \in DirectionAfter(Value)
    /\ last_reliable_position' = Value
    /\ drive' = IF lost THEN "reacquire" ELSE "follow"
    /\ UpdateGyro
    /\ IF lost /\ reacquire_count + 1 >= ReacquireCount
       THEN lost' = FALSE /\ lost_since' = 0 /\ reacquire_count' = 0
       ELSE /\ reacquire_count' = IF lost THEN reacquire_count + 1
                                  ELSE reacquire_count
            /\ UNCHANGED <<lost, lost_since>>
    /\ searched' = {}
    /\ UNCHANGED recovery_direction

\* History: a frame the filter took makes its value new, a period without one
\* makes it older.
AgeGyro ==
    gyro_age' = IF gyro_new /\ ~gyro_new' THEN 0
                ELSE IF gyro_age < AgeCap THEN gyro_age + 1 ELSE gyro_age

Track ==
    /\ stage = "track"
    /\ stage' = "finish"
    /\ IF Value = 0 THEN LoseLine ELSE FollowLine
    /\ AgeGyro
    /\ good_row' = IF Value = 0 THEN 0
                   ELSE IF good_row <= ReacquireCount THEN good_row + 1
                   ELSE good_row
    /\ blind_since' = IF Value # 0 THEN NotBlind
                      ELSE IF blind_since = NotBlind THEN time ELSE blind_since
    /\ track_time' = time
    /\ UNCHANGED <<time, now_ms, last_1ms_sample, last_control_ms, started,
                   stable_bits, route, stop_cause>>

\* The two stop conditions at the end of Mode_Question_Three.
\* Fault: the end of the lap is recognised only with the line in sight.
PassedOnLine == ~lost /\ Stable30_Route_Distance >= FinishRoute

Passed == Stable30_Route_Distance >= FinishRoute

\* Fault: the time limit does not apply to a search.
TimedOutOnLine == ~lost /\ Elapsed(time, Stable30_Run_Start_Time) >= MaxRunMs

TimedOut == Elapsed(time, Stable30_Run_Start_Time) >= MaxRunMs

Finish ==
    /\ stage = "finish"
    /\ stage' = "top"
    /\ drive' = IF Passed \/ TimedOut THEN "off" ELSE drive
    /\ stop_cause' = IF stop_cause # "none" THEN stop_cause
                     ELSE IF Passed THEN "passed"
                     ELSE IF TimedOut THEN "timeout" ELSE "none"
    /\ UNCHANGED <<time, now_ms, last_1ms_sample, last_control_ms, started,
                   stable_bits, stable30Track, gyro, route, gyro_used,
                   track_time, good_row, blind_since, searched, gyro_age>>

Loop == Top \/ Sample \/ ControlIdle \/ StartLap \/ MeasureRoute \/ Track \/ Finish

Next == Timer \/ GyroFrame \/ Loop

Spec == Init /\ [][Next]_vars

\* Nothing is assumed of the IMU: it may fall silent at any moment.
FairSpec == Spec /\ WF_vars(Timer) /\ WF_vars(Loop)

--------------------------------------------------------------------------------

TypeOK ==
    /\ {time, now_ms, last_1ms_sample, last_control_ms} \subseteq Clock
    /\ stage \in {"top", "sample", "control", "track", "finish"}
    /\ started \in BOOLEAN /\ lost \in BOOLEAN
    /\ stable_bits \subseteq Channels
    /\ lost_since \in Clock
    /\ reacquire_count \in 0 .. ReacquireCount - 1
    /\ last_reliable_position \in 0 .. 60
    /\ last_direction \in Sides /\ recovery_direction \in Sides
    /\ {gyro_new, gyro_last_seen, gyro_ever, gyro_used} \subseteq BOOLEAN
    /\ gyro_stale_ticks \in 0 .. StaleCap
    /\ Stable30_Route_Distance \in 0 .. MaxRoute
    /\ Stable30_Run_Start_Time \in Clock
    /\ drive \in Drives
    /\ track_time \in Clock
    /\ good_row \in 0 .. ReacquireCount + 1
    /\ blind_since \in Clock \cup {NotBlind}
    /\ searched \subseteq Sides
    /\ gyro_age \in 0 .. AgeCap
    /\ stop_cause \in {"none", "passed", "timeout"}

\* Once a stop condition has held, the car is stopped at the end of this and
\* every later period, although Run_Track_Stable30 goes on running first.
StopIsFinal == stop_cause # "none" /\ AtRest => drive = "off"

\* With the ball on board the car goes back to full speed only after
\* ReacquireCount readings in a row have confirmed the line: one period in
\* between without the line starts the confirmation again.
FullSpeedNeedsReacquire == drive = "follow" => good_row > ReacquireCount

\* A recovery that has been blind from its start has turned to both sides by
\* the time the first sweep is over: a line on either side is not missed
\* because the sweep never got there.
BothSidesSearched ==
    /\ lost
    /\ blind_since = lost_since
    /\ track_time - lost_since >= TightMs + SweepMs
    => searched = Sides

\* The most periods one grace time can take, and the most that can pass between
\* two frames with the gyro still in use: a period of grace does not count
\* towards StaleMax, and a new grace time needs ReacquireCount readings first.
GracePeriods == (GraceMs + MaxLag + Interval - 1) \div Interval
GyroAgeLimit == StaleMax + GracePeriods * (StaleMax \div ReacquireCount + 1)

\* A gyro that has fallen silent stops steering the car within a bounded number
\* of periods, even though gyro_stale_ticks counts calls and not periods.
SilentGyroIsDropped == gyro_used => gyro_age <= GyroAgeLimit

\* The route never counts distance the car drove while looking for the line:
\* if the line was lost in the last period, the distance up to the next reading
\* is dropped.
RouteCountsHeldLine ==
    [][Stable30_Route_Distance' > Stable30_Route_Distance =>
          blind_since = NotBlind /\ good_row >= ReacquireCount]_vars

\* While the sensors see the line under the car all the time, the line does not
\* count as lost.
LineHeldIsNotLost == (Lines = {{3, 4}} /\ started) => ~lost

\* Whatever the sensors, the encoders and the gyro do, the car ends stopped.
StopsForGood == <>[](AtRest => drive = "off")

\* The lap as its caller sees it.  Between Run_Track_Stable30 and the stop
\* conditions the wheels are what the conditions are about to make of them.
Phase ==
    IF ~started THEN "ready" ELSE IF stop_cause = "none" THEN "running" ELSE "ended"

Wheels ==
    IF drive = "off" \/ (stage = "finish" /\ (Passed \/ TimedOut)) THEN "off" ELSE "on"

L == INSTANCE Lap WITH phase <- Phase, wheels <- Wheels

\* The 30 s question keeps the promise of a lap: its end, by the route or by
\* the time limit, is final, although Run_Track_Stable30 commands the wheels
\* first in every later period.
RefinesLap == L!Spec

================================================================================
