-------------------------------- MODULE FastLap --------------------------------
(***************************************************************************)
(* Question 2: one lap without the ball, to be finished within 20 s.        *)
(*                                                                          *)
(* Every control period Mode_Question_Two integrates the route from the     *)
(* encoder distance, follows the line with Run_Track, and then applies a    *)
(* chain of stop conditions.  Every millisecond of the last stretch         *)
(* Q2_Finish_Fast_Sample looks for the transverse line A.  The two share    *)
(* the route and the latch, and the timer interrupt moves `time` between    *)
(* any two of their steps.                                                  *)
(*                                                                          *)
(* Abstractions: speeds and PD terms are left out, `drive` keeps which      *)
(* branch commanded the wheels; a reading of the six sensors keeps whether  *)
(* any channel is active, on which side, and whether at least               *)
(* Q2_FINISH_ACTIVE_MIN are; Distance and Q2_Distance_Last are their        *)
(* difference at the moment the mode function subtracts them.               *)
(***************************************************************************)
EXTENDS LoopClock

CONSTANTS
    GraceMs,         \* TRACK_LOST_GRACE_MS
    LostStopMs,      \* TRACK_LOST_STOP_MS
    SearchStart,     \* Q2_FINISH_SEARCH_START_MM
    AfterLine,       \* Q2_AFTER_LINE_COMMAND_MM
    Fallback,        \* FAST20_ENCODER_FALLBACK_COMMAND_MM
    StepCap,         \* a distance step of 100 mm or more is taken for a glitch
    ConfirmSamples,  \* Q2_FINISH_CONFIRM_SAMPLES
    MaxRunMs,        \* Q2_MAX_RUN_TIME_MS
    Steps,           \* the distance steps a control period may measure, in mm
    MaxRoute,        \* bound on the route (int32_t in the code)
    Horizon          \* bound on `time`, before the counter wraps

\* The first conjunct of AfterLine is the _Static_assert on the two distances.
ASSUME FastLapAssumption ==
    /\ AfterLine \in Nat \ {0}
    /\ GraceMs \in Nat /\ LostStopMs \in Nat \ {0} /\ GraceMs <= LostStopMs
    /\ SearchStart \in Nat \ {0} /\ Fallback \in Nat /\ SearchStart < Fallback
    /\ StepCap \in Nat \ {0} /\ ConfirmSamples \in Nat \ {0}
    /\ MaxRunMs \in Nat \ {0} /\ MaxRoute \in Nat
    /\ Steps \subseteq Int /\ 0 \in Steps
    /\ Horizon \in Nat /\ Horizon < TimeMod /\ BootMs <= Horizon

VARIABLES
    started,                           \* the mode function's static flag
    Track_Lost, Track_Lost_Since,
    Track_Last_Direction,              \* -1 or 1: sign of the filtered error
    Q2_Route_Distance, Q2_Run_Start_Time,
    Q2_Finish_Last_Sample, Q2_Finish_Hit_Count,
    Q2_Finish_Latched, Q2_Finish_Latched_Route_Distance,
    drive,                             \* the command the wheels are under
    \* History variables, read by the properties only.
    track_time,    \* the `time` the last Run_Track was given
    blind_since,   \* track_time of the first of the last unbroken row of empty
                   \* readings, NotBlind if the last reading saw the line
    last_seen,     \* side of the last reading that saw the line
    wide_streak,   \* length of the last row of wide 1 ms readings
    stop_cause,    \* which test of the stop chain fired first, "none" before
    stop_coast     \* route driven past the latch when stop_cause was set

lapVars == <<started, Track_Lost, Track_Lost_Since, Track_Last_Direction,
             Q2_Route_Distance, Q2_Run_Start_Time>>
finishVars == <<Q2_Finish_Last_Sample, Q2_Finish_Hit_Count,
                Q2_Finish_Latched, Q2_Finish_Latched_Route_Distance>>
history == <<track_time, blind_since, last_seen, wide_streak,
             stop_cause, stop_coast>>
vars == <<clockVars, lapVars, finishVars, drive, history>>

NotBlind == -1

\* Run_Track and Q2_Finish_Fast_Sample tell these readings apart.
Readings == {"none", "left", "mid", "right", "wide"}

Drives == {"off", "follow", "grace", "search_left", "search_right"}

\* A control period is complete: nothing is left between Run_Track and the
\* stop chain, so `drive` is what the wheels obey until the next period.
AtRest == stage \notin {"track", "finish"}

Init ==
    /\ ClockInit
    /\ started = FALSE
    /\ Track_Lost = FALSE
    /\ Track_Lost_Since = 0
    /\ Track_Last_Direction = 1
    /\ Q2_Route_Distance = 0
    /\ Q2_Run_Start_Time = 0
    /\ Q2_Finish_Last_Sample = 0
    /\ Q2_Finish_Hit_Count = 0
    /\ Q2_Finish_Latched = FALSE
    /\ Q2_Finish_Latched_Route_Distance = 0
    /\ drive = "off"
    /\ track_time = 0
    /\ blind_since = NotBlind
    /\ last_seen = "either"
    /\ wide_streak = 0
    /\ stop_cause = "none"
    /\ stop_coast = 0

--------------------------------------------------------------------------------

Timer ==
    /\ time < Horizon
    /\ TimerTick
    /\ UNCHANGED <<lapVars, finishVars, drive, history>>

Top ==
    /\ ReadClock
    /\ UNCHANGED <<lapVars, finishVars, drive, history>>

\* The early return of Q2_Finish_Fast_Sample, taken with the route still short.
BeforeSearch ==
    /\ Q2_Route_Distance < SearchStart
    /\ Q2_Finish_Hit_Count' = 0
    /\ UNCHANGED <<Q2_Finish_Last_Sample, Q2_Finish_Latched,
                   Q2_Finish_Latched_Route_Distance>>

\* The early return for the other two reasons.
NoFurtherScan ==
    /\ Q2_Route_Distance >= SearchStart
    /\ Q2_Finish_Latched \/ now_ms = Q2_Finish_Last_Sample
    /\ UNCHANGED finishVars

\* Fault: the latch is not consulted, so a later wide row latches again.
ScanAgain(wide) ==
    /\ Q2_Route_Distance >= SearchStart
    /\ now_ms # Q2_Finish_Last_Sample
    /\ Q2_Finish_Last_Sample' = now_ms
    /\ Q2_Finish_Hit_Count' = IF wide THEN Q2_Finish_Hit_Count + 1 ELSE 0
    /\ IF Q2_Finish_Hit_Count' >= ConfirmSamples
       THEN /\ Q2_Finish_Latched' = TRUE
            /\ Q2_Finish_Latched_Route_Distance' = Q2_Route_Distance
       ELSE UNCHANGED <<Q2_Finish_Latched, Q2_Finish_Latched_Route_Distance>>

\* Fault: a narrow reading does not start the row again.
ScanNoReset(wide) ==
    /\ Q2_Route_Distance >= SearchStart
    /\ ~Q2_Finish_Latched
    /\ now_ms # Q2_Finish_Last_Sample
    /\ Q2_Finish_Last_Sample' = now_ms
    /\ Q2_Finish_Hit_Count' = IF wide THEN Q2_Finish_Hit_Count + 1
                              ELSE Q2_Finish_Hit_Count
    /\ Q2_Finish_Latched' = (Q2_Finish_Hit_Count' >= ConfirmSamples)
    /\ Q2_Finish_Latched_Route_Distance' =
           IF Q2_Finish_Latched' THEN Q2_Route_Distance
           ELSE Q2_Finish_Latched_Route_Distance

\* A raw reading of the search zone: ConfirmSamples wide ones in a row latch
\* the route at which line A was met.
Scan(wide) ==
    /\ Q2_Route_Distance >= SearchStart
    /\ ~Q2_Finish_Latched
    /\ now_ms # Q2_Finish_Last_Sample
    /\ Q2_Finish_Last_Sample' = now_ms
    /\ Q2_Finish_Hit_Count' = IF wide THEN Q2_Finish_Hit_Count + 1 ELSE 0
    /\ IF Q2_Finish_Hit_Count' >= ConfirmSamples
       THEN /\ Q2_Finish_Latched' = TRUE
            /\ Q2_Finish_Latched_Route_Distance' = Q2_Route_Distance
       ELSE UNCHANGED <<Q2_Finish_Latched, Q2_Finish_Latched_Route_Distance>>

Q2_Finish_Fast_Sample(wide) ==
    BeforeSearch \/ NoFurtherScan \/ Scan(wide)

\* The 1 ms stage.
Sample ==
    /\ stage = "sample"
    /\ stage' = "control"
    /\ IF SampleDue
       THEN /\ last_1ms_sample' = now_ms
            /\ \E wide \in BOOLEAN :
                  /\ Q2_Finish_Fast_Sample(wide)
                  /\ wide_streak' = IF wide /\ wide_streak < ConfirmSamples
                                    THEN wide_streak + 1
                                    ELSE IF wide THEN wide_streak ELSE 0
       ELSE UNCHANGED <<last_1ms_sample, finishVars, wide_streak>>
    /\ UNCHANGED <<time, now_ms, last_control_ms, lapVars, drive,
                   track_time, blind_since, last_seen, stop_cause, stop_coast>>

ControlIdle ==
    /\ stage = "control"
    /\ ~ControlDue
    /\ stage' = "top"
    /\ UNCHANGED <<time, now_ms, last_1ms_sample, last_control_ms,
                   lapVars, finishVars, drive, history>>

\* First entry of the mode: Run_Stop, Track_Control_Reset and the Q2_ state.
\* Distance - Q2_Distance_Last is 0, so no step is counted.
StartLap ==
    /\ stage = "control"
    /\ ControlDue
    /\ ~started
    /\ stage' = "track"
    /\ last_control_ms' = now_ms
    /\ started' = TRUE
    /\ Track_Lost' = FALSE
    /\ Track_Lost_Since' = 0
    /\ Track_Last_Direction' = 1
    /\ Q2_Route_Distance' = 0
    /\ Q2_Run_Start_Time' = time
    /\ Q2_Finish_Last_Sample' = time
    /\ Q2_Finish_Hit_Count' = 0
    /\ Q2_Finish_Latched' = FALSE
    /\ Q2_Finish_Latched_Route_Distance' = 0
    /\ drive' = "off"
    /\ UNCHANGED <<time, now_ms, last_1ms_sample, history>>

\* Fault: an implausibly long step is counted.
CountedRouteUncapped(step) ==
    IF ~Track_Lost /\ 0 < step THEN Q2_Route_Distance + step
    ELSE Q2_Route_Distance

\* A step is counted only while the line is held and only if plausible.
CountedRoute(step) ==
    IF ~Track_Lost /\ 0 < step /\ step < StepCap
    THEN Q2_Route_Distance + step
    ELSE Q2_Route_Distance

\* Later entries: the distance since the last one extends the route.
MeasureRoute ==
    /\ stage = "control"
    /\ ControlDue
    /\ started
    /\ stage' = "track"
    /\ last_control_ms' = now_ms
    /\ \E step \in Steps :
          /\ CountedRoute(step) <= MaxRoute
          /\ Q2_Route_Distance' = CountedRoute(step)
    /\ UNCHANGED <<time, now_ms, last_1ms_sample, started, Track_Lost,
                   Track_Lost_Since, Track_Last_Direction, Q2_Run_Start_Time,
                   finishVars, drive, history>>

\* Milliseconds without the line, for a loss that began or continues now.
LostMs(since) == Elapsed(time, since)

\* Fault: every empty reading starts the loss anew.
LoseLineRestamped ==
    /\ Track_Lost' = TRUE
    /\ Track_Lost_Since' = time
    /\ drive' = "grace"
    /\ UNCHANGED Track_Last_Direction

\* Fault: the 0 of an empty reading is taken for a position on the left.
LoseLineAsLeft ==
    LET since == IF Track_Lost THEN Track_Lost_Since ELSE time IN
    /\ Track_Lost' = TRUE
    /\ Track_Lost_Since' = since
    /\ Track_Last_Direction' = -1
    /\ drive' = IF LostMs(since) < GraceMs THEN "grace"
                ELSE IF LostMs(since) >= LostStopMs THEN "off"
                ELSE IF Track_Last_Direction > 0 THEN "search_right"
                ELSE "search_left"

\* Run_Track with no channel active: follow the last error, then turn towards
\* the last side, then stop on the spot.
LoseLine ==
    LET since == IF Track_Lost THEN Track_Lost_Since ELSE time IN
    /\ Track_Lost' = TRUE
    /\ Track_Lost_Since' = since
    /\ drive' = IF LostMs(since) < GraceMs THEN "grace"
                ELSE IF LostMs(since) >= LostStopMs THEN "off"
                ELSE IF Track_Last_Direction > 0 THEN "search_right"
                ELSE "search_left"
    /\ UNCHANGED Track_Last_Direction

\* The sign the filtered error may have after a reading: a reading 10 or more
\* off the centre outweighs any history (0.75 of it against 0.25 of at most
\* 25), one nearer the centre leaves the sign to the history.
DirectionAfter(reading) ==
    CASE reading = "left" -> {-1}
      [] reading = "right" -> {1}
      [] OTHER -> {-1, 1}

\* Run_Track with a channel active.
FollowLine(reading) ==
    /\ Track_Lost' = FALSE
    /\ Track_Last_Direction' \in DirectionAfter(reading)
    /\ drive' = "follow"
    /\ UNCHANGED Track_Lost_Since

\* Run_Track(time, base): the reading is taken here, not in the 1 ms stage.
Track ==
    /\ stage = "track"
    /\ stage' = "finish"
    /\ \E reading \in Readings :
          /\ IF reading = "none" THEN LoseLine ELSE FollowLine(reading)
          /\ blind_since' = IF reading # "none" THEN NotBlind
                            ELSE IF blind_since = NotBlind THEN time
                            ELSE blind_since
          /\ last_seen' = IF reading = "none" THEN last_seen
                          ELSE IF reading \in {"left", "right"} THEN reading
                          ELSE "either"
    /\ track_time' = time
    /\ UNCHANGED <<time, now_ms, last_1ms_sample, last_control_ms, started,
                   Q2_Route_Distance, Q2_Run_Start_Time, finishVars,
                   wide_streak, stop_cause, stop_coast>>

Coasted ==
    /\ Q2_Finish_Latched
    /\ Q2_Route_Distance - Q2_Finish_Latched_Route_Distance >= AfterLine

FallbackReached == ~Q2_Finish_Latched /\ Q2_Route_Distance >= Fallback

\* Fault: the time since the last period, not since the start.
TimedOutRestarted == Elapsed(time, track_time) >= MaxRunMs

TimedOut == Elapsed(time, Q2_Run_Start_Time) >= MaxRunMs

\* The stop chain at the end of Mode_Question_Two.
ChainResult ==
    CASE Coasted -> "line"
      [] ~Coasted /\ FallbackReached -> "fallback"
      [] ~Coasted /\ ~FallbackReached /\ TimedOut -> "timeout"
      [] OTHER -> "none"

Finish ==
    /\ stage = "finish"
    /\ stage' = "top"
    /\ drive' = IF ChainResult = "none" THEN drive ELSE "off"
    /\ stop_cause' = IF stop_cause = "none" THEN ChainResult ELSE stop_cause
    /\ stop_coast' = IF stop_cause = "none" /\ ChainResult = "line"
                     THEN Q2_Route_Distance - Q2_Finish_Latched_Route_Distance
                     ELSE stop_coast
    /\ UNCHANGED <<time, now_ms, last_1ms_sample, last_control_ms, lapVars,
                   finishVars, track_time, blind_since, last_seen, wide_streak>>

Loop == Top \/ Sample \/ ControlIdle \/ StartLap \/ MeasureRoute \/ Track \/ Finish

Next == Timer \/ Loop

Spec == Init /\ [][Next]_vars

\* The timer is a free-running peripheral; main() is the only thread.
FairSpec == Spec /\ WF_vars(Timer) /\ WF_vars(Loop)

--------------------------------------------------------------------------------

TypeOK ==
    /\ {time, now_ms, last_1ms_sample, last_control_ms} \subseteq Clock
    /\ stage \in {"top", "sample", "control", "track", "finish"}
    /\ started \in BOOLEAN /\ Track_Lost \in BOOLEAN
    /\ Track_Lost_Since \in Clock
    /\ Track_Last_Direction \in {-1, 1}
    /\ Q2_Route_Distance \in 0 .. MaxRoute
    /\ Q2_Run_Start_Time \in Clock /\ Q2_Finish_Last_Sample \in Clock
    /\ Q2_Finish_Hit_Count \in 0 .. ConfirmSamples
    /\ Q2_Finish_Latched \in BOOLEAN
    /\ Q2_Finish_Latched_Route_Distance \in 0 .. MaxRoute
    /\ drive \in Drives
    /\ track_time \in Clock
    /\ blind_since \in Clock \cup {NotBlind}
    /\ last_seen \in {"left", "right", "either"}
    /\ wide_streak \in 0 .. ConfirmSamples
    /\ stop_cause \in {"none", "line", "fallback", "timeout"}
    /\ stop_coast \in 0 .. MaxRoute

\* Once the car has stopped behind line A it stays stopped: neither the scan,
\* which goes on every millisecond, nor Run_Track, which goes on every period,
\* sets it moving again.
LineStopIsFinal == stop_cause = "line" /\ AtRest => drive = "off"

\* The same for the 20 s limit, whatever the line and the encoders do later.
TimeoutStopIsFinal == stop_cause = "timeout" /\ AtRest => drive = "off"

\* "Encoder backstop": the same for the stop that replaces a missed line A.
FallbackStopIsFinal == stop_cause = "fallback" /\ AtRest => drive = "off"

\* The car never keeps driving blind: when all readings over LostStopMs were
\* empty, the wheels are off, whatever Track_Lost and Track_Lost_Since say.
BlindCarStops ==
    AtRest /\ blind_since # NotBlind /\ track_time - blind_since >= LostStopMs
        => drive = "off"

\* The latch is set by line A and nothing else: ConfirmSamples consecutive wide
\* readings, the last one in this step, all taken in the search zone's wake.
LatchIsConfirmed ==
    [][~Q2_Finish_Latched /\ Q2_Finish_Latched' =>
          /\ wide_streak' = ConfirmSamples
          /\ Q2_Finish_Latched_Route_Distance' = Q2_Route_Distance
          /\ Q2_Route_Distance >= SearchStart]_vars

\* The car stops with its tail on line A, to within one counted step: the stop
\* fires in the first period whose route is AfterLine or more past the latch.
OvershootBounded ==
    stop_cause = "line" =>
        stop_coast >= AfterLine /\ stop_coast < AfterLine + StepCap - 1

\* A lost line is searched on the side where it was last seen, however long
\* the empty readings have lasted and whatever losses came before.
SearchesWhereLineWent ==
    /\ drive = "search_left" => last_seen # "right"
    /\ drive = "search_right" => last_seen # "left"

\* Whatever the readings and the encoders do, the car ends stopped.
StopsForGood == <>[](AtRest => drive = "off")

\* The lap as its caller sees it.  Between Run_Track and the stop chain the
\* wheels are what the chain is about to make of them; a stop by the encoder
\* backstop is not the end, as line A may still be latched.
Phase ==
    IF ~started THEN "ready"
    ELSE IF stop_cause \in {"line", "timeout"} THEN "ended" ELSE "running"

Wheels ==
    IF drive = "off" \/ (stage = "finish" /\ ChainResult # "none") THEN "off" ELSE "on"

L == INSTANCE Lap WITH phase <- Phase, wheels <- Wheels

\* The 20 s question keeps the promise of a lap: an end behind line A or by the
\* time limit is final, although Run_Track commands the wheels and the 1 ms
\* scan runs on in every later period.
RefinesLap == L!Spec

================================================================================
