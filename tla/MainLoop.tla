-------------------------------- MODULE MainLoop --------------------------------
(***************************************************************************)
(* The schedule main() gives to its three stages: the 1 ms sensor stage,    *)
(* the 20 ms control stage with the velocity measurement inside it, and the *)
(* 200 ms display stage, all driven by differences of a wrapping counter.   *)
(* What the control stage does once the velocities are measured is the      *)
(* business of FastLap and StableLap.                                       *)
(***************************************************************************)
EXTENDS LoopClock

CONSTANT DisplayInterval   \* 200U in main()

ASSUME DisplayIntervalAssumption ==
    DisplayInterval \in Nat \ {0} /\ TimeMod > DisplayInterval + 2 * MaxLag

VARIABLES
    last_display_ms,     \* snapshot of the last display stage
    Velocity_Last_Time,  \* snapshot of the last accepted velocity measurement
    mode_ran,            \* whether the last due control stage reached the mode function
    \* History variables: unbounded time, which the program cannot see.
    sample_age,          \* true ms since the snapshot last_1ms_sample was taken
    control_age,         \* true ms since the snapshot last_control_ms was taken
    velocity_age,        \* true ms since the snapshot Velocity_Last_Time was taken
    display_age          \* true ms since the snapshot last_display_ms was taken

ages == <<sample_age, control_age, velocity_age, display_age>>
vars == <<clockVars, last_display_ms, Velocity_Last_Time, mode_ran, ages>>

Init ==
    /\ ClockInit
    /\ last_display_ms = time
    /\ Velocity_Last_Time = 0
    /\ mode_ran = TRUE
    /\ sample_age = 1
    /\ control_age = 0
    /\ velocity_age = time
    /\ display_age = 0

Timer ==
    /\ TimerTick
    /\ sample_age' = sample_age + 1
    /\ control_age' = control_age + 1
    /\ velocity_age' = velocity_age + 1
    /\ display_age' = display_age + 1
    /\ UNCHANGED <<last_display_ms, Velocity_Last_Time, mode_ran>>

Top ==
    /\ ReadClock
    /\ UNCHANGED <<last_display_ms, Velocity_Last_Time, mode_ran, ages>>

(* True age of the snapshot the iteration is working with.                  *)
SnapshotAge == Elapsed(time, now_ms)

(* if (now_ms != last_1ms_sample) { ... Track_Update1ms(); ... }            *)
SampleStage ==
    /\ stage = "sample"
    /\ stage' = "control"
    /\ IF SampleDue
       THEN /\ last_1ms_sample' = now_ms
            /\ sample_age' = SnapshotAge
       ELSE UNCHANGED <<last_1ms_sample, sample_age>>
    /\ UNCHANGED <<time, now_ms, last_control_ms, last_display_ms,
                   Velocity_Last_Time, mode_ran,
                   control_age, velocity_age, display_age>>

\* Fault: Velocity_Get demands more than the period main() waits.
VelocityDueLate == Elapsed(now_ms, Velocity_Last_Time) > Interval

(* The refusal test of Velocity_Get(now_ms).                                *)
VelocityDue == Elapsed(now_ms, Velocity_Last_Time) >= Interval

(* The control stage: last_control_ms advances whether or not Velocity_Get  *)
(* accepts, and the mode function runs only if it does.                     *)
ControlStage ==
    /\ stage = "control"
    /\ stage' = "display"
    /\ IF ControlDue
       THEN /\ last_control_ms' = now_ms
            /\ control_age' = SnapshotAge
            /\ mode_ran' = VelocityDue
            /\ IF VelocityDue
               THEN /\ Velocity_Last_Time' = now_ms
                    /\ velocity_age' = SnapshotAge
               ELSE UNCHANGED <<Velocity_Last_Time, velocity_age>>
       ELSE UNCHANGED <<last_control_ms, control_age, mode_ran,
                        Velocity_Last_Time, velocity_age>>
    /\ UNCHANGED <<time, now_ms, last_1ms_sample, last_display_ms,
                   sample_age, display_age>>

(* The display stage with the screen refresh commented out.                 *)
DisplayStage ==
    /\ stage = "display"
    /\ stage' = "top"
    /\ IF Elapsed(now_ms, last_display_ms) >= DisplayInterval
       THEN /\ last_display_ms' = now_ms
            /\ display_age' = SnapshotAge
       ELSE UNCHANGED <<last_display_ms, display_age>>
    /\ UNCHANGED <<time, now_ms, last_1ms_sample, last_control_ms,
                   Velocity_Last_Time, mode_ran,
                   sample_age, control_age, velocity_age>>

Loop == Top \/ SampleStage \/ ControlStage \/ DisplayStage

Next == Timer \/ Loop

Spec == Init /\ [][Next]_vars

--------------------------------------------------------------------------------

TypeOK ==
    /\ {time, now_ms, last_1ms_sample, last_control_ms,
        last_display_ms, Velocity_Last_Time} \subseteq Clock
    /\ stage \in {"top", "sample", "control", "display"}
    /\ mode_ran \in BOOLEAN
    /\ {sample_age, control_age, velocity_age, display_age} \subseteq Nat

(* The uint32_t differences the stages test are the true number of          *)
(* milliseconds between two snapshots, also when `time` has wrapped between *)
(* them: no snapshot is ever kept for as long as a full turn of the counter.*)
WrapExact ==
    /\ Elapsed(time, last_1ms_sample) = sample_age
    /\ Elapsed(time, last_control_ms) = control_age
    /\ Elapsed(time, Velocity_Last_Time) = velocity_age
    /\ Elapsed(time, last_display_ms) = display_age

(* The deadline of the control stage and the one inside Velocity_Get are    *)
(* separate counters, but they never fall out of step: a control stage that *)
(* is due always measures the velocity and reaches the mode function.       *)
ModeRunsEveryPeriod == mode_ran

(* The control stage is late by no more than the loop is: its last snapshot *)
(* is never Interval + 2 * MaxLag ms old, one iteration for the snapshot     *)
(* that just missed the deadline and one for the work before the stage.     *)
ControlOnTime == control_age < Interval + 2 * MaxLag

(* The control stage starts again and again, at least Interval true         *)
(* milliseconds after its previous snapshot (main compares snapshots, so a  *)
(* late iteration does not make the following one early).                   *)
ControlSpacing ==
    [][last_control_ms' # last_control_ms =>
          control_age - control_age' >= Interval]_vars

================================================================================
