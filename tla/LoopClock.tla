------------------------------- MODULE LoopClock -------------------------------
(***************************************************************************)
(* The clock of the firmware and the cooperative main loop that reads it.   *)
(*                                                                          *)
(* TIMER_TICK_INST_IRQHandler increments the 32-bit millisecond counter     *)
(* `time` whatever the loop is doing; main() takes one snapshot now_ms per  *)
(* iteration and runs its stages against that snapshot.  The mode functions *)
(* re-read `time`, so the timer interrupt may fall between any two stages.  *)
(*                                                                          *)
(* This module holds what every composition shares: the counter, the        *)
(* snapshot, the two deadlines of the sensor and control stages, and the    *)
(* stage the loop is in.  It has no behaviour of its own.                   *)
(***************************************************************************)
EXTENDS Integers

CONSTANTS
    TimeMod,      \* 2^32: `time` is a uint32_t and wraps to 0
    Interval,     \* Velocity_Interval: control period in ms
    MaxLag,       \* an iteration of the loop takes at most this many ms
    BootMs        \* Show_Init, after Data_Init has zeroed `time`, takes at most this

ASSUME IntervalAssumption == Interval \in Nat \ {0}
ASSUME MaxLagAssumption == MaxLag \in Nat \ {0}
ASSUME BootMsAssumption == BootMs \in Nat
ASSUME TimeModAssumption ==
    TimeMod \in Nat /\ TimeMod > Interval + 2 * MaxLag + BootMs

VARIABLES
    time,             \* milliseconds since Data_Init, written by the interrupt
    now_ms,           \* the snapshot the current iteration works with
    last_1ms_sample,  \* snapshot of the last iteration that sampled the sensors
    last_control_ms,  \* snapshot of the last iteration that ran the control stage
    stage             \* what the main loop does next

clockVars == <<time, now_ms, last_1ms_sample, last_control_ms, stage>>

Clock == 0 .. TimeMod - 1

\* Fault: the difference is taken to be 0 once the counter has wrapped.
ElapsedSaturating(a, b) == IF a >= b THEN a - b ELSE 0

(* The C expression (uint32_t)(a - b).                                      *)
Elapsed(a, b) == IF a >= b THEN a - b ELSE a - b + TimeMod

(* `time++` on a uint32_t.                                                  *)
NextMs == IF time + 1 = TimeMod THEN 0 ELSE time + 1

(* The timer already runs while Show_Init draws the screen, so main() starts *)
(* its loop at some time >= 0, with last_1ms_sample = time - 1 so that the   *)
(* first iteration samples at once.  Its three reads of `time` are one here. *)
ClockInit ==
    /\ time \in 0 .. BootMs
    /\ now_ms = time
    /\ last_1ms_sample = Elapsed(time, 1)
    /\ last_control_ms = time
    /\ stage = "top"

(* The timer interrupt.  The guard is the assumption on the processor: the  *)
(* loop comes back to its clock read within MaxLag milliseconds.            *)
TimerTick ==
    /\ Elapsed(time, now_ms) < MaxLag
    /\ time' = NextMs
    /\ UNCHANGED <<now_ms, last_1ms_sample, last_control_ms, stage>>

(* uint32_t now_ms = time;                                                  *)
ReadClock ==
    /\ stage = "top"
    /\ now_ms' = time
    /\ stage' = "sample"
    /\ UNCHANGED <<time, last_1ms_sample, last_control_ms>>

SampleDue == now_ms # last_1ms_sample

\* Fault: the period is exceeded rather than reached.
ControlDueLate == Elapsed(now_ms, last_control_ms) > Interval

ControlDue == Elapsed(now_ms, last_control_ms) >= Interval

================================================================================
