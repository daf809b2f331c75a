----------------------------- MODULE MainLoopProofs -----------------------------
(***************************************************************************)
(* The schedule of main() for every counter width, period and loop delay    *)
(* that the assumptions allow: the wrapping differences are exact, and the  *)
(* control stage keeps its period.                                          *)
(***************************************************************************)
EXTENDS MainLoop, TLAPS

LEMMA ConstantFacts ==
    /\ Interval \in Nat /\ Interval > 0
    /\ MaxLag \in Nat /\ MaxLag > 0
    /\ BootMs \in Nat
    /\ DisplayInterval \in Nat /\ DisplayInterval > 0
    /\ TimeMod \in Nat
    /\ TimeMod > Interval + 2 * MaxLag + BootMs
    /\ TimeMod > DisplayInterval + 2 * MaxLag
BY IntervalAssumption, MaxLagAssumption, BootMsAssumption, TimeModAssumption,
   DisplayIntervalAssumption

(* A difference of clock values is a clock value, 0 only for equal ones.    *)
LEMMA ElapsedType ==
    ASSUME NEW a \in Clock, NEW b \in Clock
    PROVE  Elapsed(a, b) \in Clock /\ (Elapsed(a, b) = 0 <=> a = b)
BY ConstantFacts DEF Elapsed, Clock

(* Differences subtract: what lies between two snapshots is the difference  *)
(* of their ages, wrap or no wrap.                                          *)
LEMMA ElapsedBetween ==
    ASSUME NEW t \in Clock, NEW n \in Clock, NEW x \in Clock,
           Elapsed(t, n) <= Elapsed(t, x)
    PROVE  Elapsed(n, x) = Elapsed(t, x) - Elapsed(t, n)
BY ConstantFacts DEF Elapsed, Clock

(* A millisecond adds one to a difference that is short of a full turn.     *)
LEMMA ElapsedTick ==
    ASSUME NEW x \in Clock, time \in Clock, Elapsed(time, x) + 1 < TimeMod
    PROVE  NextMs \in Clock /\ Elapsed(NextMs, x) = Elapsed(time, x) + 1
BY ConstantFacts DEF Elapsed, NextMs, Clock

(* How old the snapshots can be, stage by stage: a stage that has passed    *)
(* left its snapshot within its period, and reading the clock adds at most  *)
(* one loop iteration.                                                      *)
AgesBounded ==
    LET lag == SnapshotAge IN
    /\ lag <= MaxLag
    /\ lag <= sample_age /\ sample_age <= lag + MaxLag + 1
    /\ stage # "sample" => sample_age <= lag + 1
    /\ lag <= control_age
    /\ control_age <= lag + Interval - 1
                          + (IF stage \in {"sample", "control"} THEN MaxLag ELSE 0)
    /\ control_age <= velocity_age /\ velocity_age <= control_age + BootMs
    /\ lag <= display_age
    /\ display_age <= lag + DisplayInterval - 1
                          + (IF stage = "top" THEN 0 ELSE MaxLag)

LoopInv ==
    /\ TypeOK
    /\ WrapExact
    /\ ModeRunsEveryPeriod
    /\ AgesBounded

LEMMA InitLoopInv == Init => LoopInv
<1> SUFFICES ASSUME Init PROVE LoopInv
  OBVIOUS
<1>1. /\ time \in 0 .. BootMs /\ now_ms = time /\ last_control_ms = time
      /\ last_1ms_sample = Elapsed(time, 1) /\ stage = "top"
  BY DEF Init, ClockInit
<1>2. time \in Clock /\ 0 \in Clock /\ 1 \in Clock
  BY <1>1, ConstantFacts DEF Clock
<1>3. last_1ms_sample \in Clock /\ Elapsed(time, last_1ms_sample) = 1
  BY <1>1, <1>2, ConstantFacts DEF Elapsed, Clock
<1>4. Elapsed(time, 0) = time /\ Elapsed(time, time) = 0
  BY <1>2, ConstantFacts DEF Elapsed, Clock
<1>5. TypeOK
  BY <1>1, <1>2, <1>3, ConstantFacts DEF Init, TypeOK
<1>6. WrapExact /\ ModeRunsEveryPeriod
  BY <1>1, <1>3, <1>4 DEF Init, WrapExact, ModeRunsEveryPeriod
<1>7. AgesBounded
  BY <1>1, <1>4, ConstantFacts DEF Init, AgesBounded, SnapshotAge
<1> QED
  BY <1>5, <1>6, <1>7 DEF LoopInv

LEMMA TimerLoopInv == LoopInv /\ Timer => LoopInv'
<1> SUFFICES ASSUME LoopInv, Timer PROVE LoopInv'
  OBVIOUS
<1> USE DEF LoopInv, TypeOK
<1>1. time \in Clock /\ now_ms \in Clock /\ last_1ms_sample \in Clock
      /\ last_control_ms \in Clock /\ Velocity_Last_Time \in Clock
      /\ last_display_ms \in Clock
  OBVIOUS
<1>2. /\ SnapshotAge \in Nat /\ SnapshotAge < MaxLag
      /\ sample_age \in Nat /\ control_age \in Nat
      /\ velocity_age \in Nat /\ display_age \in Nat
  BY <1>1, ElapsedType DEF Timer, TimerTick, SnapshotAge, Clock
<1>3. /\ SnapshotAge + 1 < TimeMod /\ sample_age + 1 < TimeMod
      /\ control_age + 1 < TimeMod /\ velocity_age + 1 < TimeMod
      /\ display_age + 1 < TimeMod
  BY <1>2, ConstantFacts DEF AgesBounded
<1>4. time' \in Clock /\ SnapshotAge' = SnapshotAge + 1
  BY <1>1, <1>3, ElapsedTick DEF Timer, TimerTick, SnapshotAge
<1>5. WrapExact'
  BY <1>1, <1>3, ElapsedTick DEF WrapExact, Timer, TimerTick
<1>6. TypeOK' /\ ModeRunsEveryPeriod'
  BY <1>2, <1>4 DEF ModeRunsEveryPeriod, Timer, TimerTick
<1>7. AgesBounded'
  BY <1>2, <1>4, ConstantFacts DEF AgesBounded, Timer, TimerTick
<1> QED
  BY <1>5, <1>6, <1>7

(* Reading the clock makes the snapshot new and leaves the ages alone.      *)
LEMMA TopLoopInv == LoopInv /\ Top => LoopInv'
<1> SUFFICES ASSUME LoopInv, Top PROVE LoopInv'
  OBVIOUS
<1> USE DEF LoopInv, TypeOK, ages
<1>1. SnapshotAge' = 0 /\ SnapshotAge \in Nat
  BY ElapsedType DEF Top, ReadClock, SnapshotAge, Clock, Elapsed
<1>2. TypeOK' /\ ModeRunsEveryPeriod' /\ WrapExact'
  BY DEF Top, ReadClock, ModeRunsEveryPeriod, WrapExact
<1>3. AgesBounded'
  BY <1>1, ConstantFacts DEF AgesBounded, Top, ReadClock
<1> QED
  BY <1>2, <1>3

(* Between the snapshot and an earlier one lies the difference of the ages. *)
LEMMA StageElapsed ==
    ASSUME LoopInv
    PROVE  /\ SnapshotAge \in Nat
           /\ Elapsed(now_ms, last_1ms_sample) = sample_age - SnapshotAge
           /\ Elapsed(now_ms, last_control_ms) = control_age - SnapshotAge
           /\ Elapsed(now_ms, Velocity_Last_Time) = velocity_age - SnapshotAge
           /\ Elapsed(now_ms, last_display_ms) = display_age - SnapshotAge
<1>1. SnapshotAge \in Nat
  BY ElapsedType DEF LoopInv, TypeOK, SnapshotAge, Clock
<1>2. /\ SnapshotAge <= sample_age /\ SnapshotAge <= control_age
      /\ SnapshotAge <= velocity_age /\ SnapshotAge <= display_age
  BY <1>1, ConstantFacts DEF LoopInv, TypeOK, AgesBounded
<1> QED
  BY <1>1, <1>2, ElapsedBetween DEF LoopInv, TypeOK, WrapExact, SnapshotAge

LEMMA SampleLoopInv == LoopInv /\ SampleStage => LoopInv'
<1> SUFFICES ASSUME LoopInv, SampleStage PROVE LoopInv'
  OBVIOUS
<1>1. SnapshotAge' = SnapshotAge /\ stage' = "control" /\ stage = "sample"
  BY DEF SampleStage, SnapshotAge
<1>2. ~SampleDue => sample_age = SnapshotAge
  BY DEF SampleDue, LoopInv, WrapExact, SnapshotAge
<1>3. TypeOK' /\ WrapExact' /\ ModeRunsEveryPeriod'
  BY StageElapsed DEF LoopInv, TypeOK, WrapExact, ModeRunsEveryPeriod,
                      SampleStage, SnapshotAge
<1>4. AgesBounded'
  BY <1>1, <1>2, StageElapsed, ConstantFacts
     DEF LoopInv, TypeOK, AgesBounded, SampleStage
<1> QED
  BY <1>3, <1>4 DEF LoopInv

(* A due control stage finds the velocity due too: its age is no smaller.   *)
LEMMA ControlMeasures == LoopInv /\ ControlDue => VelocityDue
<1> SUFFICES ASSUME LoopInv, ControlDue PROVE VelocityDue
  OBVIOUS
<1> QED
  BY StageElapsed, ConstantFacts
     DEF LoopInv, TypeOK, AgesBounded, ControlDue, VelocityDue

LEMMA ControlLoopInv == LoopInv /\ ControlStage => LoopInv'
<1> SUFFICES ASSUME LoopInv, ControlStage PROVE LoopInv'
  OBVIOUS
<1>1. SnapshotAge' = SnapshotAge /\ stage' = "display" /\ stage = "control"
  BY DEF ControlStage, SnapshotAge
<1>2. CASE ControlDue
  <2>1. VelocityDue
    BY <1>2, ControlMeasures
  <2>2. TypeOK' /\ WrapExact' /\ ModeRunsEveryPeriod'
    BY <1>2, <2>1, StageElapsed
       DEF LoopInv, TypeOK, WrapExact, ModeRunsEveryPeriod, ControlStage, SnapshotAge
  <2>3. AgesBounded'
    BY <1>1, <1>2, <2>1, StageElapsed, ConstantFacts
       DEF LoopInv, TypeOK, AgesBounded, ControlStage
  <2> QED
    BY <2>2, <2>3 DEF LoopInv
<1>3. CASE ~ControlDue
  <2>1. control_age < SnapshotAge + Interval
    BY <1>3, StageElapsed, ConstantFacts DEF ControlDue, LoopInv, TypeOK
  <2>2. TypeOK' /\ WrapExact' /\ ModeRunsEveryPeriod'
    BY <1>3 DEF LoopInv, TypeOK, WrapExact, ModeRunsEveryPeriod, ControlStage
  <2>3. AgesBounded'
    BY <1>1, <1>3, <2>1, StageElapsed, ConstantFacts
       DEF LoopInv, TypeOK, AgesBounded, ControlStage
  <2> QED
    BY <2>2, <2>3 DEF LoopInv
<1> QED
  BY <1>2, <1>3

LEMMA DisplayLoopInv == LoopInv /\ DisplayStage => LoopInv'
<1> SUFFICES ASSUME LoopInv, DisplayStage PROVE LoopInv'
  OBVIOUS
<1>1. SnapshotAge' = SnapshotAge /\ stage' = "top" /\ stage = "display"
  BY DEF DisplayStage, SnapshotAge
<1>2. TypeOK' /\ WrapExact' /\ ModeRunsEveryPeriod'
  BY StageElapsed DEF LoopInv, TypeOK, WrapExact, ModeRunsEveryPeriod,
                      DisplayStage, SnapshotAge
<1>3. AgesBounded'
  BY <1>1, StageElapsed, ConstantFacts DEF LoopInv, TypeOK, AgesBounded, DisplayStage
<1> QED
  BY <1>2, <1>3 DEF LoopInv

(* The differences main() tests are the true times between its snapshots.   *)
LEMMA LoopInvInductive == Spec => []LoopInv
<1>1. LoopInv /\ [Next]_vars => LoopInv'
  <2> SUFFICES ASSUME LoopInv, [Next]_vars PROVE LoopInv'
    OBVIOUS
  <2>1. CASE UNCHANGED vars
    BY <2>1 DEF vars, clockVars, ages, LoopInv, TypeOK, WrapExact,
                ModeRunsEveryPeriod, AgesBounded, SnapshotAge
  <2> QED
    BY <2>1, TimerLoopInv, TopLoopInv, SampleLoopInv, ControlLoopInv, DisplayLoopInv
       DEF Next, Loop
<1> QED
  BY <1>1, InitLoopInv, PTL DEF Spec

(* Types, and the exactness of the wrapping arithmetic, for every width of  *)
(* the counter that exceeds the periods.                                    *)
THEOREM WrapIsExact == Spec => [](TypeOK /\ WrapExact)
<1>1. LoopInv => TypeOK /\ WrapExact
  BY DEF LoopInv
<1> QED
  BY <1>1, LoopInvInductive, PTL

(* Every due control stage reaches the mode function.                       *)
THEOREM ModeRunsAlways == Spec => []ModeRunsEveryPeriod
<1>1. LoopInv => ModeRunsEveryPeriod
  BY DEF LoopInv
<1> QED
  BY <1>1, LoopInvInductive, PTL

(* The control stage is never late by more than the loop.                   *)
THEOREM ControlAlwaysOnTime == Spec => []ControlOnTime
<1>1. LoopInv => ControlOnTime
  BY StageElapsed, ConstantFacts DEF LoopInv, TypeOK, AgesBounded, ControlOnTime
<1> QED
  BY <1>1, LoopInvInductive, PTL

(* Two control stages work with snapshots at least Interval ms apart.       *)
THEOREM ControlIsSpaced == Spec => ControlSpacing
<1>1. LoopInv /\ [Next]_vars =>
        [last_control_ms' # last_control_ms =>
            control_age - control_age' >= Interval]_vars
  <2> SUFFICES ASSUME LoopInv, [Next]_vars, last_control_ms' # last_control_ms
               PROVE  control_age - control_age' >= Interval
    OBVIOUS
  <2>1. ControlStage /\ ControlDue
    BY DEF Next, Loop, Timer, TimerTick, Top, ReadClock, SampleStage, ControlStage,
           DisplayStage, vars, clockVars
  <2> QED
    BY <2>1, StageElapsed, ConstantFacts DEF ControlStage, ControlDue, LoopInv, TypeOK
<1> QED
  BY <1>1, LoopInvInductive, PTL DEF Spec, ControlSpacing

================================================================================
