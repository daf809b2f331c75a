# Line-following contest car: verification in TLA+

The program (`src/`) is the firmware of a two-wheeled line-following car on an
MSPM0G3507: one bare-metal main loop, one millisecond timer interrupt, and
interrupts of the wheel encoders and of three serial ports.  This directory models
its control logic in TLA+, checks it with TLC and proves part of it with TLAPS.

Contents: 1 the system, 2 the modules, 3 the runs, 4 fairness, 5 refinement,
6 proofs, 7 findings, 8 abstractions and what is not modelled, 9 plan.

## 1. The system

| Component | Code | State it keeps | Operations | Talks to |
|---|---|---|---|---|
| Main loop, clock | `empty.c` `main`, `TIMER_TICK_INST_IRQHandler`, `Velocity_Get` | `time`, the snapshots of the three stages, `Velocity_Last_Time` | timer tick; 1 ms, 20 ms and 200 ms stages | everything below, by calls |
| Question 2 (20 s lap) | `empty.c` `Mode_Question_Two`, `Run_Track`, `Q2_Finish_Fast_Sample` | `Track_*`, `Q2_*` statics | scan for line A every 1 ms; follow the line and stop every 20 ms | clock, raw sensors, encoders, motors |
| Question 3 (30 s lap with the ball) | `empty.c` `Mode_Question_Three`, `Run_Track_Stable30`, `Stable30_*` | `Stable30_Track`, route, start time | follow, lose, search, reacquire, stop; set the wheel targets | clock, sensor filter, encoders, IMU, speed loop |
| Line position | `TRACK.c` `Track_SampleFromBits`, `empty.c` `Stable30_Resolve_Position` | none | active channels to a position | both laps |
| Sensor filter | `TRACK.c` | a counter and a stable bit per channel | update every 1 ms, read, reset | Question 3 |
| Speed loop | `empty.c` `PID_Get`, `PID_Contorl`, `SpeedPI_Reset`, `Run_Stop` | target, integral, output per wheel | one step per wheel and period; stop | both laps, motors |
| Angle hold | `empty.c` `Run_AngleHold`, `YAW_PID.c` | PID terms, last direction | one step per period; not called by a mode at this commit | IMU, motors |
| Encoders | `ENCODER.c`, `empty.c` `Velocity_Get`, `Distance_Get` | `TempCount`, `Count`, direction; `Distance`, route | edge interrupt; `Encoder_Get`; measurement | main loop, both laps |
| IMU | `IMU.c`, `empty.c` `Stable30_Update_Gyro` | 11-byte buffer, decoded values, `g_imu_gyro_update_count` | byte interrupt; getters | Question 3, angle hold |
| MaixCam | `MAXICAM.c` | parser state, `maixcam_data`, `maixcam_rx_ready` | byte interrupt; the display stage clears the flag | main loop |
| Zigbee | `ZIGBEE.c` | line buffer, `zigbee_data` | byte interrupt | nobody reads it now |
| Step motor link | `STEP_MOTOR.c`, `My_STEPMOTOR.C` | none; the UART's receive register | send a command, wait for its reply | `System_Init` enables the motor |
| Tilt platform | `empty.c` `TiltInner_*` | target, current angle | read the angle, send a move | step motor link; called by a `main` that is commented out |
| DC motors | `MOTOR.c` | PWM and direction pins | `AO_Control`, `BO_Control` | speed loop, angle hold |
| Key, board UART, LCD, SysConfig output | `KEY.c`, `board.c`, `lcd/`, `Debug/` | none of interest | pin read, byte output, pixels | |

`main()` is the only thread.  Each iteration takes one snapshot `now_ms` of the
counter and runs up to three stages against it: a 1 ms stage (sensor filter, scan
for line A), a 20 ms stage (velocity, distance, the mode function, speed loop)
and a 200 ms stage.  Interrupts run between any two instructions of it and share
plain variables with it: `time`, the encoder counts, the decoded IMU values and
their counter, `maixcam_data` and its flag.  There are no locks and no queues.
The mode functions do not keep a "stopped" state: every period they steer first
and stop afterwards, if a condition says so *now*.

### What is hard, and what correctness means

| Component | Hard behaviour | What must hold |
|---|---|---|
| Main loop, clock | deadlines as differences of a wrapping counter; two independent counters for the same 20 ms period (`main`, `Velocity_Get`); the interrupt falls between snapshot and use | differences are true times; a due control stage always reaches the mode function; periods come on time |
| Question 2 | the stop chain is tested anew every period, while the 1 ms scan changes what it tests; losses that begin, end and overlap with the grace time | an end is final; a blind car stops; line A is latched by consecutive wide samples only; the coast behind it is bounded; every run ends |
| Question 3 | loss, grace, turn, sweep and confirmed reacquisition over periods that may be late; a gyro that may fall silent; the filter is cleared in the period that reads it | an end is final; both sides are searched; full speed only after a confirmed line; distance of a search is not counted; stale gyro data are dropped |
| Wheel targets | feedforward against the line, limits, and two slews that move apart | a line at the edge is steered towards, within the wheels' limits |
| Line position | 8-bit sums and distances; ties | the loop computes the intended choice, the same for left and right |
| Sensor filter | saturating counters and a hysteresis | bounded delay both ways, no chatter |
| Serial ports | bytes lost, added or changed on the line; one of the parsers has no checksum, one no length limit | a parser finds its way back behind a frame that holds no header inside; a fault of the kind its checks are made for is not published |
| Encoders | the edge interrupt against the reads of the main loop and against its own status word | every pulse is measured once; a count is wrong only if the handler was late; roundings do not add up |
| Speed loop, angle hold | anti-windup, resets by a stop, angles that wrap | the integral is bounded by what the limits can use; a restart is gentle; the car turns the shorter way and corrects what stays beyond the deadband |
| Step motor, tilt platform | late, repeated and truncated replies; bytes laid out by hand; an angle that is old when it is used | a reply is taken for its own command only, and by one call only, and nothing but a reported value can be mistaken for one; motor and driver mean the same; a move ends where it was to end |

PROJECT.json lists each hazard at its line, with the properties that would catch
it, or the reason why none does.

## 2. Modules

    Lap <......................... FastLap, StableLap       (both implement it)
    Requests <.................... StepMotorLink            (implements it)

    LoopClock <--- MainLoop  <--------------------- MainLoopProofs
        ^ ^------- FastLap   <--------------------- FastLapProofs
        +--------- StableLap <--------------------- StableLapProofs
    LinePosition <-----+
        ^--------- ResolveLoop <---+  <------------ StableLapProofs
                   StableTargets <-+- StableControl, with TrackFilter
    TrackFilter <---------------------------------- TrackFilterProofs
    MaixCamFrames <--+
    ImuFrames <------+- SerialPorts
    ZigbeeLine <-----+  (the three) <-------------- SerialProofs
    EncoderCount <--------------------------------- EncoderProofs
    MotorDriver <--- SpeedLoop <---+
         ^---------- AngleHold <---+- WheelDrive <- WheelDriveProofs
    StepMotorCommands <- StepMotorTalk <- TiltPlatform <-+
    StepMotorLink <--------------------------------------+- MCStepMotorLink
    (the last two) <------------------------------- StepMotorProofs

(an arrow reads "is extended by").  Definitions keep the names of the source
wherever TLA+ allows; operators commented `Fault:` are not part of the model:
each is a plausible bug of the definition that follows it, and shows that a
property of the runs can fail.

### Clock and laps

**LoopClock.**  The counter `time` modulo `TimeMod` (2^32 in the code), the
snapshot, the two deadlines every composition needs and the stage the loop is in.
`TimerTick` is the interrupt; its guard is the one assumption on the processor:
an iteration reads the clock again within `MaxLag` ms.  `Elapsed` is the C
expression `(uint32_t)(a - b)`.

**MainLoop.**  `main()` with its three stages, and `Velocity_Get`'s own refusal
test.  One action per stage.  The ages are history variables: true time, which
the program cannot see, so that "the difference is right" can be said.

**FastLap.**  Question 2 composed with the loop and the timer.  `Sample` is the
1 ms stage with `Q2_Finish_Fast_Sample` (`Scan`); `StartLap` and `MeasureRoute`
are the two halves of `Mode_Question_Two` before `Run_Track`, `Track` is
`Run_Track` and `Finish` the stop chain.  A mode function is cut into three
actions because it reads `time` several times and the timer may fall between.
The wheels are `drive`, the branch that commanded them; a reading of the six
sensors is none, left, mid, right or wide, which is all these functions tell
apart.  A measured step is any element of `Steps`, implausible ones included.

**StableLap.**  Question 3, cut in the same way.  `LoseLine` and `FollowLine` are
the two halves of `Run_Track_Stable30`, `UpdateGyro` its gyro bookkeeping,
`SearchSide` the sweep, `GyroFrame` the UART interrupt completing a frame.  The
position comes from `Resolve` of LinePosition; the stable bits of the filter are
any member of `Lines`.  The sign of the filtered error is a nondeterministic
choice wherever the filter's history decides it.

**Lap.**  What either question promises: ready, running with the wheels on or off,
ended with the wheels off.  See section 5.

**StableTargets.**  The other half of `Run_Track_Stable30`: which wheel targets a
period sets, given where the line is.  Curve ramps and lead, feedforward and its
fading against the error, edge slowdown, feedback and gyro limits, recovery speeds,
finish approach, wheel limits, and the two slews with their memory.  The constants
are the code's own, in tens.

**LinePosition, ResolveLoop, StableControl.**  LinePosition says declaratively what
`Track_SampleFromBits` and `Stable30_Resolve_Position` choose.  ResolveLoop is the
loop as it stands, one iteration per step, with its variables as 8-bit numbers;
`ComputesResolve` ties the two together, so that StableLap may use the former.
StableControl puts it beside StableTargets and TrackFilter for the model checker.

**TrackFilter.**  `Track_Update1ms` and `Track_ResetStable` per channel, under any
raw signal and resets at any moment.

### Serial ports

**MaixCamFrames.**  `UART_3_INST_IRQHandler` per byte (`HeaderByte`, `DataByte`,
`TrailerByte`) and the display stage clearing the flag.  The camera and the line
are external: the camera sends frames as the comment above the handler lays them
out (that comment counts nine bytes; it lists ten, and the handler takes ten), the
line may swallow or add a byte.  `header_before` remembers whether the frame before had a data
word that can be taken for the start of a frame (`HoldsHeader`).

**ImuFrames.**  `CopeSerial2Data` per byte: the buffer, the header test that only
the first byte gets, the checksum over the first ten bytes, and what each report type
publishes; the unit and a line that loses, adds or changes bytes are external.  `before`
remembers the faults of the frame before, and whether it held the header byte inside.
`ReadUpdateCount` and `ReadRate` are the two reads of `Stable30_Update_Gyro`, with
the interrupt free to run between them.

**ZigbeeLine.**  `UART_1_INST_IRQHandler` per character, the buffer's limit, and what
`sscanf` takes from a line (a number is a row of digits, whose length stands for it).

**SerialPorts.**  The three ports for the model checker; they share no state.

### Wheels

**EncoderCount.**  Two wheels move in quarter steps (external), whose rising edges set
the port's status; `ReadStatus`, `CountEdge` per wheel and `ClearStatus` are the
handler's steps, and the wheels go on turning between them.  `ControlStep` is
`Velocity_Get` in its steps: each wheel's `EncoderDelta` and `EncoderTake` (the two
reads of `TempCount` in `Encoder_Get`), then `Measure`, with `Distance_Get` and the
mode function's step of the route.

**MotorDriver, SpeedLoop, AngleHold, WheelDrive.**  MotorDriver is the bridge with its
refusal.  SpeedLoop is a period of the speed loop: the slew of the targets at the end
of `Run_Track`, `PID_Get` with its conditional integral, the bridge; and `Run_Stop`.
AngleHold is `Run_AngleHold` over `YAW_PID.c`.  Both work on integers over a common
denominator, so that nothing but the type of the number is abstracted.  WheelDrive
puts one of them behind the bridge: the mode never changes while the car is on.

### Step motor

**StepMotorLink.**  How bytes travel in a call: `StartCall` up to the first byte of the
frame, `zdt_emm_send_frame` when the last byte is out, `zdt_emm_read` per byte,
`Timeout`, and the two checks of a reply.  All commands with a four-byte reply are one
action with the function code as parameter, all reads another; `RejectCall` stands for
every refused parameter.  The motor (external) answers a frame at any later time or
never, calls without reply included, and may report the end of a move.  Bytes carry
the number of the frame they answer, which only properties read.  The UART's FIFO is
not enabled (`Debug/ti_msp_dl_config.c` sets none for it), so the register holds one
byte, and bytes that arrive while nobody polls are lost beyond it.

**Requests.**  What a caller may rely on: one call waits at a time, it fails or takes an
answer to a frame of its function code, and an answer that was taken is gone.  And what he
may not: a piece of the value an earlier frame asked for may be mistaken for an answer.

**StepMotorCommands, StepMotorTalk.**  What the frames say.  StepMotorCommands has every
command's frame, with its parameter checks, every reader's value and the wrappers
with their conversions.  StepMotorTalk adds the motor's side (external): what it hears in a frame and how it writes a
report.  The layouts and auxiliary codes are those of `STEP_MOTOR.h`, where it has them.  It
has none for `quick_config`, `quick_run` and `set_home_zero`, nor for the value in any reply:
there the motor is what the driver takes it to be, and the model shows that coding and
decoding fit each other (widths, order of bytes, signs, ranges), not that the motor's manual
says the same.

**TiltPlatform.**  `TiltInner_SetTarget` and `TiltInner_Loop`, cut at their exchanges,
with the motor turning between them.  Its moves go through the frames of StepMotorCommands.
An exchange may fail, and a call may be given what the motor answered an earlier one
(`late`), so that the angle is one of then.  One older answer is due at a time, and a
misread piece of a value, which Requests leaves open too, is not among the angles: it could
be any number.

**MCStepMotorLink.**  The three for the model checker.

## 3. Runs

Constants are scaled in the laps: what matters is their order and how they divide, not
their size.  In the code the control period is 20 ms, grace 40 ms (60 ms with the ball),
blind stop 300 ms; the instances keep a period of several ticks, a grace time of at
least one period that is not always a multiple of it, and a stop limit of more than
two periods.  `Steps` holds 0, plausible steps and (up to) one at `StepCap`, which
must be dropped.

| Run | Question | Bounds, and why they are enough |
|---|---|---|
| `main_loop` | Are the differences true times through wraps of the counter (`WrapExact`)? Do the two nested 20 ms deadlines stay in step (`ModeRunsEveryPeriod`)? Is the control stage on time (`ControlOnTime`)? | Counter of 16 ticks, period 3, display 7: about five periods per turn, so every alignment of period and wrap occurs; start up to 4 ticks late |
| `fast_lap` | Does Question 2 implement Lap (`RefinesLap`)? Does a blind car stop, is the latch sound, is the coast bounded, does the search go to the right side, does every run end stopped (`StopsForGood`)? | `Horizon` 13, period 2, limit 9: time for loss, search, blind stop, latch, coast and a second loss, and four ticks behind the limit in which the car could start again |
| `fast_lap_fallback` | Is the encoder backstop a stop? | violated, see Findings |
| `stable_lap` | The same for Question 3 (`RefinesLap`, `StopsForGood`), and: confirmed reacquisition, both sides searched, no search distance in the route, no steering by a silent gyro | `Horizon` 16: grace, tight turn and one whole sweep (3 + 4 + 3) fit before the limit of 10, and three periods after it are seen; `StaleMax` 2 with a cap of 4, so that ageing and saturation are passed |
| `stable_lap_start` | Is the line not lost while it is seen? | violated, see Findings |
| `stable_control` | Does the 8-bit loop compute the declared choice (`ComputesResolve`), alike for left and right (`LeftRightAlike`)? Is a line that stays at an edge steered towards (`EdgeIsSteered`)? How long does the filter delay, both ways (`SteadySignalIsReported`), and does it chatter (`NoChatter`)? | filter: the code's own thresholds 8, 6, 2; channels do not interact, two show it. Position: exhaustive over the 64 readings, previous positions are all the code can produce, 0, and values outside 10..60. Targets: the code's own numbers; routes on a straight, halfway up a curve's ramp, in a curve, and in the approach within the second one; errors at the outermost and the next channels on either side, and one near the middle |
| `serial_ports` | Do the parsers find their way back (`CleanFrameDelivered`, `CleanReportPublished`), does the camera's publish only words that were sent when a byte is lost or added (`OnlySentDataPublished`), the IMU's no frame of which a byte was changed (`ChangedReportDropped`), does the gyro's reader skip no rate (`NoRateSkipped`), and what does an overlong radio line spoil (`OverlongLineCutsOneNumber`)? | one fault in two successive frames, at any byte; data words that hold a whole header in either place, the beginnings of one, or the trailer's bytes (without `~header_before` the run fails `CleanFrameDelivered`), noise of every fixed byte, of the sum of a report and another one; reports that differ in type, in a word, and in nothing but order, one of them with a header byte among its data (without `stray` in `before` the run fails `CleanReportPublished`, without `HeaderInside` `ChangedReportDropped`); a buffer of 7 for lines up to 9, so that each of the three fields is cut |
| `step_motor_link` | Whose answer does a call return, and what can mislead it (`OnlyValuesMislead`, `QuietCallIsAnswered`), and does one call only (`RefinesRequests`)? Does every call return (`CallsReturn`)? Do motor and driver mean the same (`SameMeaning`)? Where does a tilt move end (`TiltErrorIsDrift`)? | three frames: a stale reply, a reply nobody waited for, and the call; the value the motor reports to a read holds the function code of a move, so that a late reply to the read misleads one (without the exception for values the run fails `OnlyValuesMislead`). Arguments on both sides of every limit, numbers with four different bytes. Three calls of the platform: one while the motor is moving for another, and one that is given the answer to another; the roundings may cost 0.2 degrees, which is what they can add up to |
| `step_motor_move` | Does OK mean that a move is over? | violated, see Findings |
| `encoder_count` | Is every pulse measured once (`EveryPulseMeasuredOnce`), is a count off only by what a late handler cost (`CountErrorBounded`), do roundings not add up (`RouteLosesNothing`)? | six quarter steps, free in either direction on either wheel: an edge, a reversal onto it and a second edge of one wheel while the other interrupts; 2/3 mm per pulse, so that every measurement cuts something off |
| `wheel_drive` | Is no command refused (`NoCommandRefused`), does the integral not wind up (`NoWindup`), is a restart gentle (`StartsGently`)? Does the car turn the shorter way (`TurnsShorterWay`) and correct an error that stays beyond the deadband (`ErrorIsCorrected`)? | targets and velocities at both ends of their ranges, an integral that reaches its limit and an output that meets both of its own; `TurnsShorterWay` is about a period and the integral before it; yaw readings at the target, one degree off, five degrees off (where the output needs the integral to leave its deadband), far off and on both sides of +-180; the angle hold's limits and deadband are the code's |
| `angle_deadband` | Does the car stand when its yaw stays within two degrees of the target? | violated, see Findings |

`Horizon` stops the timer before the counter wraps in the lap modules: a lap takes
20 or 30 s and the counter turns after 49.7 days.  (Then the difference to the start
time of a finished lap wraps too, and would release the car for one more run; no model
goes there.)  The wrap itself is the subject of MainLoop, which has no horizon.
`MaxRoute` bounds the route; steps that would exceed it are not taken, a standing car
always can.  `AgeCap` bounds a history variable, above the limit its property compares
with.  `MaxMoves`, `MaxUpdates`, `MaxLine`, `MaxFrames` and `MaxTilts` bound counters.

Deadlock is checked everywhere except in `stable_control`, where a loop that has
returned is finished.

## 4. Fairness

* `FairSpec` of the laps: `WF(Timer)`, since the timer is a free-running peripheral, and
  `WF(Loop)`, since `main()` is the only thread and no stage blocks.  The interrupts of
  the sensors, the encoders and the IMU get none: the line may never be seen again, the
  encoders may freeze, the gyro may fall silent.  `StopsForGood` holds by the time limits
  alone, as it must.
* `WF(Progress)` in the step motor link: a call polls and counts down its timeout by
  itself.  Nothing is assumed of the motor.
* `WF(AnglePeriod)` in WheelDrive and `WF(TargetsPart)` in StableControl: the control stage
  keeps running (`ControlOnTime` of MainLoop).  What the IMU reads or where the line is
  stays free; the liveness properties (with the one of `angle_deadband`) are conditional on it.

## 5. Refinement

`Lap` is what a caller may rely on: *ready* with the wheels off, *running*, and *ended*,
after which the wheels never turn.  `RefinesLap` of FastLap and of StableLap maps to it
by `INSTANCE Lap WITH phase <- Phase, wheels <- Wheels`:

* `phase` is *ready* until the first period of the mode function, *ended* from the period
  in which the goal (line A and the distance behind it; the route of the 30 s lap) or the
  time limit stops the car.  The encoder backstop of Question 2 is not an end, since the
  code lets a later latch override it (Findings).
* `wheels` is what the wheels do between control periods.  Within a period `Run_Track`
  commands the wheels of an ended lap, and the stop chain takes it back before the period
  is over: there the mapping asks what the chain is about to do.

Each action of the code maps to `Begin`, `Drive`, `End` or a stutter; the difficult cases
are the periods after the end, in which the stop's condition must still hold although the
route, the latch and the clock have moved on.

`Requests` is what a caller of the step motor may rely on.  `RefinesRequests` of StepMotorLink
maps its bytes to it: an answer is *due* while its frame is being sent, waits at the motor, is
carried out as a move that will be reported, or while its function code is on the line, in
the receive register, or among the bytes a call is reading.  `Take` is the last byte of a reply
that passes the checks; every other byte, and every step of the motor, is `Lose` or a
stutter, so that the motor and the line may bring only what was due.  What it says beyond
`OnlyValuesMislead` is about several calls: no answer is taken by two of them.  `Mistake` is the
exception both make: a call that comes into the middle of the late reply to a read may find
its function code in the value and take the rest for an answer.  Only a move
the motor reports as done is answered twice (`Twice`), and may so be taken twice.

ResolveLoop against LinePosition is the third pair: a loop and the choice it computes
(`ComputesResolve`, checked for every input and proved).

## 6. Proofs

Each proof module shows, for every value of the constants that its module's
assumptions allow, what the runs show for one.

* **MainLoopProofs.**  `WrapExact`, `ModeRunsEveryPeriod`, `ControlOnTime`, and that control
  snapshots are a period apart (`ControlSpacing`, proved only).  The inductive invariant
  `LoopInv` adds `AgesBounded`: how old each snapshot can be in each stage.  Without it the
  differences could not be known to stay below one turn of the counter, and `Velocity_Get`
  could refuse: its snapshot is at least as old as `main`'s, because the two are always
  written together and start with `Velocity_Last_Time` older by the boot time.
* **FastLapProofs.**  Type correctness (with `HitsBelow`, since the hit counter is reset on
  the latch), `BlindCarStops`, `OvershootBounded`, `LatchIsConfirmed`, `SearchesWhereLineWent`
  and the refinement `RefinesLap`.  `LapInv` says what a stop rests on: the condition that
  fired (`StopHolds`) can only become truer, since the latched route and the start time are
  behind the car for good, and it is what the chain tests again.  The blind stop rests on
  `LossIsRecorded`: `Track_Lost_Since` is the first empty reading of the current row.  The
  overshoot rests on `CoastSoFar`: until the period that stops it, a latched car had less
  than `AfterLine` behind it.  The refinement adds that the wheels are off outside a run and
  that the phase only moves forward (`PhaseMoves`).
* **StableLapProofs.**  `RefinesLap` by the same argument; `FullSpeedNeedsReacquire` and
  `RouteCountsHeldLine` by `ReacquireInv`, which relates the program's `reacquire_count` and
  `lost` to the true row of readings.  `BothSidesSearched` and `SilentGyroIsDropped` count
  periods, and rest on `TimeInv`: how far the counter, the snapshot, the last control period
  and the last look for the line can be apart in each stage.  `SearchInv` then follows a blind
  loss through tight turn, first and second sweep.  It needs a sweep that two looks cannot
  step over (`SweepAssumption`: 20 ms against 700 ms in the code).  `AgeInv` says where the
  age of a silent gyro comes from: the calls the program has counted, plus the grace periods
  nobody counted, in as many grace times as `ReacquireCount` goes into the calls counted, since
  each of them had to be closed by a full row of counted readings.
* **StableLapProofs**, line position.  `ComputesResolve` for every set of channels and every
  previous position: `TurnInv` says that the loop's best is the preferred one (`Kept`) of the
  clusters it has passed (`Taken`), since a turn takes the whole of the next run of channels
  (`TurnCluster`) and `Preferred` is a total order of clusters (`PreferredTotal`).  The 8-bit sum
  cannot wrap because it is a sum of at most six positions (`RunTotal`).  `LeftRightAlike`: the
  mirror takes clusters to clusters, keeps widths and turns positions over (`ImageFact`), so
  that a best cluster stays one unless it ties.  And StableLap's type correctness, which needs
  where `Resolve` can lead (`ResolveRange`).
* **TrackFilterProofs.**  Type correctness, the bounds on both delays, `NoChatter`, and that
  counters and bits never contradict each other.  `FilterInv` relates each counter to the run
  lengths of the raw signal and to the time its bit has been held.
* **SerialProofs**, MaixCam.  Type correctness and `CleanFrameDelivered` for any number of
  faults and any noise.  `CameraInStep` lists, for each position of a clean frame, the parser
  states reachable at it, whatever state it began in (`Reachable`); at the last byte only "synchronous"
  and "waiting for a header" are left, and one frame later the parser is synchronous.  It
  needs nothing of the data words but that the first of the two clean frames holds no whole
  header: `HeaderBegun` says that the states in the middle of a header, at a byte of the word,
  come of the header's first bytes just before it, so that only a whole one takes the parser
  into collecting.  `OnlySentDataPublished`, with one fault in two frames, does without that
  too: `OneFault` lists the states a parser can be in at each position, in a frame that is
  unbroken, broken, or follows a broken one.  The state that publishes meets the byte 102 at
  the end of a frame only, and there the bytes collected
  are that frame's (`Collected`).
* **SerialProofs**, IMU.  `NoRateSkipped`, by the order of the two reads; `CleanReportPublished`
  for any number of faults and any noise, behind a frame of which no byte but the first is
  the header; what the frame that is published holds does not matter.  `OnTheWay` is the reason: a buffer that is out of step when a frame begins holds more
  bytes than the frame has sent, so that it overflows, is checked and cleared *before* the frame
  ends, and stays empty, no header being due, until the next one begins.
  `ChangedReportDropped` behind such a frame, by `ChangedInv`: after one changed byte the
  buffer holds the front of the frame but for one place, so that the sum, which one byte always
  changes, or the comparison with it, fails; or, if the byte was the header, it is empty, or
  begins at a header byte inside, and then the frame ends before eleven bytes are together.  In
  this last case, and in no other, the parser is out of step behind it.
* **SerialProofs**, Zigbee.  `OverlongLineCutsOneNumber` for every buffer and line: the buffer
  holds the line, or as much of its front as fits (`LineInv`), and of a front and its line
  `sscanf` takes the same numbers, but for the one the cut falls into.  How far a row of digits
  reaches is a least number (`LeastNumber`).
* **EncoderProofs.**  `EveryPulseMeasuredOnce` (`Counted`: what `TempCount` has and `Count` has
  not is exactly what arrived since), `RouteLosesNothing` (`Routed`: the route covers
  `Distance`, which is recomputed from the totals), and `CountErrorBounded` by `Debt`: edges
  less counts, less the pulse the handler owes and will count by the level channel B has now,
  stay within two per slip.  A quarter step makes an edge or changes the level the handler
  will see, never both (`QuarterStep`).
* **WheelDriveProofs.**  `NoCommandRefused` and `NoWindup` for all coefficients and limits, of
  which the bridge's 999 must not be exceeded.  `NoWindup` is inductive by itself only with the
  types: each period either keeps the integral, or takes a candidate that was tested against
  the limit with the target of the period, or moves it towards zero.  `StartsGently` rests on
  `RestHasNoIntegral` (a wheel whose target is 0 has no integral left) and on a lowest measured
  velocity (`VelocityAssumption`).  `TurnsShorterWay`, for all readings, targets and
  coefficients, by the arithmetic of the wrap and of the output: with an error that stands
  still the D term is 0 and the output has the error's sign.
* **StepMotorProofs**, link.  `LinkTypes`.  `QuietCallIsAnswered` for all commands, lengths and
  register sizes, by `QuietInv`: while a call that began on a quiet line reads, either nothing
  has come, or what it has, what the register holds and what is on the way begin together with
  one whole reply to it.  `OnlyValuesMislead` by `SameInv`: the wire is a row of whole
  replies, the bytes a call can read are of its own frame or of frames that were still open
  when it began, and from the second byte on a function code among them has its reply behind
  it, unless it stands in the value of an earlier read.  One condition is a hypothesis of the
  theorem, that the register holds one byte, as the UART's does (its FIFO is not enabled).
  About the bytes there is only `CodeAssumption`, which TLC evaluates too: no code of
  `STEP_MOTOR.h:24-66` is the motor's address, the check byte or a status.  The *values* may be any
  bytes, function codes included.
* **StepMotorProofs**, requests.  `RequestsRefined`, under the same condition, by `OnceInv`:
  outside the frames that are answered twice, a frame's function code occurs once, at the
  second place of its reply, among the bytes read, the register and the wire together, and not
  at all while the frame is still to be sent or answered (`OnePlace`).  `CodedTail`,
  `CodedAppend` and `CodedConcat` carry that through every byte that moves.  When a call takes
  an answer its code is among the bytes read, and so nowhere else; when it takes a code from
  any other place, that is a `Mistake`.
* **StepMotorProofs**, tilt.  `TiltErrorIsDrift`, for every number of calls and every way the
  motor turns: through the bytes of the motor's report and of the move (`PositionReply`,
  `MoveHeard`), whose 16-bit halves come back as they were (`FourBytes`), and through the two
  roundings on the way, of the angle to tenths and of the amount to pulses.  `TiltInv` bounds
  what a move that is about to be sent will miss by.

The assumptions on the constants are those that TLC evaluates in every run; each holds for
the code's own numbers.
* **StepMotorProofs**, meaning.  `SameMeaning`, for all bytes as addresses and small arguments, all
  16- and 32-bit numbers, all flag bytes and all reports (`TalkAssumption` is the width of the C
  types).  It is its own invariant: every call and every reading establishes it.  `Holds(g, k,
  bytes)` says that g has these bytes behind its first k, and `HoldsBoth`, `HoldsThree` take a
  frame apart into the pieces it was put together from; `WordHeard`, `LongHeard` and
  `SignedLongHeard` say that a number comes back from its bytes, `WordReply` to `AllFlagsReply`
  the same of the replies, and `EightBits` that a byte is the sum of its flags.  There is one
  lemma for each command (`EnableHeard` to `QuickRunHeard`), also for the arguments it must
  refuse, and one for each wrapper's conversion of its arguments (`AngleToPulses`: rounding
  16/18 of an angle is rounding 3200/3600 of it).

Only model-checked: liveness (`StopsForGood`, `CallsReturn`, `ErrorIsCorrected`,
`EdgeIsSteered`), which is beyond the prover.  Induction over data can be had only as a least counterexample of a fixed
predicate, as in SerialProofs.

## 7. Findings

* `fast_lap_fallback`: the comment calls the 5740 mm test a backstop (`empty.c:961`), but
  its condition includes "line A not latched", and the scan goes on after it.  A latch
  after the backstop sets the car moving again for up to 285 mm.
* `stable_lap_start`: `Stable30_Track_Reset` clears the sensor filter in the same period
  in which the first reading is taken, so each 30 s lap starts as a lost line, and must
  reacquire it before distance counts.  `TRACK.c:138` asks for the filter to have been
  running before it is read.
* `angle_deadband`: the comments at `empty.c:172` and `:862` speak of a deadband of +-2 degrees,
  within which nothing is corrected and the car stands.  The code compares the controller's
  *output* with 2, and the integral alone reaches 5: an error that stays at one degree turns the
  car for good.  `ErrorIsCorrected` is about errors beyond two degrees, where comment and code
  agree.  (A reading that jitters may restart the integral, since the D term takes the output
  through zero and `Run_AngleHold` clears the integral on that.)
* `step_motor_move`: `My_STEPMOTOR.h:26` says that OK means "positioning complete".  The
  driver treats the motor's "received" (0x02) and "action done" (0x9F) alike and returns
  on the first of them, so in the motor's default mode OK comes before the move is over.

Observations without a run of their own:

* `zdt_emm_wait_reply` waits for "the standard 4-byte reply to an action command"
  (`STEP_MOTOR.h:192`), but takes any four bytes with its code in the second place and the check
  byte in the last: also the end of a late READ_POSITION reply whose value ends in `01 FD 02`.  A
  move sent meanwhile then returns OK before the motor has answered it.  `OnlyValuesMislead`
  and the step `Mistake` of Requests say that this is the one way to be misled.
* Every finished lap lets `Run_Track` set PWM values, which `Run_Stop` takes back in the
  same period.  The models judge the wheels when a period is complete.
* `Run_Track_Stable30`'s slews start from 0 and move separately, behind the wheels' limits: a
  target may for some periods lie below `TRACK_MIN_SPEED`, even below 0, for which `PID_Get`
  puts out 0.  `EdgeIsSteered` shows that it passes.
* `Run_Stop` clears the slew of `Run_Track` only, not that of `Run_Track_Stable30`.
* With the default coefficients the upper limit of the output is out of reach (about 740 of
  800): the integral's limit comes first.  `NoWindup` is about any coefficients.
* A report that holds the header byte 0x5A can keep the IMU's parser out of step for as long
  as it is repeated, and one byte changed in it, the first, is enough to bring it there
  (`CleanReportPublished` and `ChangedReportDropped` say behind which frames that cannot be), and a MaixCam word that holds the whole header likewise; its first byte or
  two alone cannot, as `CleanFrameDelivered` shows.

## 8. Abstractions, and what is not modelled

* In the lap modules the wheels are the branch that commanded them, with the sign that
  decides a direction.  The numbers are in StableTargets (integers, tens of the code's units,
  fractions dropped) and SpeedLoop; `Run_Track`'s PD terms are any target in `Targets`.
* `PID_KD` is 0 and nothing writes it: the D term of the speed loop is left out, as is the
  low-pass of the measured velocity.  The velocity is any member of `Velocities`.
* In the lap modules one step of the encoder distance is chosen per control period; how it
  comes about is EncoderCount's subject.
* What was sampled in the 1 ms stage and what `Run_Track` samples are independent, as the
  car moves between them.
* Parsers that share no state, and controllers of which one is active, are checked side by
  side: a behaviour of SerialPorts, StableControl, WheelDrive or MCStepMotorLink is one of
  its parts.
* `YawPID_Apply` and `YawPID_Enable(false)`: nothing calls them.  `TiltInner`'s display values.
  `StepMotor_Init`, which empties the receive register,
  sends one enable frame and waits.
* Not modelled: `KEY.c` (a pin read no mode uses), `board.c` (byte output, busy delays), the LCD
  (pixels; its refresh is commented out), SysConfig output and build products (generated),
  `Mode_Question_Four` to `Six` (empty).

## 9. Plan

1. **StableLap with TrackFilter**, so that the filter's delay enters the loss and reacquisition
   times; StableLap's `GyroFrame` as an abstraction of ImuFrames.
