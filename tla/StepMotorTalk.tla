----------------------------- MODULE StepMotorTalk -----------------------------
(***************************************************************************)
(* The driver and the motor understand each other: what the motor takes     *)
(* from a frame is what the driver was asked for, and what the driver makes *)
(* of a reply is what the motor reported.  The motor is external.  It reads *)
(* by the layouts and the auxiliary codes STEP_MOTOR.h gives (:68-77, :209, *)
(* :236, :269, :364, :388, :416, :456, :476, and two bytes for a reader,    *)
(* :528).  The header has no layout for the two quick position commands and *)
(* for set_home_zero, nor for any value in a reply: there the motor is what *)
(* STEP_MOTOR.c takes it to be, so that of these frames and of all replies  *)
(* the runs show that coding and decoding agree (widths, order of the       *)
(* bytes, signs, ranges), not that the motor's manual says the same.        *)
(***************************************************************************)
EXTENDS StepMotorCommands

CONSTANTS
    Addrs, Rpms, Accs,      \* arguments of the commands, also beyond their ranges
    DirArgs, SyncArgs, ModeArgs, HomeArgs,
    Pulses, SignedPulses,
    Angles,                 \* in tenths of a degree
    Words, Magnitudes, FlagBytes   \* what the motor may report

\* Bytes, 16-bit and 32-bit numbers.
ASSUME TalkAssumption ==
    /\ Addrs \cup Accs \cup DirArgs \cup SyncArgs \cup ModeArgs \cup HomeArgs \subseteq 0 .. 255
    /\ FlagBytes \subseteq 0 .. 255
    /\ \A n \in Rpms \cup Words : n \in Nat /\ n < 65536
    /\ \A n \in Pulses \cup Angles \cup Magnitudes : n \in Nat /\ n \div 65536 < 65536
    /\ \A n \in SignedPulses :
          n \in Int /\ -32768 <= n \div 65536 /\ n \div 65536 < 32768

VARIABLES
    exchange,  \* the call in progress, or the report a reader is answered by
    outcome    \* the frame it put on the line, or the value it made of the report, with
               \* the kind of exchange it is of

talkVars == <<exchange, outcome>>

Silence == [of |-> "nothing"]

\* The arguments of every command.
Asks ==
    [command : {"enable"}, addr : Addrs, on : BOOLEAN, sync : SyncArgs] \cup
    [command : {"speed"}, addr : Addrs, dir : DirArgs, rpm : Rpms, acc : Accs, sync : SyncArgs] \cup
    [command : {"position"}, addr : Addrs, dir : DirArgs, rpm : Rpms, acc : Accs,
        pulses : Pulses, mode : ModeArgs, sync : SyncArgs] \cup
    [command : {"quick_config"}, addr : Addrs, rpm : Rpms, acc : Accs,
        mode : ModeArgs, sync : SyncArgs] \cup
    [command : {"quick_run"}, addr : Addrs, pulses : SignedPulses] \cup
    [command : {"stop"}, addr : Addrs, sync : SyncArgs] \cup
    [command : {"home"}, addr : Addrs, mode : HomeArgs, sync : SyncArgs] \cup
    [command : {"set_home_zero"}, addr : Addrs, store : BOOLEAN] \cup
    [command : {"home_abort", "zero_position", "clear_protection"}, addr : Addrs] \cup
    [command : {"calibrate", "restart", "factory_reset"}, addr : Addrs] \cup
    [command : {"sync_start"}, addr : {BROADCAST}] \cup
    [command : {"read"}, addr : Addrs, code : READ_CODES]

\* Commands that have no variant without a reply.
AlwaysWaits == {"read", "set_home_zero", "calibrate", "restart", "factory_reset"}

\* The frame of a call that waits, then of one that does not.
Waiting(a) ==
    CASE a.command = "enable" -> zdt_emm_enable(a.addr, a.on, a.sync)
      [] a.command = "speed" -> zdt_emm_speed(a.addr, a.dir, a.rpm, a.acc, a.sync)
      [] a.command = "position" ->
            zdt_emm_position_pulses(a.addr, a.dir, a.rpm, a.acc, a.pulses, a.mode, a.sync)
      [] a.command = "quick_config" ->
            zdt_emm_quick_position_config(a.addr, a.rpm, a.acc, a.mode, a.sync)
      [] a.command = "quick_run" -> zdt_emm_quick_position_run(a.addr, a.pulses)
      [] a.command = "stop" -> zdt_emm_stop(a.addr, a.sync)
      [] a.command = "home" -> zdt_emm_home(a.addr, a.mode, a.sync)
      [] a.command = "set_home_zero" -> zdt_emm_set_home_zero(a.addr, a.store)
      [] a.command = "home_abort" -> zdt_emm_home_abort(a.addr)
      [] a.command = "zero_position" -> zdt_emm_zero_position(a.addr)
      [] a.command = "clear_protection" -> zdt_emm_clear_protection(a.addr)
      [] a.command = "calibrate" -> zdt_emm_calibrate_encoder(a.addr)
      [] a.command = "restart" -> zdt_emm_restart(a.addr)
      [] a.command = "factory_reset" -> zdt_emm_factory_reset(a.addr)
      [] a.command = "sync_start" -> zdt_emm_sync_start_no_reply
      [] a.command = "read" -> zdt_emm_read_frame(a.addr, a.code)

NotWaiting(a) ==
    CASE a.command = "enable" -> zdt_emm_enable_no_reply(a.addr, a.on, a.sync)
      [] a.command = "speed" -> zdt_emm_speed_no_reply(a.addr, a.dir, a.rpm, a.acc, a.sync)
      [] a.command = "position" ->
            zdt_emm_position_pulses_no_reply(a.addr, a.dir, a.rpm, a.acc, a.pulses, a.mode, a.sync)
      [] a.command = "quick_config" ->
            zdt_emm_quick_position_config_no_reply(a.addr, a.rpm, a.acc, a.mode, a.sync)
      [] a.command = "quick_run" -> zdt_emm_quick_position_run_no_reply(a.addr, a.pulses)
      [] a.command = "stop" -> zdt_emm_stop_no_reply(a.addr, a.sync)
      [] a.command = "home" -> zdt_emm_home_no_reply(a.addr, a.mode, a.sync)
      [] a.command = "home_abort" -> zdt_emm_home_abort_no_reply(a.addr)
      [] a.command = "zero_position" -> zdt_emm_zero_position_no_reply(a.addr)
      [] a.command = "clear_protection" -> zdt_emm_clear_protection_no_reply(a.addr)
      [] a.command = "sync_start" -> zdt_emm_sync_start_no_reply

--------------------------------------------------------------------------------
\* The motor.

U16(f, i) == 256 * f[i] + f[i + 1]

U32(f, i) == 65536 * U16(f, i) + U16(f, i + 2)

I32(f, i) == (IF f[i] < 128 THEN f[i] ELSE f[i] - 256) * 16777216 + 65536 * f[i + 1] + U16(f, i + 2)

\* What the motor takes from a frame: "Addr F3 AB Enable Sync 6B",
\* "Addr F6 Dir Speed Acc Sync 6B", "Addr FD Dir Speed Acc Pulses Mode Sync 6B",
\* "Addr FE 98 Sync 6B", "Addr 9A Mode Sync 6B" and so on.  A frame without its
\* auxiliary code is none.
Heard(f) ==
    CASE f[2] = 243 /\ f[3] = 171 -> [command |-> "enable", addr |-> f[1], on |-> f[4] = 1, sync |-> f[5]]
      [] f[2] = 246 -> [command |-> "speed", addr |-> f[1], dir |-> f[3], rpm |-> U16(f, 4),
                        acc |-> f[6], sync |-> f[7]]
      [] f[2] = 253 -> [command |-> "position", addr |-> f[1], dir |-> f[3], rpm |-> U16(f, 4),
                        acc |-> f[6], pulses |-> U32(f, 7), mode |-> f[11], sync |-> f[12]]
      [] f[2] = 241 -> [command |-> "quick_config", addr |-> f[1], rpm |-> U16(f, 3),
                        acc |-> f[5], mode |-> f[6], sync |-> f[7]]
      [] f[2] = 252 -> [command |-> "quick_run", addr |-> f[1], pulses |-> I32(f, 3)]
      [] f[2] = 254 /\ f[3] = 152 -> [command |-> "stop", addr |-> f[1], sync |-> f[4]]
      [] f[2] = 154 -> [command |-> "home", addr |-> f[1], mode |-> f[3], sync |-> f[4]]
      [] f[2] = 147 /\ f[3] = 136 -> [command |-> "set_home_zero", addr |-> f[1], store |-> f[4] = 1]
      [] f[2] = 156 /\ f[3] = 72 -> [command |-> "home_abort", addr |-> f[1]]
      [] f[2] = 10 /\ f[3] = 109 -> [command |-> "zero_position", addr |-> f[1]]
      [] f[2] = 14 /\ f[3] = 82 -> [command |-> "clear_protection", addr |-> f[1]]
      [] f[2] = 6 /\ f[3] = 69 -> [command |-> "calibrate", addr |-> f[1]]
      [] f[2] = 8 /\ f[3] = 151 -> [command |-> "restart", addr |-> f[1]]
      [] f[2] = 15 /\ f[3] = 95 -> [command |-> "factory_reset", addr |-> f[1]]
      [] f[2] = 255 /\ f[3] = 102 -> [command |-> "sync_start", addr |-> f[1]]
      [] f[2] \in READ_CODES -> [command |-> "read", addr |-> f[1], code |-> f[2]]
      [] OTHER -> Silence

WORDS == {"voltage", "bus_current", "phase_current", "encoder"}

LONGS == {"input_pulses", "target", "set_target", "position", "position_error"}

\* The code the motor reports a quantity under; "reached" is one flag of its status.
MOTOR_CODE ==
    [version |-> 31, phase |-> 32, voltage |-> 36, bus_current |-> 38, phase_current |-> 39,
     encoder |-> 49, input_pulses |-> 50, target |-> 51, set_target |-> 52, speed |-> 53,
     position |-> 54, position_error |-> 55, temperature |-> 57, status |-> 58,
     reached |-> 58, home_status |-> 59, all_status |-> 60, io_status |-> 61]

\* What the motor may report: words, a sign and a magnitude, or flags.
Reports ==
    [of : WORDS, word : Words] \cup
    [of : LONGS \cup {"speed", "temperature"}, negative : BOOLEAN, magnitude : Magnitudes] \cup
    [of : {"version", "phase"}, word : Words, second : Words] \cup
    [of : {"status", "reached", "home_status", "io_status"}, flags : FlagBytes] \cup
    [of : {"all_status"}, home : FlagBytes, motor : FlagBytes]

Fits(r) ==
    /\ r.of = "speed" => r.magnitude < 65536
    /\ r.of = "temperature" => r.magnitude < 256

\* The reply that carries a report.
Reply(r) ==
    LET high(w) == w \div 256
        low(w) == w % 256
        sign == IF r.negative THEN 1 ELSE 0
    IN  <<STEP_MOTOR_ADDR, MOTOR_CODE[r.of]>> \o
        (CASE r.of \in WORDS -> <<high(r.word), low(r.word)>>
           [] r.of \in LONGS ->
                <<sign, high(r.magnitude \div 65536), low(r.magnitude \div 65536),
                  high(r.magnitude % 65536), low(r.magnitude)>>
           [] r.of = "speed" -> <<sign, high(r.magnitude), low(r.magnitude)>>
           [] r.of = "temperature" -> <<sign, low(r.magnitude)>>
           [] r.of \in {"version", "phase"} ->
                <<high(r.word), low(r.word), high(r.second), low(r.second)>>
           [] r.of = "all_status" -> <<r.home, r.motor>>
           [] OTHER -> <<r.flags>>) \o <<CHECK>>

\* The motor's replies when it has this to report: to any other code, some bytes.
Answers(r) ==
    [c \in READ_CODES |-> IF c = MOTOR_CODE[r.of] THEN Reply(r)
                          ELSE <<STEP_MOTOR_ADDR, c, 9, 9, 9, 9, 9, CHECK>>]

\* What the driver's readers of a quantity return, those of My_STEPMOTOR.C included.
Readings(r) ==
    LET answers == Answers(r)
    IN  CASE r.of = "voltage" -> {zdt_emm_read_bus_voltage_mv(answers)}
          [] r.of = "bus_current" -> {zdt_emm_read_bus_current_ma(answers)}
          [] r.of = "phase_current" -> {zdt_emm_read_phase_current_ma(answers)}
          [] r.of = "encoder" -> {zdt_emm_read_encoder_raw(answers), StepMotor_ReadEncoder(answers)}
          [] r.of = "input_pulses" -> {zdt_emm_read_input_pulses(answers)}
          [] r.of = "target" -> {zdt_emm_read_target_position_raw(answers)}
          [] r.of = "set_target" -> {zdt_emm_read_set_target_position_raw(answers)}
          [] r.of = "position" -> {zdt_emm_read_position_raw(answers), StepMotor_ReadPosition(answers)}
          [] r.of = "position_error" -> {zdt_emm_read_position_error_raw(answers)}
          [] r.of = "speed" -> {zdt_emm_read_speed_rpm(answers)}
          [] r.of = "temperature" -> {zdt_emm_read_temperature_c(answers)}
          [] r.of = "version" -> {zdt_emm_read_version(answers)}
          [] r.of = "phase" -> {zdt_emm_read_phase_parameters(answers)}
          [] r.of = "status" -> {zdt_emm_read_status(answers), StepMotor_ReadStatus(answers)}
          [] r.of = "reached" -> {StepMotor_IsReached(answers)}
          [] r.of = "home_status" -> {zdt_emm_read_home_status(answers)}
          [] r.of = "io_status" -> {zdt_emm_read_io_status(answers)}
          [] r.of = "all_status" -> {zdt_emm_read_all_status(answers)}

--------------------------------------------------------------------------------

TalkInit == exchange = Silence /\ outcome = <<"nothing", Refused>>

\* A command; the driver keeps nothing from one call to the next.
Command ==
    /\ exchange = Silence
    /\ \E ask \in Asks, waits \in BOOLEAN :
          /\ ask.command \in AlwaysWaits => waits
          /\ exchange' = [of |-> "command", waits |-> waits, ask |-> ask]
          /\ outcome' = <<"command", IF waits THEN Waiting(ask) ELSE NotWaiting(ask)>>

\* What the wrappers of My_STEPMOTOR.C ask of motor 1.
MoveAsk(dir, angle, mode) ==
    [command |-> "position", addr |-> 1, dir |-> dir, rpm |-> 500, acc |-> 50,
     pulses |-> (16 * angle + 9) \div 18, mode |-> mode, sync |-> 0]

RunAsk(dir, rpm) ==
    [command |-> "speed", addr |-> 1, dir |-> dir, rpm |-> rpm, acc |-> 50, sync |-> 0]

ConfigAsk(mode) ==
    [command |-> "quick_config", addr |-> 1, rpm |-> 500, acc |-> 50, mode |-> mode, sync |-> 0]

QuickAsk(pulses) == [command |-> "quick_run", addr |-> 1, pulses |-> pulses]

StopAsk == [command |-> "stop", addr |-> 1, sync |-> 0]

ZeroAsk == [command |-> "zero_position", addr |-> 1]

Wrapper(frame, ask) == [frame |-> frame, ask |-> ask]

Wrapped ==
    {Wrapper(StepMotor_Stop_NoReply, StopAsk), Wrapper(StepMotor_Stop, StopAsk),
     Wrapper(StepMotor_ZeroPosition, ZeroAsk)} \cup
    {Wrapper(StepMotor_MoveToAbsoluteAngle(angle), MoveAsk(0, angle, 1)) : angle \in Angles} \cup
    {Wrapper(StepMotor_MoveToAbsoluteAngle_NoReply(angle), MoveAsk(0, angle, 1)) :
        angle \in Angles} \cup
    {Wrapper(StepMotor_MoveRelativeAngle(dir, angle), MoveAsk(dir, angle, 2)) :
        dir \in {0, 1}, angle \in Angles} \cup
    {Wrapper(StepMotor_MoveRelativeAngle_NoReply(dir, angle), MoveAsk(dir, angle, 2)) :
        dir \in {0, 1}, angle \in Angles} \cup
    {Wrapper(StepMotor_QuickConfig(mode), ConfigAsk(mode)) : mode \in 0 .. 2} \cup
    {Wrapper(StepMotor_QuickMoveByPulses(pulses), QuickAsk(pulses)) : pulses \in SignedPulses} \cup
    {Wrapper(StepMotor_RunSpeed(dir, rpm), RunAsk(dir, rpm)) : dir \in DirArgs, rpm \in Rpms} \cup
    {Wrapper(StepMotor_RunSpeed_NoReply(dir, rpm), RunAsk(dir, rpm)) :
        dir \in DirArgs, rpm \in Rpms}

WrapperCall ==
    /\ exchange = Silence
    /\ \E w \in Wrapped :
          /\ exchange' = [of |-> "command", waits |-> TRUE, ask |-> w.ask]
          /\ outcome' = <<"command", w.frame>>

\* A reader, with the report it is answered by.
Reading ==
    /\ exchange = Silence
    /\ \E r \in Reports :
          /\ Fits(r)
          /\ exchange' = r
          /\ \E value \in Readings(r) : outcome' = <<r.of, value>>

EndExchange ==
    /\ exchange # Silence
    /\ exchange' = Silence /\ outcome' = <<"nothing", Refused>>

TalkNext == Command \/ WrapperCall \/ Reading \/ EndExchange

TalkSpec == TalkInit /\ [][TalkNext]_talkVars

\* The argument values the header allows.
Allowed(call) ==
    LET a == call.ask has(field) == field \in DOMAIN a
    IN  /\ call.waits /\ a.command # "sync_start" => a.addr # BROADCAST
        /\ has("rpm") => a.rpm \in 0 .. 3000
        /\ has("dir") => a.dir \in {0, 1}
        /\ has("sync") => a.sync \in {0, 1}
        /\ has("mode") => a.mode \in IF a.command = "home" THEN 0 .. 5 ELSE 0 .. 2

One(b) == IF b THEN 1 ELSE 0

MotorFlags(v) ==
    One(v.enabled) + 2 * One(v.reached) + 4 * One(v.stall) + 8 * One(v.stall_protect)
    + 16 * One(v.left_limit_high) + 32 * One(v.right_limit_high) + 128 * One(v.power_loss)

HomeFlags(v) ==
    One(v.encoder_ready) + 2 * One(v.calibration_ready) + 4 * One(v.homing)
    + 8 * One(v.homing_failed) + 16 * One(v.over_temperature) + 32 * One(v.over_current)

\* The bits of a byte but the unused ones.
Masked(flags, unused) == flags - ((flags \div unused) % 2) * unused

\* What a report says: its number, or its flags in the order of the manual.
Says(r, v) ==
    CASE r.of \in WORDS -> v = r.word
      [] r.of \in LONGS \cup {"speed", "temperature"} ->
            v = IF r.negative THEN -r.magnitude ELSE r.magnitude
      [] r.of = "reached" -> v <=> Masked(r.flags, 2) # r.flags
      [] r.of = "version" ->
            /\ v.firmware_version = r.word
            /\ 4096 * v.hardware_series + 256 * v.hardware_type + v.hardware_version = r.second
      [] r.of = "phase" -> v.resistance_milliohm = r.word /\ v.inductance_uh = r.second
      [] r.of = "status" -> MotorFlags(v) = Masked(r.flags, 64)
      [] r.of = "home_status" -> HomeFlags(v) = r.flags % 64
      [] r.of = "io_status" ->
            /\ v.enable_pin_high <=> Masked(r.flags, 1) # r.flags
            /\ v.step_pin_high <=> Masked(r.flags, 4) # r.flags
            /\ v.direction_pin_high <=> Masked(r.flags, 16) # r.flags
            /\ v.direction_output <=> Masked(r.flags, 32) # r.flags
      [] r.of = "all_status" ->
            HomeFlags(v.home) = r.home % 64 /\ MotorFlags(v.motor) = Masked(r.motor, 64)

\* The motor takes from every frame what the caller asked, or the call sent
\* nothing because an argument was out of its range; the driver makes of every
\* reply what the motor reported, with its sign.
SameMeaning ==
    LET result == outcome[2]
    IN  /\ exchange.of \notin {"nothing", "command"} => Says(exchange, result)
        /\ exchange.of = "command" =>
              IF Allowed(exchange)
              THEN /\ result # Refused /\ result[Len(result)] = CHECK
                   /\ Heard(result) = exchange.ask
              ELSE result = Refused

================================================================================
