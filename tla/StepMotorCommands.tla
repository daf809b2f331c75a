--------------------------- MODULE StepMotorCommands ---------------------------
(***************************************************************************)
(* What the step motor driver says and hears (STEP_MOTOR.c, My_STEPMOTOR.C):*)
(* the frame each command puts on the line, the value each reader makes of  *)
(* its reply, and the conversions between degrees, pulses and positions.    *)
(* StepMotorLink models how frames and replies travel; a call refused as    *)
(* BAD_PARAM sends nothing and is the empty frame here.                     *)
(***************************************************************************)
EXTENDS Integers, Sequences

CHECK == 107           \* ZDT_EMM_DEFAULT_CHECK
BROADCAST == 0         \* ZDT_EMM_BROADCAST_ADDR
MAX_RPM == 3000

DIRS == {0, 1}         \* CW, CCW
SYNCS == {0, 1}        \* EXEC_NOW, EXEC_SYNC
MOVE_MODES == {0, 1, 2} \* REL_LAST_TARGET, ABS_ZERO, REL_CURRENT
HOME_MODES == 0 .. 5

\* ZDT_EMM_CMD_READ_VERSION to _READ_IO_STATUS.
CMD_READ ==
    [VERSION |-> 31, PHASE_RL |-> 32, VOLTAGE |-> 36, BUS_CURRENT |-> 38,
     PHASE_CURRENT |-> 39, ENCODER |-> 49, INPUT_PULSES |-> 50, TARGET |-> 51,
     SET_TARGET |-> 52, SPEED |-> 53, POSITION |-> 54, POSITION_ERROR |-> 55,
     TEMPERATURE |-> 57, STATUS |-> 58, HOME_STATUS |-> 59, ALL_STATUS |-> 60, IO_STATUS |-> 61]

READ_CODES == {CMD_READ[c] : c \in DOMAIN CMD_READ}

Refused == <<>>

SendIf(allowed, body) == IF allowed THEN Append(body, CHECK) ELSE Refused

\* The calls that wait for a reply refuse the broadcast address.
Unicast(addr, frame) == IF addr = BROADCAST THEN Refused ELSE frame

\* Two's complement of a negative value, high byte first.
zdt_emm_put_u16(value) == <<(value \div 256) % 256, value % 256>>

zdt_emm_put_u32(value) == zdt_emm_put_u16(value \div 65536) \o zdt_emm_put_u16(value % 65536)

zdt_emm_get_u16(high, low) == 256 * high + low

\* Values from 2^31 on are beyond TLC's integers and are not enumerated.
zdt_emm_get_u32(b1, b2, b3, b4) == 65536 * zdt_emm_get_u16(b1, b2) + zdt_emm_get_u16(b3, b4)

--------------------------------------------------------------------------------
\* Commands.

zdt_emm_enable_no_reply(addr, enable, sync) ==
    SendIf(sync \in SYNCS, <<addr, 243, 171, IF enable THEN 1 ELSE 0, sync>>)

zdt_emm_enable(addr, enable, sync) == Unicast(addr, zdt_emm_enable_no_reply(addr, enable, sync))

zdt_emm_speed_no_reply(addr, dir, rpm, acc, sync) ==
    SendIf(rpm <= MAX_RPM /\ dir \in DIRS /\ sync \in SYNCS,
           <<addr, 246, dir>> \o zdt_emm_put_u16(rpm) \o <<acc, sync>>)

zdt_emm_speed(addr, dir, rpm, acc, sync) ==
    Unicast(addr, zdt_emm_speed_no_reply(addr, dir, rpm, acc, sync))

zdt_emm_position_pulses_no_reply(addr, dir, rpm, acc, pulses, mode, sync) ==
    SendIf(rpm <= MAX_RPM /\ dir \in DIRS /\ mode \in MOVE_MODES /\ sync \in SYNCS,
           <<addr, 253, dir>> \o zdt_emm_put_u16(rpm) \o <<acc>>
               \o zdt_emm_put_u32(pulses) \o <<mode, sync>>)

zdt_emm_position_pulses(addr, dir, rpm, acc, pulses, mode, sync) ==
    Unicast(addr, zdt_emm_position_pulses_no_reply(addr, dir, rpm, acc, pulses, mode, sync))

\* Fault: the acceleration and the mode change places.
quick_position_config_swapped(addr, rpm, acc, mode, sync) ==
    SendIf(rpm <= MAX_RPM /\ mode \in MOVE_MODES /\ sync \in SYNCS,
           <<addr, 241>> \o zdt_emm_put_u16(rpm) \o <<mode, acc, sync>>)

zdt_emm_quick_position_config_no_reply(addr, rpm, acc, mode, sync) ==
    SendIf(rpm <= MAX_RPM /\ mode \in MOVE_MODES /\ sync \in SYNCS,
           <<addr, 241>> \o zdt_emm_put_u16(rpm) \o <<acc, mode, sync>>)

zdt_emm_quick_position_config(addr, rpm, acc, mode, sync) ==
    Unicast(addr, zdt_emm_quick_position_config_no_reply(addr, rpm, acc, mode, sync))

zdt_emm_quick_position_run_no_reply(addr, pulses) ==
    SendIf(TRUE, <<addr, 252>> \o zdt_emm_put_u32(pulses))

zdt_emm_quick_position_run(addr, pulses) ==
    Unicast(addr, zdt_emm_quick_position_run_no_reply(addr, pulses))

zdt_emm_stop_no_reply(addr, sync) == SendIf(sync \in SYNCS, <<addr, 254, 152, sync>>)

zdt_emm_stop(addr, sync) == Unicast(addr, zdt_emm_stop_no_reply(addr, sync))

zdt_emm_home_no_reply(addr, mode, sync) ==
    SendIf(mode \in HOME_MODES /\ sync \in SYNCS, <<addr, 154, mode, sync>>)

zdt_emm_home(addr, mode, sync) == Unicast(addr, zdt_emm_home_no_reply(addr, mode, sync))

zdt_emm_home_abort_no_reply(addr) == SendIf(TRUE, <<addr, 156, 72>>)

zdt_emm_home_abort(addr) == Unicast(addr, zdt_emm_home_abort_no_reply(addr))

zdt_emm_zero_position_no_reply(addr) == SendIf(TRUE, <<addr, 10, 109>>)

zdt_emm_zero_position(addr) == Unicast(addr, zdt_emm_zero_position_no_reply(addr))

zdt_emm_clear_protection_no_reply(addr) == SendIf(TRUE, <<addr, 14, 82>>)

zdt_emm_clear_protection(addr) == Unicast(addr, zdt_emm_clear_protection_no_reply(addr))

\* To every motor on the line, with or without a wait for the reply.
zdt_emm_sync_start_no_reply == SendIf(TRUE, <<BROADCAST, 255, 102>>)

zdt_emm_action_with_aux(addr, code, aux) == Unicast(addr, SendIf(TRUE, <<addr, code, aux>>))

zdt_emm_calibrate_encoder(addr) == zdt_emm_action_with_aux(addr, 6, 69)

zdt_emm_restart(addr) == zdt_emm_action_with_aux(addr, 8, 151)

zdt_emm_factory_reset(addr) == zdt_emm_action_with_aux(addr, 15, 95)

zdt_emm_set_home_zero(addr, store) ==
    Unicast(addr, SendIf(TRUE, <<addr, 147, 136, IF store THEN 1 ELSE 0>>))

\* The frame of zdt_emm_read_request.
zdt_emm_read_frame(addr, code) == Unicast(addr, SendIf(TRUE, <<addr, code>>))

--------------------------------------------------------------------------------
\* Readers.  `answers` gives the motor's reply to each code, with address, code and
\* check right (StepMotorLink has the others).

\* flags & mask, of a mask with one bit.
Bit(flags, mask) == (flags \div mask) % 2 = 1

zdt_emm_decode_status(flags) ==
    [enabled |-> Bit(flags, 1), reached |-> Bit(flags, 2), stall |-> Bit(flags, 4),
     stall_protect |-> Bit(flags, 8), left_limit_high |-> Bit(flags, 16),
     right_limit_high |-> Bit(flags, 32), power_loss |-> Bit(flags, 128)]

zdt_emm_decode_home_status(flags) ==
    [encoder_ready |-> Bit(flags, 1), calibration_ready |-> Bit(flags, 2),
     homing |-> Bit(flags, 4), homing_failed |-> Bit(flags, 8),
     over_temperature |-> Bit(flags, 16), over_current |-> Bit(flags, 32)]

\* The third byte is the sign of the magnitude that follows.
WithSign(reply, magnitude) ==
    CASE reply[3] = 0 -> magnitude
      [] reply[3] = 1 -> -magnitude
      [] OTHER -> "BAD_FRAME"

zdt_emm_read_u16_value(reply) == zdt_emm_get_u16(reply[3], reply[4])

zdt_emm_read_signed_u32(reply) ==
    WithSign(reply, zdt_emm_get_u32(reply[4], reply[5], reply[6], reply[7]))

zdt_emm_read_status(answers) == zdt_emm_decode_status(answers[CMD_READ.STATUS][3])

zdt_emm_read_home_status(answers) == zdt_emm_decode_home_status(answers[CMD_READ.HOME_STATUS][3])

zdt_emm_read_speed_rpm(answers) ==
    LET reply == answers[CMD_READ.SPEED] IN WithSign(reply, zdt_emm_get_u16(reply[4], reply[5]))

zdt_emm_read_position_raw(answers) == zdt_emm_read_signed_u32(answers[CMD_READ.POSITION])

zdt_emm_read_bus_voltage_mv(answers) == zdt_emm_read_u16_value(answers[CMD_READ.VOLTAGE])

zdt_emm_read_version(answers) ==
    LET reply == answers[CMD_READ.VERSION] IN
    [firmware_version |-> zdt_emm_get_u16(reply[3], reply[4]),
     hardware_series |-> reply[5] \div 16, hardware_type |-> reply[5] % 16,
     hardware_version |-> reply[6]]

zdt_emm_read_phase_parameters(answers) ==
    LET reply == answers[CMD_READ.PHASE_RL] IN
    [resistance_milliohm |-> zdt_emm_get_u16(reply[3], reply[4]),
     inductance_uh |-> zdt_emm_get_u16(reply[5], reply[6])]

zdt_emm_read_bus_current_ma(answers) == zdt_emm_read_u16_value(answers[CMD_READ.BUS_CURRENT])

zdt_emm_read_phase_current_ma(answers) == zdt_emm_read_u16_value(answers[CMD_READ.PHASE_CURRENT])

zdt_emm_read_encoder_raw(answers) == zdt_emm_read_u16_value(answers[CMD_READ.ENCODER])

zdt_emm_read_input_pulses(answers) == zdt_emm_read_signed_u32(answers[CMD_READ.INPUT_PULSES])

zdt_emm_read_target_position_raw(answers) == zdt_emm_read_signed_u32(answers[CMD_READ.TARGET])

zdt_emm_read_set_target_position_raw(answers) ==
    zdt_emm_read_signed_u32(answers[CMD_READ.SET_TARGET])

zdt_emm_read_temperature_c(answers) ==
    LET reply == answers[CMD_READ.TEMPERATURE] IN WithSign(reply, reply[4])

zdt_emm_read_position_error_raw(answers) ==
    zdt_emm_read_signed_u32(answers[CMD_READ.POSITION_ERROR])

zdt_emm_read_all_status(answers) ==
    LET reply == answers[CMD_READ.ALL_STATUS] IN
    [home |-> zdt_emm_decode_home_status(reply[3]), motor |-> zdt_emm_decode_status(reply[4])]

zdt_emm_read_io_status(answers) ==
    LET flags == answers[CMD_READ.IO_STATUS][3] IN
    [enable_pin_high |-> Bit(flags, 1), step_pin_high |-> Bit(flags, 4),
     direction_pin_high |-> Bit(flags, 16), direction_output |-> Bit(flags, 32)]

--------------------------------------------------------------------------------
\* My_STEPMOTOR.C.

STEP_MOTOR_ADDR == 1
PULSES_PER_REV == 3200
MOTOR_RPM == 500
MOTOR_ACC == 50

zdt_emm_degrees_to_pulses_x10(degrees_x10, pulses_per_rev) ==
    IF pulses_per_rev = 0 THEN 0 ELSE (degrees_x10 * pulses_per_rev + 1800) \div 3600

StepMotor_MoveRelativeAngle(dir, deg_x10) ==
    zdt_emm_position_pulses(STEP_MOTOR_ADDR, dir, MOTOR_RPM, MOTOR_ACC,
        zdt_emm_degrees_to_pulses_x10(deg_x10, PULSES_PER_REV), 2, 0)

\* The direction is always CW.
StepMotor_MoveToAbsoluteAngle(deg_x10) ==
    zdt_emm_position_pulses(STEP_MOTOR_ADDR, 0, MOTOR_RPM, MOTOR_ACC,
        zdt_emm_degrees_to_pulses_x10(deg_x10, PULSES_PER_REV), 1, 0)

StepMotor_MoveRelativeAngle_NoReply(dir, deg_x10) ==
    zdt_emm_position_pulses_no_reply(STEP_MOTOR_ADDR, dir, MOTOR_RPM, MOTOR_ACC,
        zdt_emm_degrees_to_pulses_x10(deg_x10, PULSES_PER_REV), 2, 0)

StepMotor_MoveToAbsoluteAngle_NoReply(deg_x10) ==
    zdt_emm_position_pulses_no_reply(STEP_MOTOR_ADDR, 0, MOTOR_RPM, MOTOR_ACC,
        zdt_emm_degrees_to_pulses_x10(deg_x10, PULSES_PER_REV), 1, 0)

StepMotor_Stop == zdt_emm_stop(STEP_MOTOR_ADDR, 0)

StepMotor_Stop_NoReply == zdt_emm_stop_no_reply(STEP_MOTOR_ADDR, 0)

StepMotor_ZeroPosition == zdt_emm_zero_position(STEP_MOTOR_ADDR)

StepMotor_QuickConfig(mode) ==
    zdt_emm_quick_position_config(STEP_MOTOR_ADDR, MOTOR_RPM, MOTOR_ACC, mode, 0)

StepMotor_QuickMoveByPulses(pulses) == zdt_emm_quick_position_run(STEP_MOTOR_ADDR, pulses)

StepMotor_RunSpeed(dir, rpm) == zdt_emm_speed(STEP_MOTOR_ADDR, dir, rpm, MOTOR_ACC, 0)

StepMotor_RunSpeed_NoReply(dir, rpm) ==
    zdt_emm_speed_no_reply(STEP_MOTOR_ADDR, dir, rpm, MOTOR_ACC, 0)

StepMotor_ReadEncoder(answers) == zdt_emm_read_encoder_raw(answers)

StepMotor_ReadPosition(answers) == zdt_emm_read_position_raw(answers)

StepMotor_ReadStatus(answers) == zdt_emm_read_status(answers)

StepMotor_IsReached(answers) == zdt_emm_read_status(answers).reached

\* Rounded to the nearest, away from zero; C's quotient truncates.
StepMotor_ReadAngle_x10(position) ==
    LET magnitude == ((IF position >= 0 THEN position ELSE -position) * 3600 + 32768) \div 65536
    IN  IF position >= 0 THEN magnitude ELSE -magnitude

================================================================================
