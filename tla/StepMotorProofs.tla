---------------------------- MODULE StepMotorProofs ----------------------------
(***************************************************************************)
(* Proofs about the serial link of the step motor, for every set of        *)
(* function codes, values and replies, every size of the receive register  *)
(* (one byte where a theorem says so) and any number of frames; about the  *)
(* platform's tilt, for all angles; and about what driver and motor take   *)
(* from each other's frames, for all arguments and reports.                *)
(***************************************************************************)
EXTENDS StepMotorLink, TiltPlatform, SequenceTheorems, TLAPS

--------------------------------------------------------------------------------
\* What the motor reports as its position, and the angle the driver makes of it.

\* The bytes of a number, put together again.
LEMMA TwoBytes ==
    ASSUME NEW n \in Nat
    PROVE  /\ n \div 256 \in Nat /\ n % 256 \in 0 .. 255
           /\ 256 * (n \div 256) + (n % 256) = n
BY Z3

LEMMA FourBytes ==
    ASSUME NEW m \in Nat
    PROVE  65536 * (256 * ((m \div 65536) \div 256) + ((m \div 65536) % 256))
             + (256 * ((m % 65536) \div 256) + (m % 256)) = m
<1> DEFINE h == m \div 65536
           l == m % 65536
<1>1. h \in Nat /\ l \in Nat /\ m = 65536 * h + l
    BY Z3
<1>2. m % 256 = l % 256
    BY Z3
<1> HIDE DEF h, l
<1>3. 256 * (h \div 256) + (h % 256) = h /\ 256 * (l \div 256) + (l % 256) = l
    BY <1>1, TwoBytes
<1> QED
    BY <1>1, <1>2, <1>3 DEF h, l

LEMMA PositionReply ==
    ASSUME NEW b \in BOOLEAN, NEW m \in Nat
    PROVE  LET reply == Reply([of |-> "position", negative |-> b, magnitude |-> m])
           IN  /\ reply[3] = IF b THEN 1 ELSE 0
               /\ reply[4] = (m \div 65536) \div 256
               /\ reply[5] = (m \div 65536) % 256
               /\ reply[6] = (m % 65536) \div 256
               /\ reply[7] = m % 256
<1> DEFINE r == [of |-> "position", negative |-> b, magnitude |-> m]
           s3 == IF b THEN 1 ELSE 0
           s4 == (m \div 65536) \div 256
           s5 == (m \div 65536) % 256
           s6 == (m % 65536) \div 256
           s7 == m % 256
           code == MOTOR_CODE[r.of]
<1>1. Reply(r) = <<STEP_MOTOR_ADDR, code>> \o <<s3, s4, s5, s6, s7>> \o <<CHECK>>
    <2>1. r.of \in LONGS /\ r.of \notin WORDS
        BY DEF LONGS, WORDS
    <2> QED
        BY <2>1 DEF Reply
<1> HIDE DEF r, s3, s4, s5, s6, s7, code
<1>2. /\ Reply(r)[3] = s3 /\ Reply(r)[4] = s4 /\ Reply(r)[5] = s5
      /\ Reply(r)[6] = s6 /\ Reply(r)[7] = s7
    BY <1>1
<1> QED
    BY <1>2 DEF r, s3, s4, s5, s6, s7

\* The reader gives back the signed position the motor reports.
LEMMA PositionRead ==
    ASSUME NEW b \in BOOLEAN, NEW m \in Nat
    PROVE  zdt_emm_read_position_raw(Answers([of |-> "position", negative |-> b, magnitude |-> m]))
             = IF b THEN -m ELSE m
<1> DEFINE r == [of |-> "position", negative |-> b, magnitude |-> m]
           reply == Reply(r)
<1>1. Answers(r)[CMD_READ.POSITION] = reply
    <2>1. MOTOR_CODE[r.of] = 54 /\ CMD_READ.POSITION = 54
        BY DEF MOTOR_CODE, CMD_READ
    <2>2. 54 \in READ_CODES
        BY <2>1 DEF READ_CODES, CMD_READ
    <2> QED
        BY <2>1, <2>2 DEF Answers
<1>2. /\ reply[3] = IF b THEN 1 ELSE 0
      /\ reply[4] = (m \div 65536) \div 256
      /\ reply[5] = (m \div 65536) % 256
      /\ reply[6] = (m % 65536) \div 256
      /\ reply[7] = m % 256
    BY PositionReply
<1> HIDE DEF reply, r
<1>3. zdt_emm_get_u32(reply[4], reply[5], reply[6], reply[7]) = m
    BY <1>2, FourBytes DEF zdt_emm_get_u32, zdt_emm_get_u16
<1>4. WithSign(reply, m) = IF b THEN -m ELSE m
    BY <1>2 DEF WithSign
<1> QED
    BY <1>1, <1>3, <1>4 DEF zdt_emm_read_position_raw, zdt_emm_read_signed_u32, r

\* The driver's angle, in tenths of a degree, is that of the position but for 22 / 400 degree:
\* half a tenth of the last rounding, and what the motor cuts off of its report.
LEMMA AngleNearPosition ==
    ASSUME NEW at \in Int
    PROVE  Angle(at) \in Int /\ 40 * Angle(at) - 45 * at \in -22 .. 22
<1> DEFINE a == Abs(at)
           m == (a * 512) \div 25
           g == (m * 3600 + 32768) \div 65536
           negative == at < 0
<1>1. a \in Nat /\ at = IF negative THEN -a ELSE a
    BY DEF Abs
<1> HIDE DEF a
<1>2. m \in Nat /\ 25 * m <= a * 512 /\ a * 512 <= 25 * m + 24
    BY <1>1, Z3
<1> HIDE DEF m
<1>3. g \in Nat /\ 65536 * g <= m * 3600 + 32768 /\ m * 3600 + 32768 <= 65536 * g + 65535
    BY <1>2, Z3
<1>4. 40 * g - 45 * a \in -22 .. 22
    BY <1>1, <1>2, <1>3
<1>5. zdt_emm_read_position_raw(PositionAnswers(at)) = IF negative THEN -m ELSE m
    <2>1. PositionAnswers(at) = Answers([of |-> "position", negative |-> negative, magnitude |-> m])
        BY DEF PositionAnswers, a, m
    <2>2. negative \in BOOLEAN
        OBVIOUS
    <2> HIDE DEF negative
    <2> QED
        BY <1>2, <2>1, <2>2, PositionRead
<1>6. Angle(at) = IF negative THEN -g ELSE g
    <2>1. CASE negative
        <3>1. a >= 1
            BY <1>1, <2>1
        <3>2. m > 0
            BY <1>1, <1>2, <3>1
        <3> QED
            BY <1>2, <1>5, <2>1, <3>2 DEF Angle, StepMotor_ReadAngle_x10
    <2>2. CASE ~negative
        BY <1>2, <1>5, <2>2 DEF Angle, StepMotor_ReadAngle_x10
    <2> QED
        BY <2>1, <2>2
<1> HIDE DEF g, negative
<1> QED
    BY <1>1, <1>3, <1>4, <1>6

--------------------------------------------------------------------------------
\* The frame of a relative move, and what the motor makes of it.

Turned(dir, pulses) == IF dir = 0 THEN position + pulses ELSE position - pulses

\* The arguments are allowed, so that the frame is sent.
LEMMA MoveIsSent ==
    ASSUME NEW dir \in DIRS, NEW p
    PROVE  zdt_emm_position_pulses(STEP_MOTOR_ADDR, dir, MOTOR_RPM, MOTOR_ACC, p, 2, 0)
             = Append(<<STEP_MOTOR_ADDR, 253, dir>> \o zdt_emm_put_u16(MOTOR_RPM) \o <<MOTOR_ACC>>
                        \o zdt_emm_put_u32(p) \o <<2, 0>>, CHECK)
<1> DEFINE f == zdt_emm_position_pulses(STEP_MOTOR_ADDR, dir, MOTOR_RPM, MOTOR_ACC, p, 2, 0)
           ok == MOTOR_RPM <= MAX_RPM /\ dir \in DIRS /\ 2 \in MOVE_MODES /\ 0 \in SYNCS
           body == <<STEP_MOTOR_ADDR, 253, dir>> \o zdt_emm_put_u16(MOTOR_RPM) \o <<MOTOR_ACC>>
                     \o zdt_emm_put_u32(p) \o <<2, 0>>
<1>1. f = Unicast(STEP_MOTOR_ADDR, SendIf(ok, body))
    BY DEF zdt_emm_position_pulses, zdt_emm_position_pulses_no_reply
<1>2. ok
    BY DEF MOTOR_RPM, MAX_RPM, MOVE_MODES, SYNCS
<1>3. STEP_MOTOR_ADDR # BROADCAST
    BY DEF STEP_MOTOR_ADDR, BROADCAST
<1> HIDE DEF f, ok, body
<1>4. f = Append(body, CHECK)
    BY <1>1, <1>2, <1>3, Zenon DEF Unicast, SendIf
<1> QED
    BY <1>4 DEF f, body

\* The bytes the motor looks at.
LEMMA MoveBytes ==
    ASSUME NEW dir, NEW speed, NEW acc, NEW pulses, NEW h, NEW l, NEW f,
           speed = <<1, 244>>, pulses = <<0, 0>> \o <<h, l>>,
           f = Append(<<1, 253, dir>> \o speed \o <<acc>> \o pulses \o <<2, 0>>, CHECK)
    PROVE  /\ f[2] = 253 /\ f[3] = dir /\ f[7] = 0 /\ f[8] = 0 /\ f[9] = h /\ f[10] = l
           /\ f[11] = 2
<1> DEFINE b == <<1, 253, dir>> \o speed \o <<acc>>
           c == b \o pulses
           S == {0, 1, 253, 244, dir, acc, h, l}
<1>1. /\ Len(b) = 6 /\ b[2] = 253 /\ b[3] = dir /\ b \in Seq(S)
    OBVIOUS
<1>2. /\ Len(pulses) = 4 /\ pulses[1] = 0 /\ pulses[2] = 0 /\ pulses[3] = h /\ pulses[4] = l
      /\ pulses \in Seq(S)
    OBVIOUS
<1>3. f = Append(c \o <<2, 0>>, CHECK)
    OBVIOUS
<1> HIDE DEF b, S
<1>4. /\ Len(c) = Len(b) + Len(pulses)
      /\ \A i \in 1 .. Len(b) + Len(pulses) :
            c[i] = IF i <= Len(b) THEN b[i] ELSE pulses[i - Len(b)]
    <2> HIDE DEF c
    <2>1. b \in Seq(S) /\ pulses \in Seq(S)
        BY <1>1, <1>2
    <2>2. c = b \o pulses
        BY DEF c
    <2> QED
        BY <2>1, <2>2, ConcatProperties, Zenon
<1> HIDE DEF c
<1>5. /\ Len(c) = 10 /\ c[2] = 253 /\ c[3] = dir /\ c[7] = 0 /\ c[8] = 0 /\ c[9] = h /\ c[10] = l
    BY <1>1, <1>2, <1>4
<1>6. c \in Seq(S)
    BY <1>1, <1>2, ConcatProperties DEF c
<1> QED
    BY <1>3, <1>5, <1>6

Small(p) == p < 65536

LEMMA LowWord ==
    ASSUME NEW p \in Nat, Small(p)
    PROVE  /\ zdt_emm_put_u32(p) = <<0, 0>> \o <<p \div 256, p % 256>>
           /\ p \div 256 \in Nat /\ p % 256 \in Nat /\ 256 * (p \div 256) + (p % 256) = p
<1> DEFINE h == p \div 256
           l == p % 256
<1>1. h \in 0 .. 255 /\ l \in 0 .. 255 /\ 256 * h + l = p
    BY Z3 DEF Small
<1>2. p \div 65536 = 0 /\ p % 65536 = p
    BY Z3 DEF Small
<1>3. h % 256 = h
    BY <1>1, Z3
<1>4. zdt_emm_put_u16(0) = <<0, 0>>
    BY DEF zdt_emm_put_u16
<1>5. zdt_emm_put_u16(p) = <<h, l>>
    BY <1>3 DEF zdt_emm_put_u16
<1> HIDE DEF h, l
<1> DEFINE high == zdt_emm_put_u16(p \div 65536)
           low == zdt_emm_put_u16(p % 65536)
<1>6. zdt_emm_put_u32(p) = high \o low
    BY DEF zdt_emm_put_u32
<1>7. high = <<0, 0>> /\ low = <<h, l>>
    BY <1>2, <1>4, <1>5
<1> HIDE DEF high, low
<1>8. zdt_emm_put_u32(p) = <<0, 0>> \o <<h, l>>
    BY <1>6, <1>7
<1> QED
    BY <1>1, <1>8 DEF h, l

\* The motor hears the direction, the number of pulses and that they are relative to where
\* it is.
LEMMA MoveHeard ==
    ASSUME position \in Int, goal \in Int, NEW dir \in {0, 1}, NEW p \in Nat, Small(p)
    PROVE  Obeyed(zdt_emm_position_pulses(STEP_MOTOR_ADDR, dir, MOTOR_RPM, MOTOR_ACC, p, 2, 0))
             = Turned(dir, p)
<1> DEFINE h == p \div 256
           l == p % 256
           f == zdt_emm_position_pulses(STEP_MOTOR_ADDR, dir, MOTOR_RPM, MOTOR_ACC, p, 2, 0)
<1>1. zdt_emm_put_u16(MOTOR_RPM) = <<1, 244>>
    BY DEF zdt_emm_put_u16, MOTOR_RPM
<1>2. zdt_emm_put_u32(p) = <<0, 0>> \o <<h, l>> /\ h \in Nat /\ l \in Nat /\ 256 * h + l = p
    BY LowWord
<1> HIDE DEF h, l
<1>3. f = Append(<<1, 253, dir>> \o zdt_emm_put_u16(MOTOR_RPM) \o <<MOTOR_ACC>>
                   \o zdt_emm_put_u32(p) \o <<2, 0>>, CHECK)
    BY MoveIsSent DEF STEP_MOTOR_ADDR, DIRS
<1> HIDE DEF f
<1>5. /\ f[2] = 253 /\ f[3] = dir /\ f[7] = 0 /\ f[8] = 0 /\ f[9] = h /\ f[10] = l
      /\ f[11] = 2
    BY <1>1, <1>2, <1>3, MoveBytes
<1>6. U32(f, 7) = p
    <2>1. U16(f, 9) = p
        BY <1>2, <1>5 DEF U16
    <2>2. U16(f, 7) = 0
        BY <1>5 DEF U16
    <2> QED
        BY <1>2, <2>1, <2>2 DEF U32
<1>7. Heard(f) = [command |-> "position", addr |-> f[1], dir |-> f[3], rpm |-> U16(f, 4),
                  acc |-> f[6], pulses |-> U32(f, 7), mode |-> f[11], sync |-> f[12]]
    BY <1>5 DEF Heard, READ_CODES, CMD_READ
<1>8. Heard(f).dir = dir /\ Heard(f).pulses = p /\ Heard(f).mode = 2
    BY <1>5, <1>6, <1>7
<1>9. Obeyed(f) = IF dir = 0 THEN position + p ELSE position + -p
    BY <1>8 DEF Obeyed
<1> QED
    BY <1>9 DEF Turned, f

--------------------------------------------------------------------------------
\* The tilt.

\* What is to be sent for an error, in tenths of a degree, with its sign.
SignedAmount(error) == IF error > 0 THEN Amount(error) ELSE -Amount(error)

\* Where the pending move is to end, as the driver knows it: off by the roundings of the
\* angle and of the amount, and by what the motor has turned since.
TiltInv ==
    /\ Inner_Target \in Int /\ Inner_Current_x10 \in Int
    /\ position \in Int /\ goal \in Int /\ drift \in Nat /\ aim \in Int
    /\ late \in [due : BOOLEAN, at : Int, drift : Nat]
    /\ late.due => Abs(position - late.at) <= late.drift
    /\ tiltPc = "moving" =>
          Abs(45 * position + 40 * SignedAmount(Inner_Error(Inner_Current_x10)) - aim)
            <= 45 * drift + 58

LEMMA AmountRange ==
    ASSUME NEW error \in Int
    PROVE  /\ Amount(error) \in 0 .. 900
           /\ SignedAmount(error) \in Int
           /\ Abs(error) > 9000 => Amount(error) = 900
           /\ Abs(error) <= 9000 => 10 * Amount(error) <= Abs(error) /\ Abs(error) <= 10 * Amount(error) + 9
<1> DEFINE a == Abs(error)
           q == a \div 10
<1>1. a \in Nat
    BY DEF Abs
<1> HIDE DEF a
<1>2. q \in Nat /\ 10 * q <= a /\ a <= 10 * q + 9
    BY <1>1, Z3
<1>3. Amount(error) = IF a > 9000 THEN 900 ELSE q
    BY DEF Amount, MaxTilt, a
<1> HIDE DEF q
<1>4. Amount(error) \in 0 .. 900
    BY <1>1, <1>2, <1>3
<1> QED
    BY <1>1, <1>2, <1>3, <1>4 DEF SignedAmount, a

\* The amount sent brings the motor from p to where the call wants it, but for the
\* rounding of the angle c and what the cut to tenths leaves.
LEMMA AmountAims ==
    ASSUME NEW p \in Int, NEW c \in Int, NEW target \in Int, 40 * c - 45 * p \in -22 .. 22,
           NEW off \in Int, off = 4 * target - 45 * p
    PROVE  Abs(40 * SignedAmount(target - 10 * c)
                 - (IF off > 36000 THEN 36000 ELSE IF off < -36000 THEN -36000 ELSE off)) <= 58
<1> DEFINE error == target - 10 * c
           n == Amount(error)
           d == 40 * c - 45 * p
           limited == IF off > 36000 THEN 36000 ELSE IF off < -36000 THEN -36000 ELSE off
<1>1. error \in Int /\ d \in -22 .. 22 /\ off = 4 * error + d
    OBVIOUS
<1> HIDE DEF d, error
<1>2. /\ n \in 0 .. 900
      /\ Abs(error) > 9000 => n = 900
      /\ Abs(error) <= 9000 => 10 * n <= Abs(error) /\ Abs(error) <= 10 * n + 9
    BY <1>1, AmountRange
<1>3. SignedAmount(error) = IF error > 0 THEN n ELSE -n
    BY DEF SignedAmount
<1> HIDE DEF n
<1>4. CASE error > 0
    <2>1. Abs(error) = error /\ SignedAmount(error) = n
        BY <1>1, <1>3, <1>4 DEF Abs
    <2>2. 40 * n - limited \in -58 .. 58
        BY <1>1, <1>2, <1>4, <2>1
    <2> HIDE DEF limited
    <2> QED
        BY <2>1, <2>2 DEF Abs, error, limited
<1>5. CASE error < 0
    <2>1. Abs(error) = -error /\ SignedAmount(error) = -n
        BY <1>1, <1>3, <1>5 DEF Abs
    <2>2. 40 * (-n) - limited \in -58 .. 58
        BY <1>1, <1>2, <1>5, <2>1
    <2> HIDE DEF limited
    <2> QED
        BY <2>1, <2>2 DEF Abs, error, limited
<1>6. CASE error = 0
    <2>1. Abs(error) = error
        BY <1>1, <1>6 DEF Abs
    <2>2. n = 0 /\ SignedAmount(error) = -n
        BY <1>2, <1>3, <1>6, <2>1
    <2> DEFINE m == -n
    <2>3. m \in Int /\ m + n = 0
        BY <1>2
    <2> HIDE DEF m
    <2>4. 40 * m - limited \in -58 .. 58
        BY <1>1, <1>6, <2>2, <2>3
    <2>5. SignedAmount(error) = m
        BY <2>2 DEF m
    <2> HIDE DEF limited
    <2> QED
        BY <2>3, <2>4, <2>5 DEF Abs, error, limited
<1> QED
    BY <1>1, <1>4, <1>5, <1>6

\* The conversion to pulses rounds to the nearest.
LEMMA PulsesNear ==
    ASSUME NEW a \in 0 .. 900
    PROVE  LET p == zdt_emm_degrees_to_pulses_x10(a, PULSES_PER_REV)
           IN  p \in 0 .. 800 /\ 45 * p - 40 * a \in -22 .. 22
<1> DEFINE p == (a * 3200 + 1800) \div 3600
<1>1. p \in Nat /\ 3600 * p <= a * 3200 + 1800 /\ a * 3200 + 1800 <= 3600 * p + 3599
    BY Z3
<1>2. zdt_emm_degrees_to_pulses_x10(a, PULSES_PER_REV) = p
    BY DEF zdt_emm_degrees_to_pulses_x10, PULSES_PER_REV
<1> HIDE DEF p
<1>3. p \in 0 .. 800 /\ 45 * p - 40 * a \in -22 .. 22
    BY <1>1
<1> QED
    BY <1>2, <1>3

\* The motor's new goal, if the move reaches it.
LEMMA MoveEnds ==
    ASSUME TiltInv, Move
    PROVE  /\ goal' \in Int
           /\ goal' # goal => Abs(45 * goal' - aim) <= 45 * drift + 80
<1> DEFINE error == Inner_Error(Inner_Current_x10)
           n == Amount(error)
           p == zdt_emm_degrees_to_pulses_x10(n, PULSES_PER_REV)
           dir == IF error > 0 THEN 0 ELSE 1
           moved == SignedAmount(error)
<1>1. error \in Int
    BY DEF TiltInv, Inner_Error
<1>2. n \in 0 .. 900
    BY <1>1, AmountRange
<1>3. moved = IF error > 0 THEN n ELSE -n
    BY DEF SignedAmount
<1>4. tiltPc = "moving" /\ goal' \in {goal, Obeyed(StepMotor_MoveRelativeAngle(dir, n))}
    BY DEF Move
<1> HIDE DEF error, moved
<1>5. /\ position \in Int /\ goal \in Int /\ drift \in Nat /\ aim \in Int
      /\ Abs(45 * position + 40 * moved - aim) <= 45 * drift + 58
    BY <1>4 DEF TiltInv, moved, error
<1>6. p \in 0 .. 800 /\ 45 * p - 40 * n \in -22 .. 22
    <2> HIDE DEF n
    <2> QED
        BY <1>2, PulsesNear
<1>7. Obeyed(StepMotor_MoveRelativeAngle(dir, n)) = Turned(dir, p)
    <2>1. StepMotor_MoveRelativeAngle(dir, n)
            = zdt_emm_position_pulses(STEP_MOTOR_ADDR, dir, MOTOR_RPM, MOTOR_ACC, p, 2, 0)
        BY DEF StepMotor_MoveRelativeAngle
    <2>2. p \in Nat /\ Small(p) /\ dir \in {0, 1}
        BY <1>6 DEF Small
    <2> HIDE DEF n, p, dir
    <2> QED
        BY <1>5, <2>1, <2>2, MoveHeard
<1> HIDE DEF n, p
<1>8. Turned(dir, p) = IF error > 0 THEN position + p ELSE position - p
    BY DEF Turned
<1> HIDE DEF dir
<1>9. ASSUME goal' = Turned(dir, p)
      PROVE  goal' \in Int /\ Abs(45 * goal' - aim) <= 45 * drift + 80
    <2>1. goal' \in Int
        BY <1>5, <1>6, <1>8, <1>9
    <2>2. 45 * goal' - (45 * position + 40 * moved) \in -22 .. 22
        BY <1>2, <1>3, <1>5, <1>6, <1>8, <1>9
    <2>3. moved \in Int
        BY <1>2, <1>3
    <2> DEFINE x == 45 * position + 40 * moved - aim
               y == 45 * goal' - aim
               z == 45 * position + 40 * moved
    <2>4. x \in Int /\ y \in Int /\ y - x \in -22 .. 22
        <3>1. z \in Int /\ 45 * goal' - z \in -22 .. 22 /\ x = z - aim /\ y = 45 * goal' - aim
            BY <1>5, <2>2, <2>3
        <3> DEFINE g == 45 * goal'
        <3>2. g \in Int /\ aim \in Int
            BY <1>5, <2>1
        <3> HIDE DEF x, y, z, g
        <3>3. z \in Int /\ g - z \in -22 .. 22 /\ x = z - aim /\ y = g - aim
            BY <3>1 DEF g
        <3> QED
            BY <3>2, <3>3
    <2> HIDE DEF x, y
    <2>5. Abs(x) <= 45 * drift + 58
        BY <1>5 DEF x
    <2>6. Abs(y) <= 45 * drift + 80
        BY <1>5, <2>4, <2>5 DEF Abs
    <2> QED
        BY <2>1, <2>6 DEF y
<1> QED
    BY <1>4, <1>5, <1>7, <1>9

LEMMA TiltInitInv == TiltInit => TiltInv
BY DEF TiltInit, TiltInv, NoAnswer

\* An answer, taken or due: the motor is no farther from where it stood than it has turned.
Faithful(answer) ==
    /\ answer \in [due : BOOLEAN, at : Int, drift : Nat]
    /\ answer.due => Abs(position - answer.at) <= answer.drift

LEMMA AnswersFaithful ==
    ASSUME TiltInv
    PROVE  /\ Faithful(late) /\ Faithful(NoAnswer) /\ Faithful(Now)
           /\ GetsNoAnswer => Faithful(late')
           /\ \A answer : TakesAnswer(answer) => answer.due /\ Faithful(answer) /\ Faithful(late')
<1>1. Faithful(late) /\ Faithful(NoAnswer)
    BY DEF TiltInv, Faithful, NoAnswer
<1>2. Faithful(Now) /\ Now.due
    BY DEF TiltInv, Faithful, Now, Abs
<1> HIDE DEF Faithful
<1>3. GetsNoAnswer => Faithful(late')
    BY <1>1, <1>2 DEF GetsNoAnswer
<1>4. ASSUME NEW answer, TakesAnswer(answer)
      PROVE  answer.due /\ Faithful(answer) /\ Faithful(late')
    <2>1. answer = Now \/ (answer = late /\ late.due)
        BY <1>4 DEF TakesAnswer
    <2>2. late' = NoAnswer \/ late' = Now
        BY <1>4 DEF TakesAnswer
    <2> QED
        BY <1>1, <1>2, <2>1, <2>2
<1> QED
    BY <1>1, <1>2, <1>3, <1>4

LEMMA TiltStep == TiltInv /\ [TiltNext]_tiltVars => TiltInv'
<1> SUFFICES ASSUME TiltInv, [TiltNext]_tiltVars PROVE TiltInv'
    OBVIOUS
<1>1. CASE SetTarget
    BY <1>1, TiltAssumption DEF SetTarget, TiltInv
<1>2. CASE AngleUnread
    BY <1>2, AnswersFaithful DEF AngleUnread, TiltInv, Faithful
<1>3. CASE AngleRead
    <2>1. PICK answer :
             /\ TakesAnswer(answer)
             /\ Inner_Current_x10' = Angle(answer.at)
             /\ \/ tiltPc' = "idle" /\ UNCHANGED <<drift, aim>>
                \/ /\ tiltPc' = "moving"
                   /\ drift' = answer.drift /\ aim' = ClampedAim(answer.at)
        BY <1>3 DEF AngleRead
    <2>2. position' = position /\ goal' = goal /\ Inner_Target' = Inner_Target
        BY <1>3 DEF AngleRead
    <2> DEFINE at == answer.at
               angle == Angle(at)
    <2>3. /\ at \in Int /\ answer.drift \in Nat /\ Abs(position - at) <= answer.drift
          /\ late' \in [due : BOOLEAN, at : Int, drift : Nat]
          /\ late'.due => Abs(position' - late'.at) <= late'.drift
        BY <2>1, <2>2, AnswersFaithful DEF Faithful
    <2> HIDE DEF at
    <2>4. angle \in Int /\ 40 * angle - 45 * at \in -22 .. 22
        BY <2>3, AngleNearPosition
    <2>5. Inner_Current_x10' = angle
        BY <2>1 DEF at
    <2> HIDE DEF angle
    <2>6. CASE tiltPc' = "idle" /\ UNCHANGED <<drift, aim>>
        BY <2>2, <2>3, <2>4, <2>5, <2>6 DEF TiltInv
    <2>7. CASE tiltPc' = "moving" /\ drift' = answer.drift /\ aim' = ClampedAim(answer.at)
        <3> DEFINE off == 4 * Inner_Target - 45 * at
                   limited == IF off > 36000 THEN 36000
                              ELSE IF off < -36000 THEN -36000 ELSE off
                   move == SignedAmount(Inner_Target - 10 * angle)
        <3>2. ClampedAim(at) = 45 * at + limited
            BY <2>3 DEF ClampedAim, TiltInv
        <3>3. off \in Int /\ Inner_Target \in Int /\ position \in Int
            BY <2>3 DEF TiltInv
        <3>4. Abs(40 * move - limited) <= 58
            <4>1. off = 4 * Inner_Target - 45 * at
                OBVIOUS
            <4> HIDE DEF off
            <4> QED
                BY <2>3, <2>4, <3>3, <4>1, AmountAims
        <3>5. move \in Int
            BY <2>4, <3>3, AmountRange
        <3>6. SignedAmount(Inner_Error(Inner_Current_x10))' = move
            BY <2>2, <2>5 DEF Inner_Error, SignedAmount, Amount, Abs
        <3>7. limited \in Int
            BY <3>3
        <3> HIDE DEF move, limited, off
        <3>8. drift' = answer.drift /\ aim' = 45 * at + limited
            BY <2>7, <3>2 DEF at
        <3>9. aim' \in Int
            BY <2>3, <3>7, <3>8
        <3>10. Abs(45 * position' + 40 * move - aim') <= 45 * drift' + 58
            <4> DEFINE d == position - at
                       e == 40 * move - limited
                       x == 45 * position' + 40 * move - aim'
            <4>1. d \in Int /\ e \in Int /\ x = 45 * d + e
                BY <2>2, <2>3, <3>3, <3>5, <3>7, <3>8
            <4> DEFINE f == drift'
            <4>2. Abs(d) <= f /\ Abs(e) <= 58 /\ f \in Nat
                BY <2>3, <3>4, <3>8
            <4> HIDE DEF d, e, x, f
            <4>3. Abs(x) <= 45 * f + 58
                BY <4>1, <4>2 DEF Abs
            <4> QED
                BY <4>3 DEF x, f
        <3> QED
            BY <2>2, <2>3, <2>4, <2>5, <3>6, <3>8, <3>9, <3>10 DEF TiltInv, Abs
    <2> QED
        BY <2>1, <2>6, <2>7
<1>4. CASE Move
    BY <1>4, MoveEnds, AnswersFaithful DEF Move, TiltInv, Faithful
<1>5. CASE TiltInner_Loop
    <2>1. Inner_Current_x10' \in Int
        <3>1. \A answer : TakesAnswer(answer) => Angle(answer.at) \in Int
            BY AnswersFaithful, AngleNearPosition DEF Faithful
        <3> QED
            BY <1>5, <3>1 DEF TiltInner_Loop, TiltInv
    <2>2. Faithful(late')
        BY <1>5, AnswersFaithful DEF TiltInner_Loop
    <2> QED
        BY <1>5, <2>1, <2>2 DEF TiltInner_Loop, TiltInv, Faithful
<1>6. CASE Turn
    <2>1. PICK to : /\ to = goal \/ to = (position + goal) \div 2
                    /\ position' = to
                    /\ drift' = drift + IF tiltPc = "moving" THEN Abs(to - position) ELSE 0
                    /\ late' = IF late.due THEN [late EXCEPT !.drift = @ + Abs(to - position)]
                               ELSE late
        BY <1>6 DEF Turn
    <2>2. /\ Inner_Target' = Inner_Target /\ Inner_Current_x10' = Inner_Current_x10
          /\ goal' = goal /\ aim' = aim /\ tiltPc' = tiltPc
        BY <1>6 DEF Turn
    <2>3. to \in Int
        <3>1. (position + goal) \div 2 \in Int
            BY DEF TiltInv
        <3> QED
            BY <2>1, <3>1 DEF TiltInv
    <2>4. drift' \in Nat
        BY <2>1, <2>3 DEF TiltInv, Abs
    <2>7. /\ late' \in [due : BOOLEAN, at : Int, drift : Nat]
          /\ late'.due => Abs(to - late'.at) <= late'.drift
        <3> DEFINE n == Abs(to - position)
        <3>1. late \in [due : BOOLEAN, at : Int, drift : Nat] /\ position \in Int
            BY DEF TiltInv
        <3>2. n \in Nat
            BY <2>3, <3>1 DEF Abs
        <3>3. CASE ~late.due
            BY <2>1, <3>1, <3>3
        <3>4. CASE late.due
            <4>1. late' = [late EXCEPT !.drift = late.drift + n]
                BY <2>1, <3>4
            <4> HIDE DEF n
            <4>2. /\ late' \in [due : BOOLEAN, at : Int, drift : Nat]
                  /\ late'.at = late.at /\ late'.drift = late.drift + n
                BY <3>1, <3>2, <4>1
            <4>3. Abs(position - late.at) <= late.drift
                BY <3>4 DEF TiltInv
            <4>4. Abs(to - late.at) <= late.drift + n
                BY <2>3, <3>1, <4>3 DEF Abs, n
            <4> QED
                BY <4>2, <4>4
        <3> QED
            BY <3>3, <3>4
    <2>5. CASE tiltPc = "moving"
        <3> DEFINE move == SignedAmount(Inner_Error(Inner_Current_x10))
        <3>1. SignedAmount(Inner_Error(Inner_Current_x10))' = move
            BY <2>2 DEF SignedAmount, Amount, Abs, Inner_Error
        <3>2. move \in Int
            <4>1. Inner_Error(Inner_Current_x10) \in Int
                BY DEF TiltInv, Inner_Error
            <4> QED
                BY <4>1, AmountRange
        <3>3. drift' = drift + Abs(to - position)
            BY <2>1, <2>5
        <3>4. Abs(45 * position + 40 * move - aim) <= 45 * drift + 58
            BY <2>5 DEF TiltInv
        <3> HIDE DEF move
        <3> DEFINE x == 45 * position + 40 * move - aim
                   y == 45 * to + 40 * move - aim
                   z == to - position
        <3>5. x \in Int /\ y \in Int /\ z \in Int /\ y = x + 45 * z /\ drift \in Nat
            BY <2>3, <3>2 DEF TiltInv
        <3> HIDE DEF x, y, z
        <3>6. Abs(x) <= 45 * drift + 58 /\ drift' = drift + Abs(z)
            BY <3>3, <3>4 DEF x, z
        <3>7. Abs(y) <= 45 * drift' + 58
            BY <3>5, <3>6 DEF Abs
        <3> QED
            BY <2>1, <2>2, <2>3, <2>4, <2>7, <3>1, <3>7 DEF TiltInv, Abs, y
    <2>6. CASE tiltPc # "moving"
        BY <2>1, <2>2, <2>3, <2>4, <2>6, <2>7 DEF TiltInv
    <2> QED
        BY <2>5, <2>6
<1>7. CASE UNCHANGED tiltVars
    BY <1>7 DEF tiltVars, TiltInv, SignedAmount, Amount, Abs, Inner_Error
<1> QED
    BY <1>1, <1>2, <1>3, <1>4, <1>5, <1>6, <1>7 DEF TiltNext

\* For all targets, wherever the motor stands, however far it turns between the exchanges
\* and whichever answers and moves are lost: the rounding errors of the report, the angle,
\* the cut to tenths and the conversion to pulses never add up to more than 0.2 degrees.
THEOREM TiltNeverOff == TiltSpec => TiltErrorIsDrift
<1>1. TiltInv /\ [TiltNext]_tiltVars =>
        [goal' # goal => Abs(45 * goal' - aim) <= 45 * drift + 80]_tiltVars
    <2> SUFFICES ASSUME TiltInv, TiltNext, goal' # goal
                 PROVE  Abs(45 * goal' - aim) <= 45 * drift + 80
        BY DEF tiltVars
    <2>1. Move
        BY DEF TiltNext, SetTarget, AngleUnread, AngleRead, TiltInner_Loop, Turn
    <2> QED
        BY <2>1, MoveEnds
<1> QED
    BY <1>1, TiltInitInv, TiltStep, PTL DEF TiltSpec, TiltErrorIsDrift

--------------------------------------------------------------------------------
\* Types of the link.

\* The bytes of answers to these frames.
BytesOf(frames) == [value : 0 .. 255, of : frames, at : 1 .. 8]

ByteOf(n) == BytesOf(1 .. n)

LEMMA IntervalEnd ==
    ASSUME NEW n \in Nat, NEW m \in Nat, 1 .. n = 1 .. m
    PROVE  n = m
<1>1. \A i : i \in 1 .. n <=> i \in 1 .. m
    BY Zenon
<1>2. n <= m
    BY <1>1
<1>3. m <= n
    BY <1>1
<1> QED
    BY <1>2, <1>3

LEMMA FunctionIsSeq ==
    ASSUME NEW S, NEW n \in Nat, NEW f \in [1 .. n -> S]
    PROVE  f \in Seq(S) /\ Len(f) = n
<1>1. f \in Seq(S)
    BY SeqDef, Zenon
<1> DEFINE m == Len(f)
<1>2. m \in Nat /\ f \in [1 .. m -> S]
    BY <1>1, LenProperties
<1> HIDE DEF m
<1>3. 1 .. n = 1 .. m
    BY <1>2, Zenon
<1>4. n = m
    BY <1>2, <1>3, IntervalEnd
<1> QED
    BY <1>1, <1>4 DEF m

\* r is a frame's reply around this body of n bytes.
Shaped(r, frame, code, n, body) ==
    /\ Len(r) = n + 3
    /\ \A i \in 1 .. n + 3 : r[i].of = frame
    /\ \A i \in 1 .. n + 3 : r[i].at = i
    /\ r[1].value = Addr
    /\ r[2].value = code
    /\ r[3].value = body[1]
    /\ r[n + 3].value = Check
    /\ \A i \in 1 .. n + 3 : i # 2 => r[i].value \in {Addr, Check} \cup Range(body)

\* A reply is as long as its code's replies are, and begins and ends as they do.
LEMMA ReplyShape ==
    ASSUME NEW frame, sent[frame] \in Codes, NEW n \in 1 .. 5,
           NEW body \in [1 .. n -> 0 .. 255]
    PROVE  /\ ReplyTo(frame, body) \in Seq(BytesOf({frame}))
           /\ Shaped(ReplyTo(frame, body), frame, sent[frame], n, body)
<1> DEFINE Value(i) == CASE i = 1 -> Addr
                         [] i = 2 -> sent[frame]
                         [] i = Len(body) + 3 -> Check
                         [] OTHER -> body[i - 2]
           m == n + 3
<1>1. Len(body) = n
    BY FunctionIsSeq
<1>2. m \in Nat /\ m = Len(body) + 3 /\ m \in 4 .. 8
    BY <1>1
<1>3. /\ Addr \in 0 .. 255 /\ Check \in 0 .. 255 /\ sent[frame] \in 0 .. 255
    <2>1. Addr \in 1 .. 255 /\ Check \in 0 .. 255 /\ Codes \subseteq 0 .. 255
        BY StepMotorAssumption, Zenon
    <2>2. Addr \in 0 .. 255
        BY <2>1
    <2>3. sent[frame] \in 0 .. 255
        BY <2>1, Zenon
    <2> QED
        BY <2>1, <2>2, <2>3, Zenon
<1> HIDE DEF m
<1>4. ReplyTo(frame, body) = [i \in 1 .. m |-> [value |-> Value(i), of |-> frame, at |-> i]]
    BY <1>2 DEF ReplyTo
<1>5. ASSUME NEW i \in 1 .. m PROVE Value(i) \in 0 .. 255
    <2>1. CASE i \in {1, 2} \/ i = Len(body) + 3
        BY <1>2, <1>3, <2>1
    <2>2. CASE i \notin {1, 2} /\ i # Len(body) + 3
        <3>1. Value(i) = body[i - 2]
            BY <2>2
        <3> DEFINE j == i - 2
        <3>2. j \in 1 .. n
            BY <1>1, <1>2, <1>5, <2>2
        <3> HIDE DEF Value, j
        <3>3. body[j] \in 0 .. 255
            BY <3>2
        <3> QED
            BY <3>1, <3>3 DEF j
    <2> QED
        BY <2>1, <2>2
<1>6. Value(1) = Addr /\ Value(2) = sent[frame] /\ Value(3) = body[1] /\ Value(m) = Check
    BY <1>1, <1>2
<1>11. ASSUME NEW i \in 1 .. m, i # 2 PROVE Value(i) \in {Addr, Check} \cup Range(body)
    <2>1. CASE i = 1 \/ i = Len(body) + 3
        BY <1>2, <1>11, <2>1
    <2>2. CASE i # 1 /\ i # Len(body) + 3
        <3>1. Value(i) = body[i - 2]
            BY <1>11, <2>2
        <3> DEFINE j == i - 2
        <3>2. j \in 1 .. n
            BY <1>1, <1>2, <1>11, <2>2
        <3>3. DOMAIN body = 1 .. n
            OBVIOUS
        <3> HIDE DEF Value, j
        <3>4. body[j] \in Range(body)
            BY <3>2, <3>3, Zenon DEF Range
        <3> QED
            BY <3>1, <3>4 DEF j
    <2> QED
        BY <2>1, <2>2
<1> HIDE DEF Value
<1>7. ReplyTo(frame, body) \in [1 .. m -> BytesOf({frame})]
    <2>1. ASSUME NEW i \in 1 .. m
          PROVE  [value |-> Value(i), of |-> frame, at |-> i] \in BytesOf({frame})
        <3>1. i \in 1 .. 8
            BY <1>2
        <3> QED
            BY <1>5, <3>1, Zenon DEF BytesOf
    <2> DEFINE B == BytesOf({frame})
               b(i) == [value |-> Value(i), of |-> frame, at |-> i]
    <2>2. /\ \A i \in 1 .. m : b(i) \in B
          /\ ReplyTo(frame, body) = [i \in 1 .. m |-> b(i)]
        BY <1>4, <2>1
    <2> HIDE DEF B, b
    <2>3. ReplyTo(frame, body) \in [1 .. m -> B]
        BY <2>2
    <2> QED
        BY <2>3 DEF B
<1>8. ReplyTo(frame, body) \in Seq(BytesOf({frame})) /\ Len(ReplyTo(frame, body)) = m
    BY <1>2, <1>7, FunctionIsSeq
<1>9. \A i \in 1 .. m : /\ ReplyTo(frame, body)[i].value = Value(i)
                        /\ ReplyTo(frame, body)[i].of = frame
                        /\ ReplyTo(frame, body)[i].at = i
    BY <1>4
<1>10. 1 \in 1 .. m /\ 2 \in 1 .. m /\ 3 \in 1 .. m /\ m \in 1 .. m
    BY <1>2
<1> QED
    BY <1>6, <1>8, <1>9, <1>10, <1>11 DEF m, Shaped

LEMMA BodyTypes ==
    ASSUME NEW code \in Codes, NEW body \in Bodies(code)
    PROVE  /\ ReplyLen[code] \in 4 .. 8
           /\ ReplyLen[code] - 3 \in 1 .. 5
           /\ body \in [1 .. ReplyLen[code] - 3 -> 0 .. 255]
           /\ code \in Reads \/ Range(body) \subseteq StatusBytes
           /\ code \in Actions => body[1] \in StatusBytes
           /\ code \in Signed => body[1] \in {0, 1}
<1>1. ReplyLen[code] \in 4 .. 8 /\ (code \in Actions => ReplyLen[code] = 4)
    BY StepMotorAssumption
<1> DEFINE n == ReplyLen[code] - 3
           B == 0 .. 255
<1>2. n \in 1 .. 5 /\ (code \in Actions => n = 1)
    BY <1>1
<1>3. StatusBytes \subseteq B
    BY StepMotorAssumption
<1>4. code \notin Actions => code \in Reads /\ body \in Reported[code]
    BY DEF Codes, Bodies
<1>5. code \in Reads =>
          /\ Reported[code] \subseteq [1 .. n -> B]
          /\ code \in Signed => \A value \in Reported[code] : value[1] \in {0, 1}
    BY StepMotorAssumption
<1>6. Actions \cap Reads = {} /\ Signed \subseteq Reads
    BY StepMotorAssumption
<1>7. CASE code \in Actions
    <2>1. body \in [1 .. 1 -> StatusBytes]
        BY <1>7 DEF Bodies
    <2>2. Range(body) \subseteq StatusBytes /\ body[1] \in StatusBytes
        <3>1. 1 \in 1 .. 1 /\ DOMAIN body = 1 .. 1
            BY <2>1
        <3> QED
            BY <2>1, <3>1, Zenon DEF Range
    <2> HIDE DEF B, n
    <2>3. body \in [1 .. 1 -> B]
        BY <1>3, <2>1
    <2> QED
        BY <1>1, <1>2, <1>6, <1>7, <2>2, <2>3 DEF B, n
<1>8. CASE code \notin Actions
    <2> HIDE DEF B, n
    <2>1. body \in [1 .. n -> B] /\ (code \in Signed => body[1] \in {0, 1})
        BY <1>4, <1>5, <1>8
    <2> QED
        BY <1>1, <1>2, <1>4, <1>8, <2>1 DEF B, n
<1> QED
    BY <1>7, <1>8

LEMMA ResultTypes ==
    ASSUME NEW reply, NEW code
    PROVE  Parsed(reply, code) \in {"OK", "BAD_FRAME", "LIMITED", "DEVICE_ERROR", "FORMAT_ERROR"}
BY DEF Parsed, zdt_emm_wait_reply, zdt_emm_read_request, zdt_emm_status_to_result

LEMMA SomeBytes ==
    ASSUME NEW F, NEW frame \in F, NEW s \in Seq(BytesOf({frame}))
    PROVE  s \in Seq(BytesOf(F))
<1>1. BytesOf({frame}) \subseteq BytesOf(F)
    BY Zenon DEF BytesOf
<1> QED
    BY <1>1, SeqMonotonic

LEMMA MoreBytes ==
    ASSUME NEW n \in Nat, NEW m \in Nat, n <= m, NEW s \in Seq(ByteOf(n))
    PROVE  s \in Seq(ByteOf(m))
<1>1. 1 .. n \subseteq 1 .. m
    OBVIOUS
<1>2. ByteOf(n) \subseteq ByteOf(m)
    BY <1>1, Zenon DEF ByteOf, BytesOf
<1> QED
    BY <1>2, SeqMonotonic

\* The owners of bytes are frames.
LEMMA OwnersAreFrames ==
    ASSUME NEW n \in Nat, NEW s \in Seq(ByteOf(n))
    PROVE  Owners(s) \subseteq 1 .. n
<1>1. \A i \in DOMAIN s : s[i] \in ByteOf(n)
    BY LenProperties, ElementOfSeq, Zenon
<1>2. ASSUME NEW i \in DOMAIN s PROVE s[i].of \in 1 .. n
    BY <1>1 DEF ByteOf, BytesOf
<1> QED
    BY <1>2, Zenon DEF Owners

Results == {"none", "OK", "TIMEOUT", "BAD_FRAME", "BAD_PARAM", "LIMITED",
            "DEVICE_ERROR", "FORMAT_ERROR"}

Stages ==
    /\ pc \in {"idle", "sending", "writing", "reading"}
    /\ result \in Results
    /\ pc = "sending" => call # 0 /\ call = Len(sent) /\ got = <<>>
    /\ pc = "writing" => Len(sent) # 0
    /\ pc = "reading" => call # 0 /\ Len(got) < ReplyLen[sent[call]]

Frames ==
    /\ sent \in Seq(Codes) /\ Len(sent) <= MaxFrames
    /\ call \in 0 .. Len(sent)
    /\ inbox \in Seq(1 .. Len(sent))
    /\ moving \in 0 .. Len(sent)
    /\ open \in SUBSET (1 .. Len(sent)) /\ arrived \in SUBSET (1 .. Len(sent))

Line ==
    /\ fifo \in Seq(ByteOf(Len(sent))) /\ Len(fifo) <= FifoDepth
    /\ wire \in Seq(ByteOf(Len(sent)))
    /\ got \in Seq(ByteOf(Len(sent))) /\ Len(got) <= 8

LinkInv == Stages /\ Frames /\ Line

LEMMA LinkInitInv == Init => LinkInv
<1> SUFFICES ASSUME Init PROVE LinkInv
    OBVIOUS
<1>1. \A S : <<>> \in Seq(S) /\ Len(<<>>) = 0
    BY EmptySeq, Zenon
<1>2. Stages
    BY DEF Init, Stages, Results
<1>3. Frames
    BY <1>1, StepMotorAssumption DEF Init, Frames
<1>4. Line
    BY <1>1, StepMotorAssumption DEF Init, Line
<1> QED
    BY <1>2, <1>3, <1>4 DEF LinkInv

\* A frame more: what was of one of the frames still is.
LEMMA OneMoreFrame ==
    ASSUME LinkInv, NEW code \in Codes, Len(sent) < MaxFrames,
           sent' = Append(sent, code)
    PROVE  /\ Len(sent) \in Nat /\ Len(sent') = Len(sent) + 1
           /\ sent' \in Seq(Codes) /\ Len(sent') <= MaxFrames
           /\ 1 .. Len(sent) \subseteq 1 .. Len(sent')
           /\ inbox \in Seq(1 .. Len(sent'))
           /\ \A s \in Seq(ByteOf(Len(sent))) : s \in Seq(ByteOf(Len(sent')))
<1>1. sent \in Seq(Codes) /\ inbox \in Seq(1 .. Len(sent))
    BY DEF LinkInv, Frames
<1>2. Len(sent) \in Nat
    BY <1>1, LenProperties
<1>3. sent' \in Seq(Codes) /\ Len(sent') = Len(sent) + 1
    BY <1>1, AppendProperties
<1> DEFINE n == Len(sent)
           m == Len(sent')
<1>4. n \in Nat /\ m = n + 1
    BY <1>2, <1>3
<1>5. m <= MaxFrames
    BY <1>4, StepMotorAssumption
<1>6. inbox \in Seq(1 .. n)
    BY <1>1
<1> HIDE DEF n, m
<1>7. 1 .. n \subseteq 1 .. m /\ m \in Nat /\ n <= m
    BY <1>4
<1>8. inbox \in Seq(1 .. m)
    BY <1>6, <1>7, SeqMonotonic
<1>9. \A s \in Seq(ByteOf(n)) : s \in Seq(ByteOf(m))
    BY <1>4, <1>7, MoreBytes
<1> QED
    BY <1>2, <1>3, <1>5, <1>7, <1>8, <1>9 DEF n, m

\* A reply of the motor to a frame it got.
LEMMA ReplyIsBytes ==
    ASSUME LinkInv, NEW frame \in 1 .. Len(sent), NEW body \in Bodies(sent[frame])
    PROVE  ReplyTo(frame, body) \in Seq(ByteOf(Len(sent)))
<1>1. sent[frame] \in Codes
    BY ElementOfSeq DEF LinkInv, Frames
<1> DEFINE n == ReplyLen[sent[frame]] - 3
<1>2. n \in 1 .. 5 /\ body \in [1 .. n -> 0 .. 255]
    BY <1>1, BodyTypes
<1> HIDE DEF n
<1>3. ReplyTo(frame, body) \in Seq(BytesOf({frame}))
    BY <1>1, <1>2, ReplyShape
<1> QED
    BY <1>3, SomeBytes DEF ByteOf

LEMMA ReportIsBytes ==
    ASSUME LinkInv, NEW frame \in 1 .. Len(sent)
    PROVE  ReplyTo(frame, <<159>>) \in Seq(ByteOf(Len(sent)))
<1>1. sent[frame] \in Codes
    BY ElementOfSeq DEF LinkInv, Frames
<1> DEFINE body == <<159>>
           n == 1
<1>2. body \in [1 .. n -> 0 .. 255] /\ n \in 1 .. 5
    OBVIOUS
<1> HIDE DEF body, n
<1>3. ReplyTo(frame, body) \in Seq(BytesOf({frame}))
    BY <1>1, <1>2, ReplyShape
<1>4. ReplyTo(frame, body) \in Seq(ByteOf(Len(sent)))
    BY <1>3, SomeBytes DEF ByteOf
<1> QED
    BY <1>4 DEF body

\* Only frames that were sent are answered.
LEMMA UnansweredAreFrames ==
    ASSUME LinkInv
    PROVE  Unanswered \subseteq 1 .. Len(sent)
<1>1. Len(sent) \in Nat
    BY LenProperties DEF LinkInv, Frames
<1>2. Owners(wire) \subseteq 1 .. Len(sent)
    BY <1>1, OwnersAreFrames DEF LinkInv, Line
<1>3. Range(inbox) \subseteq 1 .. Len(sent)
    <2>1. \A i \in DOMAIN inbox : inbox[i] \in 1 .. Len(sent)
        BY LenProperties, ElementOfSeq, Zenon DEF LinkInv, Frames
    <2> QED
        BY <2>1, Zenon DEF Range
<1>4. {moving} \ {0} \subseteq 1 .. Len(sent)
    BY <1>1 DEF LinkInv, Frames
<1> QED
    BY <1>2, <1>3, <1>4, Zenon DEF Unanswered

LEMMA LinkStep ==
    ASSUME LinkInv, [Next]_vars
    PROVE  LinkInv'
<1> USE DEF LinkInv
<1>0. Len(sent) \in Nat
    BY LenProperties DEF Frames
<1>1. ASSUME NEW code \in Codes, StartCall(code) PROVE LinkInv'
    <2>1. /\ pc = "idle" /\ Len(sent) < MaxFrames /\ sent' = Append(sent, code)
          /\ pc' = "sending" /\ got' = <<>> /\ fifo' = <<>> /\ result' = result
          /\ call' = Len(sent') /\ open' = Unanswered
          /\ inbox' = inbox /\ wire' = wire /\ moving' = moving /\ arrived' = arrived
        BY <1>1 DEF StartCall, motor
    <2>2. /\ Len(sent') = Len(sent) + 1
          /\ sent' \in Seq(Codes) /\ Len(sent') <= MaxFrames
          /\ 1 .. Len(sent) \subseteq 1 .. Len(sent')
          /\ inbox \in Seq(1 .. Len(sent'))
          /\ wire \in Seq(ByteOf(Len(sent')))
        BY <2>1, OneMoreFrame DEF Line
    <2>3. <<>> \in Seq(ByteOf(Len(sent'))) /\ Len(<<>>) = 0
        BY EmptySeq
    <2>4. Unanswered \subseteq 1 .. Len(sent)
        BY UnansweredAreFrames
    <2>5. Stages'
        BY <1>0, <2>1, <2>2 DEF Stages
    <2>6. Frames'
        <3>1. call' \in 0 .. Len(sent') /\ moving' \in 0 .. Len(sent')
            BY <1>0, <2>1, <2>2 DEF Frames
        <3>2. open' \subseteq 1 .. Len(sent') /\ arrived' \subseteq 1 .. Len(sent')
            BY <2>1, <2>2, <2>4, Zenon DEF Frames
        <3> QED
            BY <2>1, <2>2, <3>1, <3>2 DEF Frames
    <2>7. Line'
        BY <2>1, <2>2, <2>3, StepMotorAssumption DEF Line
    <2> QED
        BY <2>5, <2>6, <2>7
<1>2. ASSUME NEW code \in Actions, StartNoReply(code) PROVE LinkInv'
    <2>1. /\ pc = "idle" /\ Len(sent) < MaxFrames /\ sent' = Append(sent, code)
          /\ pc' = "writing" /\ got' = got /\ fifo' = fifo /\ result' = result
          /\ call' = call /\ open' = open
          /\ inbox' = inbox /\ wire' = wire /\ moving' = moving /\ arrived' = arrived
        BY <1>2 DEF StartNoReply, motor
    <2>2. code \in Codes
        BY DEF Codes
    <2>3. /\ Len(sent') = Len(sent) + 1
          /\ sent' \in Seq(Codes) /\ Len(sent') <= MaxFrames
          /\ 1 .. Len(sent) \subseteq 1 .. Len(sent')
          /\ inbox \in Seq(1 .. Len(sent'))
          /\ {wire, fifo, got} \subseteq Seq(ByteOf(Len(sent')))
        BY <2>1, <2>2, OneMoreFrame DEF Line
    <2>4. Stages'
        BY <1>0, <2>1, <2>3 DEF Stages
    <2>5. Frames'
        <3>1. call' \in 0 .. Len(sent') /\ moving' \in 0 .. Len(sent')
            BY <1>0, <2>1, <2>3 DEF Frames
        <3>2. open' \subseteq 1 .. Len(sent') /\ arrived' \subseteq 1 .. Len(sent')
            BY <2>1, <2>3, Zenon DEF Frames
        <3> QED
            BY <2>1, <2>3, <3>1, <3>2 DEF Frames
    <2>6. Line'
        BY <2>1, <2>3 DEF Line
    <2> QED
        BY <2>4, <2>5, <2>6
<1>3. CASE RejectCall \/ zdt_emm_clear_rx
    <2>1. <<>> \in Seq(ByteOf(Len(sent))) /\ Len(<<>>) = 0
        BY EmptySeq
    <2>2. /\ pc = "idle" /\ pc' = pc
          /\ \/ result' = "BAD_PARAM" /\ got' = <<>> /\ call' = 0
             \/ result' = result /\ got' = got /\ call' = call
          /\ fifo' \in {fifo, <<>>}
          /\ UNCHANGED <<inbox, wire, moving, arrived, sent, open>>
        BY <1>3 DEF RejectCall, zdt_emm_clear_rx, driver, motor
    <2>3. Stages'
        BY <2>2 DEF Stages, Results
    <2>4. Frames'
        BY <1>0, <2>2 DEF Frames
    <2>5. Line'
        <3> DEFINE none == <<>>
                   B == ByteOf(Len(sent))
        <3>1. none \in Seq(B) /\ Len(none) = 0 /\ FifoDepth \in Nat
            BY <2>1, StepMotorAssumption
        <3>2. fifo' \in {fifo, none} /\ got' \in {got, none} /\ sent' = sent /\ wire' = wire
            BY <2>2
        <3>3. /\ fifo \in Seq(B) /\ Len(fifo) <= FifoDepth
              /\ wire \in Seq(B) /\ got \in Seq(B) /\ Len(got) <= 8
            BY DEF Line
        <3>4. B' = B
            BY <3>2
        <3> HIDE DEF none, B
        <3>5. /\ fifo' \in Seq(B') /\ Len(fifo') <= FifoDepth
              /\ wire' \in Seq(B') /\ got' \in Seq(B') /\ Len(got') <= 8
            <4>1. 0 <= FifoDepth /\ 0 <= 8
                BY <3>1
            <4>2. Len(none) <= FifoDepth /\ Len(none) <= 8
                BY <3>1, <4>1, Zenon
            <4>3. fifo' \in Seq(B) /\ Len(fifo') <= FifoDepth
                BY <3>1, <3>2, <3>3, <4>2, Zenon
            <4>4. got' \in Seq(B) /\ Len(got') <= 8
                BY <3>1, <3>2, <3>3, <4>2, Zenon
            <4> QED
                BY <3>2, <3>3, <3>4, <4>3, <4>4, Zenon
        <3> QED
            BY <3>5 DEF Line, B
    <2> QED
        BY <2>3, <2>4, <2>5
<1>4. CASE zdt_emm_send_frame
    <2>1. /\ pc \in {"sending", "writing"}
          /\ pc' = IF pc = "sending" THEN "reading" ELSE "idle"
          /\ inbox' = Append(inbox, Len(sent))
          /\ UNCHANGED <<got, result, fifo, wire, moving, arrived, sent, call, open>>
        BY <1>4 DEF zdt_emm_send_frame
    <2>2. Len(sent) \in 1 .. Len(sent)
        BY <1>0, <2>1 DEF Stages, Frames
    <2>3. inbox' \in Seq(1 .. Len(sent))
        BY <2>1, <2>2, AppendProperties DEF Frames
    <2>4. pc = "sending" => Len(got) < ReplyLen[sent[call]]
        <3>1. SUFFICES ASSUME pc = "sending" PROVE Len(got) < ReplyLen[sent[call]]
            OBVIOUS
        <3>2. call \in 1 .. Len(sent)
            BY <1>0, <3>1 DEF Stages, Frames
        <3>3. sent[call] \in Codes
            BY <3>2, ElementOfSeq DEF Frames
        <3>4. ReplyLen[sent[call]] \in 4 .. 8
            BY <3>3, StepMotorAssumption
        <3>5. Len(got) = 0
            BY <3>1, EmptySeq DEF Stages
        <3> QED
            BY <3>4, <3>5
    <2>5. Stages'
        BY <2>1, <2>4 DEF Stages
    <2> QED
        BY <2>1, <2>3, <2>5 DEF Frames, Line
<1>5. CASE zdt_emm_read
    <2>1. /\ pc = "reading" /\ fifo # <<>>
          /\ got' = Append(got, Head(fifo)) /\ fifo' = Tail(fifo)
          /\ UNCHANGED <<inbox, wire, moving, arrived, sent, call, open>>
          /\ \/ Len(got') < ReplyLen[sent[call]] /\ pc' = pc /\ result' = result
             \/ pc' = "idle" /\ result' = Parsed(Values(got'), sent[call])
        BY <1>5, Zenon DEF zdt_emm_read, motor
    <2>2. /\ Head(fifo) \in ByteOf(Len(sent)) /\ Tail(fifo) \in Seq(ByteOf(Len(sent)))
          /\ Len(Tail(fifo)) = Len(fifo) - 1
        BY <2>1, HeadTailProperties DEF Line
    <2>3. got' \in Seq(ByteOf(Len(sent))) /\ Len(got') = Len(got) + 1
        BY <2>1, <2>2, AppendProperties DEF Line
    <2>4. /\ Len(fifo) \in Nat /\ Len(got) \in Nat
        BY LenProperties DEF Line
    <2>5. Len(got') <= 8
        <3>1. call \in 1 .. Len(sent) /\ Len(got) < ReplyLen[sent[call]]
            BY <1>0, <2>1 DEF Stages, Frames
        <3>2. sent[call] \in Codes
            BY <3>1, ElementOfSeq DEF Frames
        <3>3. ReplyLen[sent[call]] \in 4 .. 8
            BY <3>2, StepMotorAssumption
        <3> QED
            BY <2>3, <2>4, <3>1, <3>3
    <2>6. Len(fifo') <= FifoDepth
        BY <2>1, <2>2, <2>4, StepMotorAssumption DEF Line
    <2>7. Line'
        BY <2>1, <2>2, <2>3, <2>5, <2>6 DEF Line
    <2>8. Stages'
        <3>1. Parsed(Values(got'), sent[call]) \in Results
            BY ResultTypes, Zenon DEF Results
        <3> QED
            BY <2>1, <3>1 DEF Stages
    <2> QED
        BY <2>1, <2>7, <2>8 DEF Frames
<1>6. CASE Timeout
    BY <1>6 DEF Timeout, motor, Stages, Frames, Line, Results
<1>7. CASE Answer
    <2>1. PICK body \in Bodies(sent[Head(inbox)]) :
              /\ wire' = wire \o ReplyTo(Head(inbox), body)
              /\ moving' = IF sent[Head(inbox)] \in Moves /\ body[1] = 2
                              THEN Head(inbox) ELSE moving
        BY <1>7, Zenon DEF Answer
    <2>2. /\ inbox # <<>> /\ inbox' = Tail(inbox)
          /\ UNCHANGED <<pc, got, result, fifo, arrived, sent, call, open>>
        BY <1>7, Zenon DEF Answer, driver
    <2>3. Head(inbox) \in 1 .. Len(sent) /\ inbox' \in Seq(1 .. Len(sent))
        BY <2>2, HeadTailProperties DEF Frames
    <2>4. wire' \in Seq(ByteOf(Len(sent)))
        BY <2>1, <2>3, ReplyIsBytes, ConcatProperties DEF Line
    <2>5. moving' \in 0 .. Len(sent)
        BY <1>0, <2>1, <2>3 DEF Frames
    <2> QED
        BY <2>2, <2>3, <2>4, <2>5 DEF Stages, Frames, Line
<1>8. CASE Ignore
    <2>1. /\ inbox # <<>> /\ inbox' = Tail(inbox)
          /\ UNCHANGED <<pc, got, result, fifo, wire, moving, arrived, sent, call, open>>
        BY <1>8 DEF Ignore, driver
    <2>2. inbox' \in Seq(1 .. Len(sent))
        BY <2>1, HeadTailProperties DEF Frames
    <2> QED
        BY <2>1, <2>2 DEF Stages, Frames, Line
<1>9. CASE Arrive
    <2>1. /\ moving # 0 /\ moving' = 0 /\ arrived' = arrived \cup {moving}
          /\ wire' \in {wire, wire \o ReplyTo(moving, <<159>>)}
          /\ UNCHANGED <<pc, got, result, fifo, inbox, sent, call, open>>
        BY <1>9 DEF Arrive, driver
    <2>2. moving \in 1 .. Len(sent)
        BY <1>0, <2>1 DEF Frames
    <2>3. wire' \in Seq(ByteOf(Len(sent)))
        <3>1. ReplyTo(moving, <<159>>) \in Seq(ByteOf(Len(sent)))
            BY <2>2, ReportIsBytes
        <3>2. wire \o ReplyTo(moving, <<159>>) \in Seq(ByteOf(Len(sent)))
            BY <3>1, ConcatProperties DEF Line
        <3> QED
            BY <2>1, <3>2 DEF Line
    <2>4. arrived' \subseteq 1 .. Len(sent) /\ moving' \in 0 .. Len(sent)
        BY <1>0, <2>1, <2>2 DEF Frames
    <2> QED
        BY <2>1, <2>3, <2>4 DEF Stages, Frames, Line
<1>10. CASE Deliver
    <2>1. /\ wire # <<>> /\ wire' = Tail(wire)
          /\ fifo' = IF Len(fifo) < FifoDepth THEN Append(fifo, Head(wire)) ELSE fifo
          /\ UNCHANGED <<pc, got, result, inbox, moving, arrived, sent, call, open>>
        BY <1>10 DEF Deliver, driver
    <2>2. Head(wire) \in ByteOf(Len(sent)) /\ wire' \in Seq(ByteOf(Len(sent)))
        BY <2>1, HeadTailProperties DEF Line
    <2>3. /\ Append(fifo, Head(wire)) \in Seq(ByteOf(Len(sent)))
          /\ Len(Append(fifo, Head(wire))) = Len(fifo) + 1
          /\ Len(fifo) \in Nat
        BY <2>2, AppendProperties, LenProperties DEF Line
    <2>4. fifo' \in Seq(ByteOf(Len(sent))) /\ Len(fifo') <= FifoDepth
        BY <2>1, <2>3, StepMotorAssumption DEF Line
    <2> QED
        BY <2>1, <2>2, <2>4 DEF Stages, Frames, Line
<1>11. CASE UNCHANGED vars
    BY <1>11 DEF vars, driver, motor, Stages, Frames, Line
<1> QED
    BY <1>1, <1>2, <1>3, <1>4, <1>5, <1>6, <1>7, <1>8, <1>9, <1>10, <1>11
    DEF Next, Call, ActionCall, ReadCall, NoReplyCall, Progress, Codes

\* Type correctness of the link: no reply is read past its length, and no frame is
\* answered that was not sent.
THEOREM LinkTypes == Spec => []TypeOK
<1>1. LinkInv => TypeOK
    <2> SUFFICES ASSUME LinkInv PROVE TypeOK
        OBVIOUS
    <2>1. Len(sent) \in Nat /\ Len(sent) <= MaxFrames /\ MaxFrames \in Nat
        BY LenProperties, StepMotorAssumption DEF LinkInv, Frames
    <2>2. \A s \in Seq(ByteOf(Len(sent))) : s \in Seq(ByteOf(MaxFrames))
        BY <2>1, MoreBytes
    <2>3. {fifo, wire, got} \subseteq Seq(Bytes)
        BY <2>2 DEF LinkInv, Line, ByteOf, BytesOf, Bytes
    <2> QED
        BY <2>3 DEF LinkInv, Stages, Frames, Line, TypeOK, Results
<1>2. LinkInv /\ [Next]_vars => LinkInv'
    BY LinkStep
<1> QED
    BY <1>1, <1>2, LinkInitInv, PTL DEF Spec

--------------------------------------------------------------------------------
\* A call that begins on a quiet line.

\* What has come for the call, and is on its way.
Stream == got \o (fifo \o wire)

\* s begins with a reply to a frame of this function code.
HasReply(s, frame, code) ==
    /\ ReplyLen[code] <= Len(s)
    /\ \A i \in 1 .. ReplyLen[code] : s[i].of = frame
    /\ s[1].value = Addr /\ s[2].value = code /\ s[ReplyLen[code]].value = Check
    /\ code \in Actions => s[3].value \in StatusBytes
    /\ code \in Signed => s[3].value \in {0, 1}

NothingYet ==
    /\ got = <<>> /\ fifo = <<>> /\ wire = <<>> /\ moving = 0
    /\ inbox \in {<<>>, <<call>>}

OwnAnswer ==
    /\ inbox = <<>>
    /\ moving \in {0, call}
    /\ HasReply(Stream, call, sent[call])

QuietInv ==
    open = {} /\ call # 0 =>
        /\ pc = "sending" => fifo = <<>> /\ wire = <<>> /\ inbox = <<>> /\ moving = 0
        /\ pc = "reading" => NothingYet \/ OwnAnswer
        /\ pc \in {"idle", "writing"} /\ result # "TIMEOUT" =>
               Owners(got) = {call} /\ result # "BAD_FRAME"

LEMMA HeadThenTail ==
    ASSUME NEW S, NEW t \in Seq(S), t # <<>>
    PROVE  <<Head(t)>> \o Tail(t) = t
<1> DEFINE h == <<Head(t)>>
           r == Tail(t)
<1>1. /\ Head(t) \in S /\ r \in Seq(S) /\ Len(r) = Len(t) - 1
      /\ \A i \in 1 .. Len(r) : r[i] = t[i + 1]
    BY HeadTailProperties
<1>2. h \in Seq(S) /\ Len(h) = 1 /\ h[1] = t[1]
    BY <1>1
<1>3. Len(t) \in Nat \ {0}
    BY EmptySeq
<1> DEFINE u == h \o r
<1> HIDE DEF h, r
<1>4. /\ u \in Seq(S) /\ Len(u) = Len(h) + Len(r)
      /\ \A i \in 1 .. Len(h) + Len(r) : u[i] = IF i <= Len(h) THEN h[i] ELSE r[i - Len(h)]
    <2>1. h \in Seq(S) /\ r \in Seq(S)
        BY <1>1, <1>2
    <2> QED
        BY <2>1, ConcatProperties
<1> HIDE DEF u
<1>5. Len(u) = Len(t)
    BY <1>1, <1>2, <1>3, <1>4
<1>6. ASSUME NEW i \in 1 .. Len(t) PROVE u[i] = t[i]
    <2>0. i = 1 \/ i > 1
        BY <1>3
    <2>1. CASE i = 1
        BY <1>1, <1>2, <1>3, <1>4, <2>1
    <2>2. CASE i > 1
        <3> DEFINE j == i - 1
        <3>1. j \in 1 .. Len(r) /\ j + 1 = i
            BY <1>1, <1>3, <2>2
        <3>2. u[i] = r[j]
            BY <1>1, <1>2, <1>3, <1>4, <2>2
        <3> HIDE DEF j
        <3>3. r[j] = t[j + 1]
            BY <1>1, <3>1
        <3> QED
            BY <3>1, <3>2, <3>3
    <2> QED
        BY <2>0, <2>1, <2>2
<1>7. h \o r = t
    <2>1. \A i \in 1 .. Len(u) : u[i] = t[i]
        BY <1>5, <1>6
    <2>2. u = t
        BY <1>4, <1>5, <2>1, SeqEqual
    <2> QED
        BY <2>2 DEF u
<1> QED
    BY <1>7 DEF h, r

\* A byte that goes from one end to the other leaves the whole as it was.
LEMMA MovedByte ==
    ASSUME NEW S, NEW s \in Seq(S), NEW t \in Seq(S), t # <<>>
    PROVE  Append(s, Head(t)) \o Tail(t) = s \o t
<1> DEFINE e == Head(t)
           h == <<e>>
           r == Tail(t)
<1>1. e \in S /\ r \in Seq(S)
    BY HeadTailProperties
<1>2. Append(s, e) = s \o h
    BY <1>1, AppendIsConcat
<1>3. h \in Seq(S)
    BY <1>1
<1>4. h \o r = t
    BY HeadThenTail
<1> HIDE DEF h, r, e
<1>5. (s \o h) \o r = s \o (h \o r)
    BY <1>1, <1>3, ConcatAssociative
<1>6. Append(s, e) \o r = s \o t
    BY <1>2, <1>4, <1>5, Zenon
<1> QED
    BY <1>6 DEF r, e

LEMMA CodeLength ==
    ASSUME NEW code \in Codes
    PROVE  /\ ReplyLen[code] \in 4 .. 8
           /\ code \in Actions => ReplyLen[code] = 4
BY StepMotorAssumption

\* More bytes leave a reply that is there.
LEMMA ReplyStays ==
    ASSUME NEW S, NEW s \in Seq(S), NEW t \in Seq(S), NEW frame, NEW code \in Codes,
           HasReply(s, frame, code)
    PROVE  HasReply(s \o t, frame, code)
<1> DEFINE n == ReplyLen[code]
           u == s \o t
<1>1. n \in 4 .. 8 /\ n <= Len(s) /\ Len(s) \in Nat /\ Len(t) \in Nat
    BY CodeLength, LenProperties DEF HasReply
<1>2. /\ u \in Seq(S) /\ Len(u) = Len(s) + Len(t)
      /\ \A i \in 1 .. Len(s) + Len(t) : u[i] = IF i <= Len(s) THEN s[i] ELSE t[i - Len(s)]
    BY ConcatProperties
<1> HIDE DEF n, u
<1>3. \A i \in 1 .. n : u[i] = s[i]
    BY <1>1, <1>2
<1>4. n <= Len(u)
    BY <1>1, <1>2
<1>5. 1 \in 1 .. n /\ 2 \in 1 .. n /\ 3 \in 1 .. n /\ n \in 1 .. n
    BY <1>1
<1>6. u[1] = s[1] /\ u[2] = s[2] /\ u[3] = s[3] /\ u[n] = s[n]
    BY <1>3, <1>5
<1>7. HasReply(u, frame, code)
    BY <1>3, <1>4, <1>6, Zenon DEF HasReply, n
<1> QED
    BY <1>7 DEF u

\* What the motor answers is a reply.
LEMMA AnswerIsReply ==
    ASSUME LinkInv, NEW frame \in 1 .. Len(sent), NEW body \in Bodies(sent[frame])
    PROVE  HasReply(ReplyTo(frame, body), frame, sent[frame])
<1>1. sent[frame] \in Codes
    BY ElementOfSeq DEF LinkInv, Frames
<1> DEFINE n == ReplyLen[sent[frame]] - 3
<1>2. n \in 1 .. 5 /\ body \in [1 .. n -> 0 .. 255]
    BY <1>1, BodyTypes
<1>3. /\ ReplyLen[sent[frame]] = n + 3
      /\ sent[frame] \in Actions => body[1] \in StatusBytes
      /\ sent[frame] \in Signed => body[1] \in {0, 1}
    BY <1>1, BodyTypes
<1> DEFINE r == ReplyTo(frame, body)
<1> HIDE DEF n
<1>4. /\ Len(r) = n + 3
      /\ \A i \in 1 .. n + 3 : r[i].of = frame
      /\ r[1].value = Addr
      /\ r[2].value = sent[frame]
      /\ r[3].value = body[1]
      /\ r[n + 3].value = Check
    <2>1. Shaped(r, frame, sent[frame], n, body)
        BY <1>1, <1>2, ReplyShape
    <2> QED
        BY <2>1, Zenon DEF Shaped
<1> HIDE DEF r
<1>5. n + 3 <= Len(r)
    BY <1>2, <1>4
<1>6. HasReply(r, frame, sent[frame])
    BY <1>3, <1>4, <1>5, Zenon DEF HasReply
<1> QED
    BY <1>6 DEF r

\* A reply read from its first byte to its last belongs to its frame and has the
\* form of one.
LEMMA ReplyParses ==
    ASSUME NEW S, NEW g \in Seq(S), NEW s, NEW frame, NEW code \in Codes,
           HasReply(s, frame, code), Len(g) = ReplyLen[code],
           \A i \in 1 .. Len(g) : g[i] = s[i]
    PROVE  Owners(g) = {frame} /\ Parsed(Values(g), code) # "BAD_FRAME"
<1> DEFINE n == ReplyLen[code]
<1>1. n \in 4 .. 8 /\ (code \in Actions => n = 4)
    BY CodeLength
<1>2. 1 \in 1 .. n /\ 2 \in 1 .. n /\ 3 \in 1 .. n /\ n \in 1 .. n
    BY <1>1
<1>3. DOMAIN g = 1 .. n
    BY LenProperties
<1> HIDE DEF n
<1>4. \A i \in DOMAIN g : g[i].of = frame
    BY <1>3 DEF HasReply, n
<1>5. Owners(g) = {frame}
    BY <1>2, <1>3, <1>4, Zenon DEF Owners
<1> DEFINE v == Values(g)
<1>6. /\ \A i \in 1 .. n : v[i] = g[i].value
      /\ v \in [1 .. n -> {g[i].value : i \in 1 .. n}]
    BY <1>3, Zenon DEF Values
<1>7. Len(v) = n
    <2> DEFINE T == {g[i].value : i \in 1 .. n}
    <2>1. n \in Nat /\ v \in [1 .. n -> T]
        BY <1>1, <1>6
    <2> HIDE DEF v, T
    <2> QED
        BY <2>1, FunctionIsSeq
<1>8. v[1] = s[1].value /\ v[2] = s[2].value /\ v[3] = s[3].value /\ v[n] = s[n].value
    BY <1>2, <1>6 DEF n
<1> HIDE DEF v
<1>9. /\ v[1] = Addr /\ v[2] = code /\ v[n] = Check
      /\ code \in Actions => v[3] \in StatusBytes
      /\ code \in Signed => v[3] \in {0, 1}
    BY <1>8 DEF HasReply, n
<1>10. CASE code \in Actions
    <2>1. v[4] = Check /\ v[3] \in {2, 18, 34, 226, 238}
        BY <1>1, <1>9, <1>10, StepMotorAssumption
    <2>2. zdt_emm_status_to_result(v[3]) # "BAD_FRAME"
        BY <2>1 DEF zdt_emm_status_to_result
    <2>3. Parsed(v, code) = zdt_emm_status_to_result(v[3])
        BY <1>9, <1>10, <2>1 DEF Parsed, zdt_emm_wait_reply
    <2> QED
        BY <1>5, <2>2, <2>3 DEF v
<1>11. CASE code \notin Actions
    <2>1. ~(code \in Signed /\ v[3] > 1)
        BY <1>9
    <2>2. Parsed(v, code) = "OK"
        BY <1>7, <1>9, <1>11, <2>1 DEF Parsed, zdt_emm_read_request
    <2> QED
        BY <1>5, <2>2 DEF v
<1> QED
    BY <1>10, <1>11

LEMMA QuietLine ==
    ASSUME LinkInv, Unanswered = {}
    PROVE  wire = <<>> /\ inbox = <<>> /\ moving = 0
<1>1. Owners(wire) = {} /\ Range(inbox) = {} /\ {moving} \ {0} = {}
    BY Zenon DEF Unanswered
<1>2. wire = <<>>
    <2>1. SUFFICES ASSUME wire # <<>> PROVE FALSE
        OBVIOUS
    <2>2. Len(wire) \in Nat \ {0} /\ DOMAIN wire = 1 .. Len(wire)
        BY <2>1, EmptySeq, LenProperties DEF LinkInv, Line
    <2>3. 1 \in DOMAIN wire
        BY <2>2
    <2> QED
        BY <1>1, <2>3, Zenon DEF Owners
<1>3. inbox = <<>>
    <2>1. SUFFICES ASSUME inbox # <<>> PROVE FALSE
        OBVIOUS
    <2>2. Len(inbox) \in Nat \ {0} /\ DOMAIN inbox = 1 .. Len(inbox)
        BY <2>1, EmptySeq, LenProperties DEF LinkInv, Frames
    <2>3. 1 \in DOMAIN inbox
        BY <2>2
    <2> QED
        BY <1>1, <2>3, Zenon DEF Range
<1> QED
    BY <1>1, <1>2, <1>3

\* A byte read leaves what has come, and is on its way, as it was.
LEMMA ReadKeepsStream ==
    ASSUME NEW S, NEW a \in Seq(S), NEW b \in Seq(S), NEW c \in Seq(S), b # <<>>
    PROVE  Append(a, Head(b)) \o (Tail(b) \o c) = a \o (b \o c)
<1> DEFINE x == Append(a, Head(b))
           y == Tail(b)
<1>1. x \in Seq(S) /\ y \in Seq(S)
    BY HeadTailProperties, AppendProperties
<1>2. x \o y = a \o b
    BY MovedByte
<1> HIDE DEF x, y
<1>3. x \o (y \o c) = (x \o y) \o c
    BY <1>1, ConcatAssociative
<1>4. (a \o b) \o c = a \o (b \o c)
    BY ConcatAssociative
<1>5. x \o (y \o c) = a \o (b \o c)
    BY <1>2, <1>3, <1>4, Zenon
<1> QED
    BY <1>5 DEF x, y

LEMMA MoreKeepsPrefix ==
    ASSUME NEW S, NEW a \in Seq(S), NEW b \in Seq(S), NEW c \in Seq(S), NEW d \in Seq(S)
    PROVE  a \o (b \o (c \o d)) = (a \o (b \o c)) \o d
<1>1. b \o (c \o d) = (b \o c) \o d
    BY ConcatAssociative
<1> DEFINE x == b \o c
<1>2. x \in Seq(S)
    BY ConcatProperties
<1> HIDE DEF x
<1>3. (a \o x) \o d = a \o (x \o d)
    BY <1>2, ConcatAssociative
<1> QED
    BY <1>1, <1>3, Zenon DEF x

LEMMA QuietStep ==
    ASSUME LinkInv, QuietInv, [Next]_vars
    PROVE  QuietInv'
<1> SUFFICES ASSUME open' = {}, call' # 0 PROVE QuietInv'
    BY DEF QuietInv
<1> DEFINE S == ByteOf(Len(sent))
<1>0. /\ got \in Seq(S) /\ fifo \in Seq(S) /\ wire \in Seq(S)
      /\ inbox \in Seq(1 .. Len(sent)) /\ Len(sent) \in Nat
      /\ pc = "reading" \/ pc = "sending" => call \in 1 .. Len(sent) /\ sent[call] \in Codes
    <2>1. Len(sent) \in Nat
        BY LenProperties DEF LinkInv, Frames
    <2>2. ASSUME call # 0 PROVE call \in 1 .. Len(sent) /\ sent[call] \in Codes
        <3>1. call \in 1 .. Len(sent)
            BY <2>1, <2>2 DEF LinkInv, Frames
        <3> QED
            BY <3>1, ElementOfSeq DEF LinkInv, Frames
    <2> QED
        BY <2>1, <2>2 DEF LinkInv, Stages, Frames, Line
<1>1. ASSUME NEW code \in Codes, StartCall(code) PROVE QuietInv'
    <2>1. /\ pc' = "sending" /\ fifo' = <<>> /\ call' = Len(sent')
          /\ open' = Unanswered /\ inbox' = inbox /\ wire' = wire /\ moving' = moving
        BY <1>1 DEF StartCall, motor
    <2>2. wire = <<>> /\ inbox = <<>> /\ moving = 0
        BY <2>1, QuietLine
    <2> QED
        BY <2>1, <2>2 DEF QuietInv
<1>2. ASSUME NEW code \in Actions, StartNoReply(code) PROVE QuietInv'
    <2>1. pc = "idle" /\ pc' = "writing" /\ UNCHANGED <<got, result, call, open>>
        BY <1>2 DEF StartNoReply
    <2> QED
        BY <2>1 DEF QuietInv, Owners
<1>3. CASE RejectCall
    BY <1>3 DEF RejectCall
<1>4. CASE zdt_emm_clear_rx
    <2>1. pc = "idle" /\ pc' = pc /\ UNCHANGED <<got, result, call, open>>
        BY <1>4 DEF zdt_emm_clear_rx, driver
    <2> QED
        BY <2>1 DEF QuietInv, Owners
<1>5. CASE zdt_emm_send_frame
    <2>1. /\ UNCHANGED <<got, result, fifo, wire, moving, call, open>>
          /\ inbox' = Append(inbox, Len(sent))
          /\ \/ pc = "sending" /\ pc' = "reading"
             \/ pc = "writing" /\ pc' = "idle"
        BY <1>5 DEF zdt_emm_send_frame
    <2>2. CASE pc = "sending"
        <3>1. /\ fifo = <<>> /\ wire = <<>> /\ inbox = <<>> /\ moving = 0 /\ got = <<>>
              /\ call = Len(sent)
            BY <2>1, <2>2 DEF QuietInv, LinkInv, Stages
        <3>2. inbox' = <<call>>
            BY <2>1, <3>1
        <3>3. NothingYet'
            BY <2>1, <3>1, <3>2 DEF NothingYet
        <3> QED
            BY <2>1, <2>2, <3>3 DEF QuietInv
    <2>3. CASE pc = "writing"
        BY <2>1, <2>3 DEF QuietInv, Owners
    <2> QED
        BY <2>1, <2>2, <2>3
<1>6. CASE zdt_emm_read
    <2>1. /\ pc = "reading" /\ fifo # <<>>
          /\ got' = Append(got, Head(fifo)) /\ fifo' = Tail(fifo)
          /\ UNCHANGED <<inbox, wire, moving, sent, call, open>>
        BY <1>6, Zenon DEF zdt_emm_read, motor
    <2>2. OwnAnswer
        BY <2>1 DEF QuietInv, NothingYet
    <2>3. Stream' = Stream
        <3>1. Append(got, Head(fifo)) \o (Tail(fifo) \o wire) = got \o (fifo \o wire)
            <4>1. got \in Seq(S) /\ fifo \in Seq(S) /\ wire \in Seq(S) /\ fifo # <<>>
                BY <1>0, <2>1
            <4> HIDE DEF S
            <4> QED
                BY <4>1, ReadKeepsStream
        <3> QED
            BY <2>1, <3>1, Zenon DEF Stream
    <2>4. got' \in Seq(S) /\ Len(got') = Len(got) + 1 /\ fifo' \in Seq(S) /\ wire' \in Seq(S)
        BY <1>0, <2>1, HeadTailProperties, AppendProperties
    <2>5. CASE Len(got') < ReplyLen[sent[call]]
        <3>1. pc' = "reading"
            BY <1>6, <2>1, <2>5, Zenon DEF zdt_emm_read
        <3>2. OwnAnswer'
            BY <2>1, <2>2, <2>3, Zenon DEF OwnAnswer
        <3> QED
            BY <3>1, <3>2 DEF QuietInv
    <2>6. CASE ~(Len(got') < ReplyLen[sent[call]])
        <3>1. pc' = "idle" /\ result' = Parsed(Values(got'), sent[call])
            BY <1>6, <2>6, Zenon DEF zdt_emm_read
        <3>2. Len(got) < ReplyLen[sent[call]]
            BY <2>1 DEF LinkInv, Stages
        <3>3. Len(got) \in Nat /\ ReplyLen[sent[call]] \in Nat
            <4>1. ReplyLen[sent[call]] \in 4 .. 8
                BY <1>0, <2>1, CodeLength
            <4>2. Len(got) \in Nat
                BY <1>0, LenProperties
            <4> QED
                BY <4>1, <4>2
        <3>4. Len(got') = ReplyLen[sent[call]]
            BY <2>4, <2>6, <3>2, <3>3
        <3> DEFINE z == fifo' \o wire'
        <3>5. z \in Seq(S)
            BY <2>4, ConcatProperties
        <3>6. Stream = got' \o z
            BY <2>3 DEF Stream
        <3> HIDE DEF z
        <3>7. Len(got') \in Nat /\ Len(z) \in Nat
            BY <2>4, <3>5, LenProperties
        <3>8. \A i \in 1 .. Len(got') : got'[i] = Stream[i]
            <4>1. \A i \in 1 .. Len(got') + Len(z) :
                      (got' \o z)[i] = IF i <= Len(got') THEN got'[i] ELSE z[i - Len(got')]
                BY <2>4, <3>5, ConcatProperties
            <4> DEFINE st == got' \o z
            <4>2. \A i \in 1 .. Len(got') + Len(z) :
                      st[i] = IF i <= Len(got') THEN got'[i] ELSE z[i - Len(got')]
                BY <4>1
            <4>3. Stream = st
                BY <3>6
            <4> HIDE DEF st
            <4> QED
                BY <3>7, <4>2, <4>3
        <3>9. HasReply(Stream, call, sent[call])
            BY <2>2 DEF OwnAnswer
        <3>10. sent[call] \in Codes
            BY <1>0, <2>1
        <3>11. Owners(got') = {call} /\ Parsed(Values(got'), sent[call]) # "BAD_FRAME"
            BY <2>4, <3>4, <3>8, <3>9, <3>10, ReplyParses
        <3> QED
            BY <2>1, <3>1, <3>11 DEF QuietInv, Owners
    <2> QED
        BY <2>5, <2>6
<1>7. CASE Timeout
    BY <1>7 DEF Timeout, QuietInv
<1>8. CASE Answer
    <2>1. PICK body \in Bodies(sent[Head(inbox)]) :
              /\ wire' = wire \o ReplyTo(Head(inbox), body)
              /\ moving' = IF sent[Head(inbox)] \in Moves /\ body[1] = 2
                              THEN Head(inbox) ELSE moving
        BY <1>8, Zenon DEF Answer
    <2>2. /\ inbox # <<>> /\ inbox' = Tail(inbox)
          /\ UNCHANGED <<pc, got, result, fifo, sent, call, open>>
        BY <1>8, Zenon DEF Answer, driver
    <2>3. pc # "sending"
        BY <2>2 DEF QuietInv
    <2>4. CASE pc = "reading"
        <3>1. NothingYet /\ inbox = <<call>>
            BY <2>2, <2>4 DEF QuietInv, NothingYet, OwnAnswer
        <3>2. Head(inbox) = call /\ Tail(inbox) = <<>>
            BY <3>1
        <3> DEFINE r == ReplyTo(call, body)
        <3>3. body \in Bodies(sent[call]) /\ call \in 1 .. Len(sent)
            BY <1>0, <2>4, <3>2
        <3>4. r \in Seq(S) /\ HasReply(r, call, sent[call])
            BY <3>3, ReplyIsBytes, AnswerIsReply
        <3>5. wire' = wire \o r /\ got' = <<>> /\ fifo' = <<>> /\ wire = <<>>
            BY <2>1, <2>2, <3>1, <3>2 DEF NothingYet
        <3> HIDE DEF r
        <3>6. <<>> \o r = r
            BY <3>4, ConcatEmptySeq
        <3>7. Stream' = r
            BY <3>5, <3>6, Zenon DEF Stream
        <3>8. inbox' = <<>> /\ moving' \in {0, call}
            BY <2>1, <2>2, <3>1, <3>2 DEF NothingYet
        <3>9. OwnAnswer'
            BY <2>2, <3>4, <3>7, <3>8, Zenon DEF OwnAnswer
        <3> QED
            BY <2>2, <2>4, <3>9 DEF QuietInv
    <2>5. CASE pc # "reading"
        BY <2>2, <2>3, <2>5 DEF QuietInv, Owners
    <2> QED
        BY <2>4, <2>5
<1>9. CASE Ignore
    <2>1. /\ inbox # <<>> /\ inbox' = Tail(inbox)
          /\ UNCHANGED <<pc, got, result, fifo, wire, moving, sent, call, open>>
        BY <1>9 DEF Ignore, driver
    <2>2. pc # "sending"
        BY <2>1 DEF QuietInv
    <2>3. CASE pc = "reading"
        <3>1. NothingYet /\ inbox = <<call>>
            BY <2>1, <2>3 DEF QuietInv, NothingYet, OwnAnswer
        <3>2. inbox' = <<>>
            BY <2>1, <3>1
        <3>3. NothingYet'
            BY <2>1, <3>1, <3>2 DEF NothingYet
        <3> QED
            BY <2>1, <2>3, <3>3 DEF QuietInv
    <2>4. CASE pc # "reading"
        BY <2>1, <2>2, <2>4 DEF QuietInv, Owners
    <2> QED
        BY <2>3, <2>4
<1>10. CASE Arrive
    <2>1. /\ moving # 0 /\ moving' = 0
          /\ wire' \in {wire, wire \o ReplyTo(moving, <<159>>)}
          /\ UNCHANGED <<pc, got, result, fifo, inbox, sent, call, open>>
        BY <1>10 DEF Arrive, driver
    <2>2. pc # "sending"
        BY <2>1 DEF QuietInv
    <2>3. CASE pc = "reading"
        <3>1. OwnAnswer /\ moving = call
            BY <2>1, <2>3 DEF QuietInv, NothingYet, OwnAnswer
        <3> DEFINE r == ReplyTo(call, <<159>>)
        <3>2. call \in 1 .. Len(sent) /\ sent[call] \in Codes
            BY <1>0, <2>3
        <3>3. r \in Seq(S)
            BY <3>2, ReportIsBytes
        <3>4. wire' \in {wire, wire \o r}
            BY <2>1, <3>1
        <3> HIDE DEF r
        <3>5. Stream \in Seq(S)
            BY <1>0, ConcatProperties DEF Stream
        <3>6. HasReply(Stream \o r, call, sent[call]) /\ HasReply(Stream, call, sent[call])
            BY <3>1, <3>2, <3>3, <3>5, ReplyStays DEF OwnAnswer
        <3>7. got \o (fifo \o (wire \o r)) = Stream \o r
            <4>1. got \o (fifo \o (wire \o r)) = (got \o (fifo \o wire)) \o r
                <5>1. got \in Seq(S) /\ fifo \in Seq(S) /\ wire \in Seq(S) /\ r \in Seq(S)
                    BY <1>0, <3>3
                <5> HIDE DEF S
                <5> QED
                    BY <5>1, MoreKeepsPrefix
            <4> QED
                BY <4>1, Zenon DEF Stream
        <3>8. Stream' \in {Stream, Stream \o r}
            BY <2>1, <3>4, <3>7, Zenon DEF Stream
        <3>9. OwnAnswer'
            BY <2>1, <3>1, <3>6, <3>8, Zenon DEF OwnAnswer
        <3> QED
            BY <2>1, <2>3, <3>9 DEF QuietInv
    <2>4. CASE pc # "reading"
        BY <2>1, <2>2, <2>4 DEF QuietInv, Owners
    <2> QED
        BY <2>3, <2>4
<1>11. CASE Deliver
    <2>1. /\ wire # <<>> /\ wire' = Tail(wire)
          /\ pc = "reading" => fifo' = Append(fifo, Head(wire))
          /\ UNCHANGED <<pc, got, result, inbox, moving, sent, call, open>>
        BY <1>11 DEF Deliver, driver
    <2>2. pc # "sending"
        BY <2>1 DEF QuietInv
    <2>3. CASE pc = "reading"
        <3>1. OwnAnswer
            BY <2>1, <2>3 DEF QuietInv, NothingYet
        <3>2. Append(fifo, Head(wire)) \o Tail(wire) = fifo \o wire
            BY <1>0, <2>1, MovedByte
        <3>3. Stream' = Stream
            BY <2>1, <2>3, <3>2, Zenon DEF Stream
        <3>4. OwnAnswer'
            BY <2>1, <3>1, <3>3, Zenon DEF OwnAnswer
        <3> QED
            BY <2>1, <2>3, <3>4 DEF QuietInv
    <2>4. CASE pc # "reading"
        BY <2>1, <2>2, <2>4 DEF QuietInv, Owners
    <2> QED
        BY <2>3, <2>4
<1>12. CASE UNCHANGED vars
    <2>1. UNCHANGED <<pc, got, result, fifo, inbox, wire, moving, sent, call, open>>
        BY <1>12 DEF vars, driver, motor
    <2> QED
        BY <2>1 DEF QuietInv, NothingYet, OwnAnswer, Stream, Owners
<1> QED
    BY <1>1, <1>2, <1>3, <1>4, <1>5, <1>6, <1>7, <1>8, <1>9, <1>10, <1>11, <1>12
    DEF Next, Call, ActionCall, ReadCall, NoReplyCall, Progress, Codes

\* A call that begins while no frame is unanswered (zdt_emm_clear_rx empties the
\* register) reads its own answer whole, or times out: its result comes from it.
THEOREM QuietCallAlwaysAnswered == Spec => []QuietCallIsAnswered
<1>1. Init => LinkInv /\ QuietInv
    BY LinkInitInv DEF Init, QuietInv
<1>2. LinkInv /\ QuietInv /\ [Next]_vars => LinkInv' /\ QuietInv'
    BY LinkStep, QuietStep
<1>3. QuietInv => QuietCallIsAnswered
    BY DEF QuietInv, QuietCallIsAnswered, Returned
<1> QED
    BY <1>1, <1>2, <1>3, PTL DEF Spec

--------------------------------------------------------------------------------
\* Whose answer a call takes.

\* A function code that is no byte of a value.
CodeByte(b, codes) == b.value \in Codes /\ ~(b.at > 2 /\ codes[b.of] \in Reads)

\* From this place on, a function code in s, unless it belongs to a value, is the
\* one of the frame it answers, and the rest of the reply follows it.
Whole(s, from, codes) ==
    \A i \in 1 .. Len(s) : i >= from /\ CodeByte(s[i], codes) =>
        /\ s[i].at = 2
        /\ i + ReplyLen[s[i].value] - 2 <= Len(s)
        /\ codes[s[i].of] = s[i].value
        /\ \A j \in i .. i + ReplyLen[s[i].value] - 2 : s[j].of = s[i].of

\* Bytes of this frame's answers stand in s no earlier than in their reply.
Ahead(s, frame) == \A i \in 1 .. Len(s) : s[i].of = frame => s[i].at <= i

Asked == open \cup {call}

\* What the motor has been asked by the time the call's frame is out.
Concerned == IF pc = "sending" THEN open ELSE Asked

Accepted ==
    /\ got[2].of \in Asked /\ got[2].of \in 1 .. Len(sent)
    /\ IF got[2].at = 2
       THEN /\ sent[got[2].of] = sent[call]
            /\ Owners(SubSeq(got, 2, Len(got))) = {got[2].of}
       ELSE got[2].of \in open /\ sent[got[2].of] \in Reads

WireWhole == Whole(wire, 1, sent)

MovesAct == moving # 0 => sent[moving] \in Actions

OpenBefore == call # 0 => open \subseteq 1 .. call - 1

\* During a call all bytes are, and will be, about it or the open frames.
CallAlone ==
    pc \in {"sending", "reading"} =>
        /\ fifo \in Seq(BytesOf(Concerned))
        /\ wire \in Seq(BytesOf(Concerned))
        /\ got \in Seq(BytesOf(Concerned))
        /\ inbox \in Seq(Concerned)
        /\ moving \in Concerned \cup {0}

\* The call sees its own answer from the first byte on.
OwnFromStart == pc = "reading" => Ahead(Stream, call)

\* The first byte may be the end of a reply whose rest was lost.
StreamWhole == pc = "reading" => Whole(Stream, 2, sent)

TakenIsAccepted ==
    /\ pc \in {"idle", "writing"} /\ call # 0
    /\ result \notin {"none", "TIMEOUT", "BAD_FRAME"}
    => Accepted

SameInv ==
    /\ WireWhole /\ MovesAct /\ OpenBefore /\ CallAlone
    /\ OwnFromStart /\ StreamWhole /\ TakenIsAccepted

LEMMA ReplyIsWhole ==
    ASSUME NEW r, NEW frame, NEW code \in Codes, NEW codes, codes[frame] = code,
           NEW body, code \in Reads \/ Range(body) \subseteq StatusBytes \cup {159},
           Shaped(r, frame, code, ReplyLen[code] - 3, body)
    PROVE  Whole(r, 1, codes)
<1> DEFINE n == ReplyLen[code]
<1>1. n \in 4 .. 8
    BY CodeLength
<1>2. n = ReplyLen[code] - 3 + 3
    BY <1>1
<1> HIDE DEF n
<1>3. /\ Len(r) = n
      /\ \A i \in 1 .. n : r[i].of = frame
      /\ \A i \in 1 .. n : r[i].at = i
      /\ r[1].value = Addr
      /\ r[2].value = code
      /\ \A i \in 1 .. n : i # 2 => r[i].value \in {Addr, Check} \cup Range(body)
    BY <1>2, Zenon DEF Shaped
<1>4. ASSUME NEW i \in 1 .. n, i # 2 PROVE ~CodeByte(r[i], codes)
    <2>1. CASE i = 1
        BY <1>3, <2>1, CodeAssumption DEF CodeByte
    <2>2. CASE i # 1 /\ code \in Reads
        <3>1. r[i].at > 2 /\ codes[r[i].of] \in Reads
            BY <1>1, <1>3, <1>4, <2>2
        <3> QED
            BY <3>1 DEF CodeByte
    <2>3. CASE Range(body) \subseteq StatusBytes \cup {159}
        <3> DEFINE R == {Addr, Check} \cup Range(body)
        <3>1. \A v \in R : v \notin Codes
            BY <2>3, CodeAssumption
        <3>2. r[i].value \in R
            BY <1>3, <1>4
        <3> HIDE DEF R
        <3> QED
            BY <3>1, <3>2 DEF CodeByte
    <2> QED
        BY <2>1, <2>2, <2>3
<1>5. SUFFICES ASSUME NEW i \in 1 .. Len(r), CodeByte(r[i], codes)
      PROVE  /\ r[i].at = 2
             /\ i + ReplyLen[r[i].value] - 2 <= Len(r)
             /\ codes[r[i].of] = r[i].value
             /\ \A j \in i .. i + ReplyLen[r[i].value] - 2 : r[j].of = r[i].of
    BY Zenon DEF Whole
<1>6. i = 2
    BY <1>3, <1>4, <1>5, Zenon
<1>7. ReplyLen[r[i].value] = n /\ r[i].value = code /\ 2 \in 1 .. n
    BY <1>1, <1>3, <1>6 DEF n
<1>8. r[i].of = frame /\ r[i].at = 2
    BY <1>3, <1>6, <1>7
<1>9. i + ReplyLen[r[i].value] - 2 = n
    BY <1>1, <1>6, <1>7
<1>10. \A j \in i .. n : r[j].of = frame
    BY <1>1, <1>3, <1>6
<1>11. n <= Len(r)
    BY <1>1, <1>3
<1> QED
    BY <1>7, <1>8, <1>9, <1>10, <1>11, Zenon

LEMMA WholeConcat ==
    ASSUME NEW S, NEW s \in Seq(S), NEW t \in Seq(S), NEW from \in Nat, NEW codes,
           Whole(s, from, codes), Whole(t, 1, codes)
    PROVE  Whole(s \o t, from, codes)
<1> DEFINE u == s \o t
           a == Len(s)
           b == Len(t)
<1>1. a \in Nat /\ b \in Nat
    BY LenProperties
<1>2. /\ Len(u) = a + b
      /\ \A i \in 1 .. a + b : u[i] = IF i <= a THEN s[i] ELSE t[i - a]
    BY ConcatProperties
<1> HIDE DEF u
<1>3. SUFFICES ASSUME NEW i \in 1 .. Len(u), i >= from, CodeByte(u[i], codes)
      PROVE  /\ u[i].at = 2
             /\ i + ReplyLen[u[i].value] - 2 <= Len(u)
             /\ codes[u[i].of] = u[i].value
             /\ \A j \in i .. i + ReplyLen[u[i].value] - 2 : u[j].of = u[i].of
    <2>1. Whole(u, from, codes)
        BY <1>3, Zenon DEF Whole
    <2> QED
        BY <2>1 DEF u
<1> DEFINE n == ReplyLen[u[i].value]
<1>4. n \in 4 .. 8
    BY <1>3, CodeLength DEF CodeByte
<1>5. CASE i <= a
    <2>1. u[i] = s[i] /\ i \in 1 .. a
        BY <1>1, <1>2, <1>5
    <2>2. /\ u[i].at = 2 /\ i + n - 2 <= a
          /\ codes[u[i].of] = u[i].value
          /\ \A j \in i .. i + n - 2 : s[j].of = u[i].of
        BY <1>3, <2>1, Zenon DEF Whole
    <2> HIDE DEF n, a, b
    <2>3. i + n - 2 <= a + b
        BY <1>1, <1>4, <2>2
    <2>4. \A j \in i .. i + n - 2 : j \in 1 .. a + b /\ j <= a
        BY <1>1, <1>4, <2>1, <2>2
    <2>5. \A j \in i .. i + n - 2 : u[j] = s[j]
        BY <1>2, <2>4
    <2> QED
        BY <1>2, <2>2, <2>3, <2>5, Zenon DEF n
<1>6. CASE i > a
    <2> DEFINE k == i - a
    <2>1. u[i] = t[k] /\ k \in 1 .. b /\ k >= 1 /\ k + a = i
        BY <1>1, <1>2, <1>6
    <2> HIDE DEF k
    <2>2. /\ u[i].at = 2 /\ k + n - 2 <= b
          /\ codes[u[i].of] = u[i].value
          /\ \A j \in k .. k + n - 2 : t[j].of = u[i].of
        BY <1>3, <2>1, Zenon DEF Whole
    <2> HIDE DEF n, a, b
    <2>3. i + n - 2 <= a + b
        BY <1>1, <1>4, <2>1, <2>2
    <2>4. ASSUME NEW j \in i .. i + n - 2 PROVE u[j].of = u[i].of
        <3> DEFINE l == j - a
        <3>1. l \in k .. k + n - 2 /\ j \in 1 .. a + b /\ ~(j <= a)
            BY <1>1, <1>4, <2>1, <2>2
        <3>2. u[j] = t[l]
            BY <1>2, <3>1
        <3> HIDE DEF l
        <3> QED
            BY <2>2, <3>1, <3>2, Zenon
    <2> QED
        BY <1>2, <2>2, <2>3, <2>4, Zenon DEF n
<1> QED
    BY <1>1, <1>3, <1>5, <1>6

LEMMA WholeTail ==
    ASSUME NEW S, NEW s \in Seq(S), s # <<>>, NEW codes, Whole(s, 1, codes)
    PROVE  Whole(Tail(s), 1, codes)
<1> DEFINE u == Tail(s)
           a == Len(s)
<1>1. a \in Nat \ {0}
    BY EmptySeq
<1>2. Len(u) = a - 1 /\ \A i \in 1 .. Len(u) : u[i] = s[i + 1]
    BY HeadTailProperties
<1> HIDE DEF u
<1>3. SUFFICES ASSUME NEW i \in 1 .. Len(u), CodeByte(u[i], codes)
      PROVE  /\ u[i].at = 2
             /\ i + ReplyLen[u[i].value] - 2 <= Len(u)
             /\ codes[u[i].of] = u[i].value
             /\ \A j \in i .. i + ReplyLen[u[i].value] - 2 : u[j].of = u[i].of
    <2>1. Whole(u, 1, codes)
        BY <1>3, Zenon DEF Whole
    <2> QED
        BY <2>1 DEF u
<1> DEFINE n == ReplyLen[u[i].value]
           k == i + 1
<1>4. n \in 4 .. 8
    BY <1>3, CodeLength DEF CodeByte
<1>5. u[i] = s[k] /\ k \in 1 .. a /\ k >= 1
    BY <1>1, <1>2
<1> HIDE DEF k
<1>6. /\ u[i].at = 2 /\ k + n - 2 <= a
      /\ codes[u[i].of] = u[i].value
      /\ \A j \in k .. k + n - 2 : s[j].of = u[i].of
    BY <1>3, <1>5, Zenon DEF Whole
<1> HIDE DEF n, a
<1>7. i + n - 2 <= Len(u)
    BY <1>1, <1>2, <1>4, <1>6 DEF k
<1>8. ASSUME NEW j \in i .. i + n - 2 PROVE u[j].of = u[i].of
    <2> DEFINE l == j + 1
    <2>1. l \in k .. k + n - 2 /\ j \in 1 .. Len(u)
        BY <1>1, <1>2, <1>4, <1>7 DEF k
    <2>2. u[j] = s[l]
        BY <1>2, <2>1
    <2> HIDE DEF l
    <2> QED
        BY <1>6, <2>1, <2>2, Zenon
<1> QED
    BY <1>6, <1>7, <1>8, Zenon DEF n

LEMMA WholeAfterOne ==
    ASSUME NEW S, NEW s \in Seq(S), Len(s) <= 1, NEW codes
    PROVE  Whole(s, 2, codes)
<1>1. Len(s) \in Nat
    BY LenProperties
<1>2. \A i \in 1 .. Len(s) : ~(i >= 2)
    BY <1>1
<1> QED
    BY <1>2, Zenon DEF Whole

\* Later frames leave what was asked before.
LEMMA WholeLater ==
    ASSUME NEW n \in Nat, NEW s \in Seq(ByteOf(n)), NEW from, NEW codes, NEW more,
           \A i \in 1 .. n : more[i] = codes[i], Whole(s, from, codes)
    PROVE  Whole(s, from, more)
<1>1. \A i \in 1 .. Len(s) : s[i].of \in 1 .. n
    <2>1. SUFFICES ASSUME NEW i \in 1 .. Len(s) PROVE s[i].of \in 1 .. n
        OBVIOUS
    <2>2. s[i] \in ByteOf(n)
        BY ElementOfSeq
    <2> QED
        BY <2>2 DEF ByteOf, BytesOf
<1> QED
    BY <1>1, Zenon DEF Whole, CodeByte

LEMMA AheadConcat ==
    ASSUME NEW F, NEW s \in Seq(BytesOf(F)), NEW t \in Seq(BytesOf(F)), NEW frame,
           Ahead(s, frame), Ahead(t, frame)
    PROVE  Ahead(s \o t, frame)
<1> DEFINE u == s \o t
           a == Len(s)
           b == Len(t)
<1>1. /\ a \in Nat /\ b \in Nat /\ Len(u) = a + b
      /\ \A i \in 1 .. a + b : u[i] = IF i <= a THEN s[i] ELSE t[i - a]
    BY LenProperties, ConcatProperties
<1>2. /\ \A i \in 1 .. a : s[i].of = frame => s[i].at <= i
      /\ \A i \in 1 .. b : t[i].of = frame => t[i].at <= i
    BY Zenon DEF Ahead
<1>3. ASSUME NEW i \in 1 .. b PROVE t[i].at \in 1 .. 8
    <2>1. t[i] \in BytesOf(F)
        BY ElementOfSeq
    <2> QED
        BY <2>1 DEF BytesOf
<1> HIDE DEF u, a, b
<1>4. ASSUME NEW i \in 1 .. a + b, u[i].of = frame PROVE u[i].at <= i
    <2>1. CASE i <= a
        <3>1. i \in 1 .. a /\ u[i] = s[i]
            BY <1>1, <2>1
        <3> QED
            BY <1>2, <1>4, <3>1
    <2>2. CASE ~(i <= a)
        <3> DEFINE k == i - a
        <3>1. k \in 1 .. b /\ u[i] = t[k] /\ i = k + a
            BY <1>1, <2>2
        <3> HIDE DEF k
        <3>2. t[k].at <= k /\ t[k].at \in 1 .. 8
            BY <1>2, <1>3, <1>4, <3>1
        <3> QED
            BY <1>1, <3>1, <3>2
    <2> QED
        BY <2>1, <2>2
<1>5. \A i \in 1 .. Len(u) : u[i].of = frame => u[i].at <= i
    BY <1>1, <1>4
<1> QED
    BY <1>5, Zenon DEF Ahead, u

LEMMA OwnersAreThose ==
    ASSUME NEW F, NEW s \in Seq(BytesOf(F))
    PROVE  s \in Seq(BytesOf(Owners(s)))
<1>1. Len(s) \in Nat /\ DOMAIN s = 1 .. Len(s) /\ s \in [1 .. Len(s) -> BytesOf(F)]
    BY LenProperties
<1>2. ASSUME NEW i \in 1 .. Len(s) PROVE s[i] \in BytesOf(Owners(s))
    <2>1. s[i] \in BytesOf(F)
        BY ElementOfSeq
    <2>2. s[i].of \in Owners(s)
        BY <1>1, <1>2, Zenon DEF Owners
    <2> HIDE DEF Owners
    <2> QED
        BY <2>1, <2>2 DEF BytesOf
<1> DEFINE B == BytesOf(Owners(s))
           n == Len(s)
<1>3. n \in Nat /\ s \in [1 .. n -> B]
    BY <1>1, <1>2, Zenon
<1> HIDE DEF B, n
<1>4. s \in Seq(B)
    BY <1>3, FunctionIsSeq
<1> QED
    BY <1>4 DEF B

LEMMA RangeIsThose ==
    ASSUME NEW S, NEW s \in Seq(S)
    PROVE  s \in Seq(Range(s))
<1>1. Len(s) \in Nat /\ DOMAIN s = 1 .. Len(s) /\ s \in [1 .. Len(s) -> S]
    BY LenProperties
<1> DEFINE n == Len(s)
           R == Range(s)
<1>2. n \in Nat /\ s \in [1 .. n -> R]
    BY <1>1, Zenon DEF Range
<1> HIDE DEF n, R
<1>3. s \in Seq(R)
    BY <1>2, FunctionIsSeq
<1> QED
    BY <1>3 DEF R

\* What is on its way when a call begins has been asked by an open frame.
LEMMA BeginsWithOpen ==
    ASSUME LinkInv, NEW F, Unanswered \subseteq F
    PROVE  wire \in Seq(BytesOf(F)) /\ inbox \in Seq(F) /\ moving \in F \cup {0}
<1>1. Owners(wire) \subseteq F /\ Range(inbox) \subseteq F /\ {moving} \ {0} \subseteq F
    BY Zenon DEF Unanswered
<1>2. wire \in Seq(BytesOf(Owners(wire)))
    BY OwnersAreThose DEF LinkInv, Line, ByteOf
<1>3. BytesOf(Owners(wire)) \subseteq BytesOf(F)
    BY <1>1, Zenon DEF BytesOf
<1>4. wire \in Seq(BytesOf(F))
    BY <1>2, <1>3, SeqMonotonic
<1>5. inbox \in Seq(F)
    BY <1>1, RangeIsThose, SeqMonotonic DEF LinkInv, Frames
<1> QED
    BY <1>1, <1>4, <1>5

\* What the motor sends, about a frame of F.
LEMMA SentAbout ==
    ASSUME LinkInv, NEW F, NEW frame \in F, frame \in 1 .. Len(sent)
    PROVE  /\ \A body \in Bodies(sent[frame]) :
                  /\ ReplyTo(frame, body) \in Seq(BytesOf(F))
                  /\ Whole(ReplyTo(frame, body), 1, sent)
                  /\ \A f : Ahead(ReplyTo(frame, body), f)
           /\ sent[frame] \in Actions =>
                  /\ ReplyTo(frame, <<159>>) \in Seq(BytesOf(F))
                  /\ Whole(ReplyTo(frame, <<159>>), 1, sent)
                  /\ \A f : Ahead(ReplyTo(frame, <<159>>), f)
<1> DEFINE code == sent[frame]
           n == ReplyLen[code] - 3
<1>1. code \in Codes
    BY ElementOfSeq DEF LinkInv, Frames
<1>2. \A b, m : /\ m \in 1 .. 5 /\ b \in [1 .. m -> 0 .. 255]
                => /\ ReplyTo(frame, b) \in Seq(BytesOf(F))
                   /\ Shaped(ReplyTo(frame, b), frame, code, m, b)
    BY <1>1, ReplyShape, SomeBytes
<1>5. \A r, b : /\ code \in Reads \/ Range(b) \subseteq StatusBytes \cup {159}
                /\ Shaped(r, frame, code, n, b)
                => Whole(r, 1, sent)
    BY <1>1, ReplyIsWhole
<1>6. ASSUME NEW m \in 1 .. 5, NEW r, NEW b, Shaped(r, frame, code, m, b), NEW f
      PROVE  Ahead(r, f)
    <2>1. Len(r) = m + 3 /\ \A i \in 1 .. m + 3 : r[i].at = i
        BY <1>6, Zenon DEF Shaped
    <2>2. \A i \in 1 .. Len(r) : r[i].at <= i
        BY <2>1
    <2> QED
        BY <2>2, Zenon DEF Ahead
<1>3. ASSUME NEW body \in Bodies(code)
      PROVE  /\ ReplyTo(frame, body) \in Seq(BytesOf(F))
             /\ Whole(ReplyTo(frame, body), 1, sent)
             /\ \A f : Ahead(ReplyTo(frame, body), f)
    <2>1. /\ n \in 1 .. 5 /\ body \in [1 .. n -> 0 .. 255]
          /\ code \in Reads \/ Range(body) \subseteq StatusBytes
        BY <1>1, BodyTypes
    <2>2. code \in Reads \/ Range(body) \subseteq StatusBytes \cup {159}
        BY <2>1
    <2> DEFINE r == ReplyTo(frame, body)
    <2>3. r \in Seq(BytesOf(F)) /\ Shaped(r, frame, code, n, body)
        BY <1>2, <2>1, Zenon
    <2> HIDE DEF r
    <2>4. Whole(r, 1, sent) /\ \A f : Ahead(r, f)
        BY <1>5, <1>6, <2>1, <2>2, <2>3, Zenon
    <2> QED
        BY <2>3, <2>4 DEF r
<1>4. ASSUME code \in Actions
      PROVE  /\ ReplyTo(frame, <<159>>) \in Seq(BytesOf(F))
             /\ Whole(ReplyTo(frame, <<159>>), 1, sent)
             /\ \A f : Ahead(ReplyTo(frame, <<159>>), f)
    <2> DEFINE body == <<159>>
    <2>1. n = 1
        BY <1>1, <1>4, CodeLength
    <2>2. body \in [1 .. 1 -> 0 .. 255] /\ 1 \in 1 .. 5
        OBVIOUS
    <2>3. Range(body) \subseteq {159}
        BY DEF Range
    <2> HIDE DEF body
    <2>4. Range(body) \subseteq StatusBytes \cup {159}
        BY <2>3
    <2> DEFINE r == ReplyTo(frame, body)
    <2>5. r \in Seq(BytesOf(F)) /\ Shaped(r, frame, code, n, body)
        <3>1. n \in 1 .. 5 /\ body \in [1 .. n -> 0 .. 255]
            BY <2>1, <2>2, Zenon
        <3> HIDE DEF n
        <3> QED
            BY <1>2, <3>1, Zenon
    <2> HIDE DEF r
    <2>6. n \in 1 .. 5 /\ (code \in Reads \/ Range(body) \subseteq StatusBytes \cup {159})
        BY <2>1, <2>4
    <2> HIDE DEF n
    <2>7. Whole(r, 1, sent) /\ \A f : Ahead(r, f)
        BY <1>5, <1>6, <2>5, <2>6, Zenon
    <2> QED
        BY <2>5, <2>7 DEF r, body
<1> QED
    BY <1>3, <1>4

LEMMA RestOfOne ==
    ASSUME NEW F, NEW g \in Seq(BytesOf(F)), NEW n \in 4 .. 8, DOMAIN g = 1 .. n,
           NEW frame, \A j \in 2 .. n : g[j].of = frame
    PROVE  Owners(SubSeq(g, 2, n)) = {frame}
<1> DEFINE q == SubSeq(g, 2, n)
<1>0. Len(g) = n
    <2>1. Len(g) \in Nat /\ DOMAIN g = 1 .. Len(g)
        BY LenProperties
    <2> DEFINE m == Len(g)
    <2>2. m \in Nat /\ 1 .. m = 1 .. n /\ n \in Nat
        BY <2>1
    <2> HIDE DEF m
    <2>3. m = n
        BY <2>2, IntervalEnd
    <2> QED
        BY <2>3 DEF m
<1>1. \A i \in 2 .. n : g[i] \in BytesOf(F)
    <2>1. \A i \in 2 .. n : i \in 1 .. Len(g)
        BY <1>0
    <2> QED
        BY <2>1, ElementOfSeq
<1>2. /\ q \in Seq(BytesOf(F)) /\ Len(q) = n - 1
      /\ \A i \in 1 .. n - 1 : q[i] = g[i + 1]
    <2>1. 2 \in Int /\ n \in Int /\ 2 <= n /\ n - 2 + 1 = n - 1
        OBVIOUS
    <2>2. /\ q \in Seq(BytesOf(F)) /\ Len(q) = n - 2 + 1
          /\ \A i \in 1 .. n - 2 + 1 : q[i] = g[2 + i - 1]
        BY <1>1, <2>1, SubSeqProperties
    <2> HIDE DEF q
    <2> QED
        BY <2>1, <2>2
<1> HIDE DEF q
<1>3. DOMAIN q = 1 .. n - 1
    BY <1>2, LenProperties
<1>4. \A i \in 1 .. n - 1 : q[i].of = frame
    <2>1. \A i \in 1 .. n - 1 : i + 1 \in 2 .. n
        OBVIOUS
    <2> QED
        BY <1>2, <2>1, Zenon
<1>5. 1 \in 1 .. n - 1
    OBVIOUS
<1>6. Owners(q) = {frame}
    BY <1>3, <1>4, <1>5, Zenon DEF Owners
<1> QED
    BY <1>6 DEF q

\* The reply a call takes is that of a frame of its function code, or its function
\* code is a byte of a value.
LEMMA ReplyAccepted ==
    ASSUME NEW F, NEW g \in Seq(BytesOf(F)), NEW s, NEW code \in Codes, NEW codes,
           Len(g) = ReplyLen[code], Len(g) <= Len(s), \A i \in 1 .. Len(g) : g[i] = s[i],
           Whole(s, 2, codes), Parsed(Values(g), code) # "BAD_FRAME"
    PROVE  /\ g[2].of \in F /\ g[2].at \in 1 .. 8 /\ s[2] = g[2]
           /\ IF g[2].at = 2
              THEN /\ codes[g[2].of] = code
                   /\ Owners(SubSeq(g, 2, Len(g))) = {g[2].of}
              ELSE g[2].at > 2 /\ codes[g[2].of] \in Reads
<1> DEFINE n == Len(g)
<1>1. n \in 4 .. 8 /\ (code \in Actions => n = 4)
    BY CodeLength
<1>2. 2 \in 1 .. n /\ n \in 1 .. n /\ DOMAIN g = 1 .. n
    BY <1>1, LenProperties
<1>3. g[2].value = code
    <2> DEFINE v == Values(g)
    <2>1. v[2] = g[2].value
        BY <1>2, Zenon DEF Values
    <2> HIDE DEF v
    <2>2. v[2] = code
        BY DEF Parsed, zdt_emm_wait_reply, zdt_emm_read_request, v
    <2> QED
        BY <2>1, <2>2
<1>4. g[2].of \in F /\ g[2].at \in 1 .. 8
    <2>1. g[2] \in BytesOf(F)
        BY <1>2, ElementOfSeq
    <2> QED
        BY <2>1 DEF BytesOf
<1>5. s[2] = g[2] /\ 2 \in 1 .. Len(s)
    <2>1. n \in Nat /\ n <= Len(s) /\ (\A i \in 1 .. n : g[i] = s[i])
        BY <1>1
    <2> HIDE DEF n
    <2>2. s[2] = g[2]
        BY <1>2, <2>1
    <2> QED
        BY <1>1, <2>1, <2>2
<1>6. CASE ~CodeByte(g[2], codes)
    <2>1. g[2].at > 2 /\ codes[g[2].of] \in Reads
        BY <1>3, <1>6 DEF CodeByte
    <2> QED
        BY <1>4, <1>5, <2>1
<1>7. CASE CodeByte(g[2], codes)
    <2>1. /\ g[2].at = 2
          /\ codes[g[2].of] = code
          /\ \A j \in 2 .. 2 + n - 2 : s[j].of = g[2].of
        <3>1. CodeByte(s[2], codes) /\ s[2].value = code /\ 2 >= 2
            BY <1>3, <1>5, <1>7
        <3>2. n = ReplyLen[code]
            OBVIOUS
        <3> HIDE DEF n
        <3> QED
            BY <1>5, <3>1, <3>2, Zenon DEF Whole
    <2>2. \A j \in 2 .. n : g[j].of = g[2].of
        <3>1. \A j \in 2 .. n : j \in 2 .. 2 + n - 2 /\ j \in 1 .. n
            BY <1>1
        <3> QED
            BY <2>1, <3>1, Zenon
    <2> HIDE DEF n
    <2>3. Owners(SubSeq(g, 2, n)) = {g[2].of}
        <3>1. \A f : (\A j \in 2 .. n : g[j].of = f) => Owners(SubSeq(g, 2, n)) = {f}
            BY <1>1, <1>2, RestOfOne, Zenon
        <3> QED
            BY <2>2, <3>1, Zenon
    <2> QED
        BY <1>4, <1>5, <2>1, <2>3 DEF n
<1> QED
    BY <1>6, <1>7

LEMMA SameInit == Init => SameInv
<1> SUFFICES ASSUME Init PROVE SameInv
    OBVIOUS
<1>1. Len(<<>>) = 0
    OBVIOUS
<1>2. WireWhole
    BY <1>1 DEF Init, WireWhole, Whole
<1> QED
    BY <1>2 DEF Init, SameInv, MovesAct, OpenBefore, CallAlone, OwnFromStart, StreamWhole,
                TakenIsAccepted

\* A frame more changes nothing of what was sent.
LEMMA SameLater ==
    ASSUME LinkInv, SameInv, NEW code \in Codes, Len(sent) < MaxFrames,
           sent' = Append(sent, code), UNCHANGED <<wire, moving>>
    PROVE  /\ WireWhole' /\ MovesAct'
           /\ \A i \in 1 .. Len(sent) : sent'[i] = sent[i]
<1>1. sent \in Seq(Codes) /\ Len(sent) \in Nat
    BY LenProperties DEF LinkInv, Frames
<1>2. \A i \in 1 .. Len(sent) : sent'[i] = sent[i]
    BY <1>1, AppendProperties
<1>3. WireWhole'
    <2> DEFINE n == Len(sent)
    <2>1. n \in Nat /\ wire \in Seq(ByteOf(n)) /\ \A i \in 1 .. n : sent'[i] = sent[i]
        BY <1>1, <1>2 DEF LinkInv, Line
    <2> HIDE DEF n
    <2>2. Whole(wire, 1, sent')
        BY <2>1, WholeLater DEF SameInv, WireWhole
    <2> QED
        BY <2>2, Zenon DEF WireWhole
<1>4. MovesAct'
    <2>1. moving # 0 => moving \in 1 .. Len(sent)
        BY <1>1 DEF LinkInv, Frames
    <2> QED
        BY <1>2, <2>1 DEF SameInv, MovesAct
<1> QED
    BY <1>2, <1>3, <1>4

LEMMA MoreOnStream ==
    ASSUME NEW S, got \in Seq(S), fifo \in Seq(S), wire \in Seq(S), NEW r \in Seq(S)
    PROVE  got \o (fifo \o (wire \o r)) = Stream \o r
<1> DEFINE x == fifo \o wire
<1>1. x \in Seq(S)
    BY ConcatProperties
<1>2. x \o r = fifo \o (wire \o r)
    BY ConcatAssociative
<1> HIDE DEF x
<1>3. (got \o x) \o r = got \o (x \o r)
    BY <1>1, ConcatAssociative
<1> QED
    BY <1>2, <1>3, Zenon DEF Stream, x

\* Bytes that are whole join whole ones at the end of the line.
LEMMA MoreOnLine ==
    ASSUME LinkInv, SameInv, NEW r \in Seq(ByteOf(Len(sent))), Whole(r, 1, sent),
           \A f : Ahead(r, f),
           pc \in {"sending", "reading"} => r \in Seq(BytesOf(Concerned)),
           wire' = wire \o r, UNCHANGED <<pc, got, fifo, sent, open, call>>
    PROVE  /\ WireWhole' /\ StreamWhole' /\ OwnFromStart'
           /\ pc \in {"sending", "reading"} => wire' \in Seq(BytesOf(Concerned))
<1> DEFINE S == ByteOf(Len(sent))
<1>1. got \in Seq(S) /\ fifo \in Seq(S) /\ wire \in Seq(S) /\ r \in Seq(S)
    BY DEF LinkInv, Line
<1> HIDE DEF S
<1>2. Whole(wire \o r, 1, sent)
    BY <1>1, WholeConcat DEF SameInv, WireWhole
<1>3. WireWhole'
    BY <1>2, Zenon DEF WireWhole
<1>4. Stream \in Seq(S)
    <2> DEFINE x == fifo \o wire
    <2>1. x \in Seq(S)
        BY <1>1, ConcatProperties
    <2> HIDE DEF x
    <2>2. got \o x \in Seq(S)
        BY <1>1, <2>1, ConcatProperties
    <2> QED
        BY <2>2 DEF Stream, x
<1>5. pc = "reading" => Whole(Stream \o r, 2, sent)
    <2>2. pc = "reading" => Whole(Stream, 2, sent)
        BY DEF SameInv, StreamWhole
    <2> QED
        BY <1>1, <1>4, <2>2, WholeConcat
<1>6. Stream' = Stream \o r
    <2>1. got \o (fifo \o (wire \o r)) = Stream \o r
        BY <1>1, MoreOnStream
    <2> QED
        BY <2>1, Zenon DEF Stream
<1>7. StreamWhole'
    BY <1>5, <1>6, Zenon DEF StreamWhole
<1>8. ASSUME pc \in {"sending", "reading"} PROVE wire' \in Seq(BytesOf(Concerned))
    <2> DEFINE B == BytesOf(Concerned)
    <2>1. r \in Seq(B) /\ wire \in Seq(B)
        BY <1>8 DEF SameInv, CallAlone
    <2> HIDE DEF B
    <2>2. wire \o r \in Seq(B)
        BY <2>1, ConcatProperties
    <2> QED
        BY <2>2 DEF B
<1>9. OwnFromStart'
    <2>1. SUFFICES ASSUME pc = "reading" PROVE Ahead(Stream \o r, call)
        BY <1>6, Zenon DEF OwnFromStart
    <2>2. Ahead(Stream, call) /\ Ahead(r, call)
        BY <2>1 DEF SameInv, OwnFromStart
    <2> QED
        BY <1>1, <1>4, <2>2, AheadConcat DEF S, ByteOf
<1> QED
    BY <1>3, <1>7, <1>8, <1>9

LEMMA SameStep ==
    ASSUME FifoDepth = 1, LinkInv, SameInv, [Next]_vars
    PROVE  SameInv'
<1> DEFINE S == ByteOf(Len(sent))
<1>0. /\ got \in Seq(S) /\ fifo \in Seq(S) /\ wire \in Seq(S)
      /\ inbox \in Seq(1 .. Len(sent)) /\ Len(sent) \in Nat /\ LinkInv'
      /\ call # 0 => call \in 1 .. Len(sent) /\ sent[call] \in Codes
      /\ pc = "reading" \/ pc = "sending" => call # 0
    <2>1. Len(sent) \in Nat /\ LinkInv'
        BY LenProperties, LinkStep DEF LinkInv, Frames
    <2>2. ASSUME call # 0 PROVE call \in 1 .. Len(sent) /\ sent[call] \in Codes
        <3>1. call \in 1 .. Len(sent)
            BY <2>1, <2>2 DEF LinkInv, Frames
        <3> QED
            BY <3>1, ElementOfSeq DEF LinkInv, Frames
    <2> QED
        BY <2>1, <2>2 DEF LinkInv, Stages, Frames, Line
<1>1. ASSUME NEW code \in Codes, StartCall(code) PROVE SameInv'
    <2>1. /\ Len(sent) < MaxFrames /\ sent' = Append(sent, code)
          /\ pc' = "sending" /\ got' = <<>> /\ fifo' = <<>>
          /\ call' = Len(sent') /\ open' = Unanswered
          /\ inbox' = inbox /\ wire' = wire /\ moving' = moving
        BY <1>1 DEF StartCall, motor
    <2>2. WireWhole' /\ MovesAct'
        BY <2>1, SameLater
    <2>3. CallAlone'
        <3> DEFINE F == Concerned'
        <3>1. Unanswered \subseteq F
            BY <2>1, Zenon DEF Concerned
        <3> HIDE DEF F
        <3>2. wire \in Seq(BytesOf(F)) /\ inbox \in Seq(F) /\ moving \in F \cup {0}
            BY <3>1, BeginsWithOpen
        <3>3. <<>> \in Seq(BytesOf(F))
            BY EmptySeq
        <3>4. /\ fifo' \in Seq(BytesOf(F)) /\ wire' \in Seq(BytesOf(F))
              /\ got' \in Seq(BytesOf(F)) /\ inbox' \in Seq(F) /\ moving' \in F \cup {0}
            BY <2>1, <3>2, <3>3, Zenon
        <3> QED
            BY <3>4 DEF CallAlone, F
    <2>4. OpenBefore'
        <3>1. Unanswered \subseteq 1 .. Len(sent)
            BY UnansweredAreFrames
        <3>2. call' = Len(sent) + 1
            BY <2>1, OneMoreFrame
        <3> QED
            BY <1>0, <2>1, <3>1, <3>2 DEF OpenBefore
    <2> QED
        BY <2>1, <2>2, <2>3, <2>4 DEF SameInv, OwnFromStart, StreamWhole, TakenIsAccepted
<1>2. ASSUME NEW code \in Actions, StartNoReply(code) PROVE SameInv'
    <2>1. /\ pc = "idle" /\ Len(sent) < MaxFrames /\ sent' = Append(sent, code)
          /\ pc' = "writing" /\ UNCHANGED <<got, result, call, open, wire, moving>>
        BY <1>2 DEF StartNoReply, motor
    <2>2. code \in Codes
        BY DEF Codes
    <2>3. WireWhole' /\ MovesAct' /\ (\A i \in 1 .. Len(sent) : sent'[i] = sent[i])
        BY <2>1, <2>2, SameLater
    <2>4. 1 .. Len(sent) \subseteq 1 .. Len(sent')
        BY <2>1, <2>2, OneMoreFrame
    <2>5. TakenIsAccepted'
        <3>1. SUFFICES ASSUME call # 0, result \notin {"none", "TIMEOUT", "BAD_FRAME"}
              PROVE  Accepted'
            BY <2>1 DEF TakenIsAccepted
        <3>2. Accepted
            BY <2>1, <3>1 DEF SameInv, TakenIsAccepted
        <3>3. sent'[call] = sent[call] /\ sent'[got[2].of] = sent[got[2].of]
            BY <1>0, <2>3, <3>1, <3>2 DEF Accepted
        <3>4. got' = got /\ call' = call /\ open' = open /\ Asked' = Asked
            BY <2>1 DEF Asked
        <3> QED
            BY <2>4, <3>2, <3>3, <3>4, Zenon DEF Accepted, Owners
    <2> QED
        BY <2>1, <2>3, <2>5 DEF SameInv, OpenBefore, CallAlone, OwnFromStart, StreamWhole
<1>3. CASE RejectCall \/ zdt_emm_clear_rx
    <2>1. /\ pc = "idle" /\ pc' = pc /\ UNCHANGED <<wire, moving, sent>>
          /\ call' = 0 \/ UNCHANGED <<got, result, call, open>>
        BY <1>3 DEF RejectCall, zdt_emm_clear_rx, driver, motor
    <2>2. TakenIsAccepted'
        BY <2>1 DEF SameInv, TakenIsAccepted, Accepted, Asked, Owners
    <2> QED
        BY <2>1, <2>2 DEF SameInv, WireWhole, MovesAct, OpenBefore, CallAlone, OwnFromStart,
                           StreamWhole
<1>4. CASE zdt_emm_send_frame
    <2>1. /\ UNCHANGED <<got, result, fifo, wire, moving, sent, call, open>>
          /\ inbox' = Append(inbox, Len(sent))
          /\ \/ pc = "sending" /\ pc' = "reading"
             \/ pc = "writing" /\ pc' = "idle"
        BY <1>4 DEF zdt_emm_send_frame
    <2>2. WireWhole' /\ MovesAct' /\ OpenBefore'
        BY <2>1 DEF SameInv, WireWhole, MovesAct, OpenBefore
    <2>3. CASE pc = "sending"
        <3>1. call = Len(sent) /\ got = <<>>
            BY <2>3 DEF LinkInv, Stages
        <3>2. /\ fifo \in Seq(BytesOf(open)) /\ wire \in Seq(BytesOf(open))
              /\ got \in Seq(BytesOf(open)) /\ inbox \in Seq(open) /\ moving \in open \cup {0}
            BY <2>3 DEF SameInv, CallAlone, Concerned
        <3>3. CallAlone'
            <4>1. Concerned' = Asked /\ call \in Asked /\ open \subseteq Asked
                BY <2>1, <2>3 DEF Asked, Concerned
            <4>2. BytesOf(open) \subseteq BytesOf(Asked)
                BY <4>1, Zenon DEF BytesOf
            <4>3. /\ fifo \in Seq(BytesOf(Asked)) /\ wire \in Seq(BytesOf(Asked))
                  /\ got \in Seq(BytesOf(Asked)) /\ inbox \in Seq(Asked)
                BY <3>2, <4>1, <4>2, SeqMonotonic
            <4>4. inbox' \in Seq(Asked)
                BY <2>1, <3>1, <4>1, <4>3, AppendProperties
            <4>5. moving \in Asked \cup {0}
                BY <3>2, <4>1
            <4> QED
                BY <2>1, <4>1, <4>3, <4>4, <4>5, Zenon DEF CallAlone
        <3>4. fifo \o wire \in Seq(BytesOf(open)) /\ Stream' = fifo \o wire
            <4> DEFINE B == BytesOf(open)
                       x == fifo \o wire
            <4>1. fifo \in Seq(B) /\ wire \in Seq(B)
                BY <3>2
            <4> HIDE DEF B
            <4>2. x \in Seq(B)
                BY <4>1, ConcatProperties
            <4> HIDE DEF x
            <4>3. <<>> \o x = x
                BY <4>2, ConcatEmptySeq
            <4>4. got' = <<>> /\ fifo' = fifo /\ wire' = wire
                BY <2>1, <3>1
            <4>5. Stream' = x
                BY <4>3, <4>4, Zenon DEF Stream, x
            <4> QED
                BY <4>2, <4>5 DEF B, x
        <3>5. OwnFromStart'
            <4>1. call \notin open
                BY <1>0, <2>3 DEF SameInv, OpenBefore
            <4> DEFINE x == fifo \o wire
            <4>2. \A i \in 1 .. Len(x) : x[i].of # call
                <5>1. x \in Seq(BytesOf(open))
                    BY <3>4
                <5> HIDE DEF x
                <5>2. \A i \in 1 .. Len(x) : x[i] \in BytesOf(open)
                    BY <5>1, ElementOfSeq
                <5> QED
                    BY <4>1, <5>2 DEF BytesOf
            <4> HIDE DEF x
            <4>3. Ahead(x, call)
                BY <4>2, Zenon DEF Ahead
            <4> QED
                BY <2>1, <3>4, <4>3, Zenon DEF OwnFromStart, x
        <3>6. StreamWhole'
            <4>1. Len(fifo) <= 1
                BY DEF LinkInv, Line
            <4>2. Whole(fifo, 2, sent)
                BY <1>0, <4>1, WholeAfterOne
            <4>3. Whole(fifo \o wire, 2, sent)
                BY <1>0, <4>2, WholeConcat DEF SameInv, WireWhole
            <4> QED
                BY <2>1, <3>4, <4>3, Zenon DEF StreamWhole
        <3> QED
            BY <2>1, <2>2, <2>3, <3>3, <3>6, <3>5 DEF SameInv, TakenIsAccepted
    <2>4. CASE pc = "writing"
        <3>1. TakenIsAccepted'
            BY <2>1, <2>4 DEF SameInv, TakenIsAccepted, Accepted, Asked, Owners
        <3> QED
            BY <2>1, <2>2, <2>4, <3>1 DEF SameInv, CallAlone, OwnFromStart, StreamWhole
    <2> QED
        BY <2>1, <2>3, <2>4
<1>5. CASE zdt_emm_read
    <2>1. /\ pc = "reading" /\ fifo # <<>>
          /\ got' = Append(got, Head(fifo)) /\ fifo' = Tail(fifo)
          /\ UNCHANGED <<inbox, wire, moving, sent, call, open>>
        BY <1>5, Zenon DEF zdt_emm_read, motor
    <2>2. WireWhole' /\ MovesAct' /\ OpenBefore'
        BY <2>1 DEF SameInv, WireWhole, MovesAct, OpenBefore
    <2>3. Asked' = Asked /\ Concerned = Asked /\ Concerned' = Asked
        <3>1. pc' # "sending"
            BY <1>5, Zenon DEF zdt_emm_read
        <3> QED
            BY <2>1, <3>1 DEF Asked, Concerned
    <2> DEFINE B == BytesOf(Asked)
    <2>4. /\ got \in Seq(B) /\ fifo \in Seq(B) /\ wire \in Seq(B)
          /\ inbox \in Seq(Asked) /\ moving \in Asked \cup {0}
        BY <2>1, <2>3 DEF SameInv, CallAlone
    <2>5. B' = B
        BY <2>3
    <2> HIDE DEF B
    <2>6. got' \in Seq(B) /\ Len(got') = Len(got) + 1 /\ fifo' \in Seq(B) /\ wire' \in Seq(B)
        BY <2>1, <2>4, HeadTailProperties, AppendProperties
    <2>7. CallAlone'
        BY <2>1, <2>3, <2>4, <2>5, <2>6, Zenon DEF CallAlone, B
    <2>8. Stream' = Stream
        <3>1. Append(got, Head(fifo)) \o (Tail(fifo) \o wire) = got \o (fifo \o wire)
            BY <2>1, <2>4, ReadKeepsStream
        <3> QED
            BY <2>1, <3>1, Zenon DEF Stream
    <2>9. StreamWhole' /\ OwnFromStart'
        BY <2>1, <2>8, Zenon DEF SameInv, StreamWhole, OwnFromStart
    <2>10. CASE Len(got') < ReplyLen[sent[call]]
        <3>1. pc' = "reading"
            BY <1>5, <2>1, <2>10, Zenon DEF zdt_emm_read
        <3> QED
            BY <2>2, <2>7, <2>9, <3>1 DEF SameInv, TakenIsAccepted
    <2>11. CASE ~(Len(got') < ReplyLen[sent[call]])
        <3>1. pc' = "idle" /\ result' = Parsed(Values(got'), sent[call])
            BY <1>5, <2>11, Zenon DEF zdt_emm_read
        <3>2. Len(got) < ReplyLen[sent[call]] /\ sent[call] \in Codes /\ call \in 1 .. Len(sent)
            BY <1>0, <2>1 DEF LinkInv, Stages
        <3>3. Len(got') = ReplyLen[sent[call]]
            <4>1. ReplyLen[sent[call]] \in 4 .. 8
                BY <3>2, CodeLength
            <4>2. Len(got) \in Nat
                BY <2>4, LenProperties
            <4> QED
                BY <2>6, <2>11, <3>2, <4>1, <4>2
        <3> DEFINE z == fifo' \o wire'
        <3>4. z \in Seq(B)
            BY <2>6, ConcatProperties
        <3>5. Stream = got' \o z
            BY <2>8 DEF Stream
        <3> HIDE DEF z
        <3>6. Len(got') \in Nat /\ Len(z) \in Nat
            BY <2>6, <3>4, LenProperties
        <3>7. Len(got') <= Len(Stream) /\ \A i \in 1 .. Len(got') : got'[i] = Stream[i]
            <4> DEFINE st == got' \o z
            <4>1. /\ Len(st) = Len(got') + Len(z)
                  /\ \A i \in 1 .. Len(got') + Len(z) :
                         st[i] = IF i <= Len(got') THEN got'[i] ELSE z[i - Len(got')]
                BY <2>6, <3>4, ConcatProperties
            <4>2. Stream = st
                BY <3>5
            <4> HIDE DEF st
            <4> QED
                BY <3>6, <4>1, <4>2
        <3>8. Whole(Stream, 2, sent)
            BY <2>1 DEF SameInv, StreamWhole
        <3>9. ASSUME Parsed(Values(got'), sent[call]) # "BAD_FRAME"
              PROVE  Accepted'
            <4>1. /\ got'[2].of \in Asked /\ got'[2].at \in 1 .. 8 /\ Stream[2] = got'[2]
                  /\ IF got'[2].at = 2
                     THEN /\ sent[got'[2].of] = sent[call]
                          /\ Owners(SubSeq(got', 2, Len(got'))) = {got'[2].of}
                     ELSE got'[2].at > 2 /\ sent[got'[2].of] \in Reads
                BY <2>6, <3>2, <3>3, <3>7, <3>8, <3>9, ReplyAccepted DEF B
            <4>2. got'[2].of \in 1 .. Len(sent')
                <5>1. got' \in Seq(ByteOf(Len(sent')))
                    BY <1>0 DEF LinkInv, Line
                <5>2. Len(got') \in 4 .. 8
                    BY <3>2, <3>3, CodeLength
                <5>3. 2 \in 1 .. Len(got')
                    BY <5>2
                <5>4. got'[2] \in ByteOf(Len(sent'))
                    BY <5>1, <5>3, ElementOfSeq
                <5> QED
                    BY <5>4 DEF ByteOf, BytesOf
            <4>3. got'[2].at # 2 => got'[2].of \in open
                <5>1. SUFFICES ASSUME got'[2].at > 2, got'[2].of = call PROVE FALSE
                    BY <4>1 DEF Asked
                <5>2. Ahead(Stream, call)
                    BY <2>1 DEF SameInv, OwnFromStart
                <5>3. 2 \in 1 .. Len(Stream)
                    <6>1. Len(got') \in 4 .. 8 /\ Len(got') <= Len(Stream)
                        BY <3>2, <3>3, <3>7, CodeLength
                    <6>2. Len(Stream) \in Int /\ Len(got') \in Int
                        BY <3>5, <2>6, <3>4, ConcatProperties, LenProperties
                    <6>3. \A a, b \in Int : a \in 4 .. 8 /\ a <= b => 2 \in 1 .. b
                        OBVIOUS
                    <6> QED
                        BY <6>1, <6>2, <6>3, Zenon
                <5>4. Stream[2].at <= 2
                    BY <4>1, <5>1, <5>2, <5>3, Zenon DEF Ahead
                <5> QED
                    BY <4>1, <5>1, <5>4
            <4> QED
                BY <2>1, <2>3, <4>1, <4>2, <4>3, Zenon DEF Accepted, Owners
        <3>10. TakenIsAccepted'
            BY <3>1, <3>9 DEF TakenIsAccepted
        <3> QED
            BY <2>2, <2>7, <2>9, <3>10 DEF SameInv
    <2> QED
        BY <2>10, <2>11
<1>6. CASE Timeout
    BY <1>6 DEF Timeout, motor, SameInv, WireWhole, MovesAct, OpenBefore, CallAlone,
            OwnFromStart, StreamWhole, TakenIsAccepted
<1>7. CASE Answer
    <2>1. PICK body \in Bodies(sent[Head(inbox)]) :
              /\ wire' = wire \o ReplyTo(Head(inbox), body)
              /\ moving' = IF sent[Head(inbox)] \in Moves /\ body[1] = 2
                              THEN Head(inbox) ELSE moving
        BY <1>7, Zenon DEF Answer
    <2>2. /\ inbox # <<>> /\ inbox' = Tail(inbox)
          /\ UNCHANGED <<pc, got, result, fifo, sent, call, open>>
        BY <1>7, Zenon DEF Answer, driver
    <2>3. Head(inbox) \in 1 .. Len(sent)
        BY <1>0, <2>2, HeadTailProperties
    <2>4. pc \in {"sending", "reading"} => Head(inbox) \in Concerned /\ Tail(inbox) \in Seq(Concerned)
        BY <2>2, HeadTailProperties DEF SameInv, CallAlone
    <2> DEFINE r == ReplyTo(Head(inbox), body)
    <2>5. r \in Seq(S) /\ Whole(r, 1, sent) /\ (\A g : Ahead(r, g))
        BY <2>3, SentAbout DEF ByteOf
    <2>6. pc \in {"sending", "reading"} => r \in Seq(BytesOf(Concerned))
        BY <2>3, <2>4, SentAbout
    <2>7. /\ wire' = wire \o r
          /\ pc' = pc /\ got' = got /\ fifo' = fifo /\ sent' = sent /\ open' = open /\ call' = call
        BY <2>1, <2>2
    <2> HIDE DEF r
    <2>8. /\ WireWhole' /\ StreamWhole' /\ OwnFromStart'
          /\ pc \in {"sending", "reading"} => wire' \in Seq(BytesOf(Concerned))
        BY <2>5, <2>6, <2>7, MoreOnLine
    <2>9. MovesAct'
        BY <2>1, <2>2, StepMotorAssumption DEF SameInv, MovesAct
    <2>10. Asked' = Asked /\ Concerned' = Concerned
        BY <2>2 DEF Asked, Concerned
    <2>11. CallAlone'
        <3>1. pc \in {"sending", "reading"} => moving' \in Concerned \cup {0}
            BY <2>1, <2>4 DEF SameInv, CallAlone
        <3> QED
            BY <2>2, <2>4, <2>8, <2>10, <3>1, Zenon DEF SameInv, CallAlone
    <2>12. TakenIsAccepted'
        BY <2>2, <2>10 DEF SameInv, TakenIsAccepted, Accepted, Owners
    <2> QED
        BY <2>2, <2>8, <2>9, <2>11, <2>12 DEF SameInv, OpenBefore
<1>8. CASE Ignore
    <2>1. /\ inbox # <<>> /\ inbox' = Tail(inbox)
          /\ UNCHANGED <<pc, got, result, fifo, wire, moving, sent, call, open>>
        BY <1>8 DEF Ignore, driver
    <2>2. pc \in {"sending", "reading"} => inbox' \in Seq(Concerned)
        BY <2>1, HeadTailProperties DEF SameInv, CallAlone
    <2>3. Asked' = Asked /\ Concerned' = Concerned /\ Stream' = Stream
        BY <2>1 DEF Asked, Concerned, Stream
    <2>4. CallAlone'
        BY <2>1, <2>2, <2>3, Zenon DEF SameInv, CallAlone
    <2>5. TakenIsAccepted'
        BY <2>1, <2>3 DEF SameInv, TakenIsAccepted, Accepted, Owners
    <2> QED
        BY <2>1, <2>3, <2>4, <2>5 DEF SameInv, WireWhole, MovesAct, OpenBefore, OwnFromStart,
                                    StreamWhole
<1>9. CASE Arrive
    <2>1. /\ moving # 0 /\ moving' = 0
          /\ wire' \in {wire, wire \o ReplyTo(moving, <<159>>)}
          /\ UNCHANGED <<pc, got, result, fifo, inbox, sent, call, open>>
        BY <1>9 DEF Arrive, driver
    <2>2. moving \in 1 .. Len(sent) /\ sent[moving] \in Actions
        BY <1>0, <2>1 DEF LinkInv, Frames, SameInv, MovesAct
    <2> DEFINE r == ReplyTo(moving, <<159>>)
    <2>3. r \in Seq(S) /\ Whole(r, 1, sent) /\ (\A g : Ahead(r, g))
        BY <2>2, SentAbout DEF ByteOf
    <2>4. pc \in {"sending", "reading"} => r \in Seq(BytesOf(Concerned))
        <3>1. pc \in {"sending", "reading"} => moving \in Concerned
            BY <2>1 DEF SameInv, CallAlone
        <3> QED
            BY <2>2, <3>1, SentAbout
    <2>5. /\ wire' = wire \/ wire' = wire \o r
          /\ pc' = pc /\ got' = got /\ fifo' = fifo /\ sent' = sent /\ open' = open /\ call' = call
        BY <2>1
    <2> HIDE DEF r
    <2>6. /\ WireWhole' /\ StreamWhole' /\ OwnFromStart'
          /\ pc \in {"sending", "reading"} => wire' \in Seq(BytesOf(Concerned))
        <3>1. CASE wire' = wire
            BY <2>5, <3>1 DEF SameInv, WireWhole, OwnFromStart, StreamWhole, Stream, CallAlone,
                              Concerned, Asked
        <3>2. CASE wire' = wire \o r
            BY <2>3, <2>4, <2>5, <3>2, MoreOnLine
        <3> QED
            BY <2>5, <3>1, <3>2
    <2>7. Asked' = Asked /\ Concerned' = Concerned
        BY <2>1 DEF Asked, Concerned
    <2>8. CallAlone'
        BY <2>1, <2>6, <2>7, Zenon DEF SameInv, CallAlone
    <2>9. TakenIsAccepted'
        BY <2>1, <2>7 DEF SameInv, TakenIsAccepted, Accepted, Owners
    <2> QED
        BY <2>1, <2>6, <2>8, <2>9 DEF SameInv, OpenBefore, MovesAct
<1>10. CASE Deliver
    <2>1. /\ wire # <<>> /\ wire' = Tail(wire)
          /\ pc = "reading" => fifo' = Append(fifo, Head(wire))
          /\ fifo' \in {fifo, Append(fifo, Head(wire))}
          /\ UNCHANGED <<pc, got, result, inbox, moving, sent, call, open>>
        BY <1>10 DEF Deliver, driver
    <2>2. WireWhole'
        <3>1. Whole(Tail(wire), 1, sent)
            BY <1>0, <2>1, WholeTail DEF SameInv, WireWhole
        <3> QED
            BY <2>1, <3>1, Zenon DEF WireWhole
    <2>3. Asked' = Asked /\ Concerned' = Concerned
        BY <2>1 DEF Asked, Concerned
    <2>4. CallAlone'
        <3>1. SUFFICES ASSUME pc \in {"sending", "reading"}
              PROVE  fifo' \in Seq(BytesOf(Concerned)) /\ wire' \in Seq(BytesOf(Concerned))
            BY <2>1, <2>3, Zenon DEF SameInv, CallAlone
        <3> DEFINE B == BytesOf(Concerned)
        <3>2. fifo \in Seq(B) /\ wire \in Seq(B)
            BY <3>1 DEF SameInv, CallAlone
        <3> HIDE DEF B
        <3>3. Head(wire) \in B /\ Tail(wire) \in Seq(B)
            BY <2>1, <3>2, HeadTailProperties
        <3>4. Append(fifo, Head(wire)) \in Seq(B)
            BY <3>2, <3>3, AppendProperties
        <3> QED
            BY <2>1, <3>2, <3>3, <3>4, Zenon DEF B
    <2>5. StreamWhole' /\ OwnFromStart'
        <3>1. SUFFICES ASSUME pc = "reading" PROVE Whole(Stream', 2, sent) /\ Ahead(Stream', call)
            BY <2>1, Zenon DEF StreamWhole, OwnFromStart
        <3>2. Append(fifo, Head(wire)) \o Tail(wire) = fifo \o wire
            BY <1>0, <2>1, MovedByte
        <3>3. Stream' = Stream
            BY <2>1, <3>1, <3>2, Zenon DEF Stream
        <3> QED
            BY <3>1, <3>3 DEF SameInv, StreamWhole, OwnFromStart
    <2>6. TakenIsAccepted'
        BY <2>1, <2>3 DEF SameInv, TakenIsAccepted, Accepted, Owners
    <2> QED
        BY <2>1, <2>2, <2>4, <2>5, <2>6 DEF SameInv, OpenBefore, MovesAct
<1>11. CASE UNCHANGED vars
    BY <1>11 DEF vars, driver, motor, SameInv, WireWhole, MovesAct, OpenBefore, CallAlone,
             OwnFromStart, StreamWhole, Stream, TakenIsAccepted, Accepted, Asked, Concerned,
             Owners
<1> QED
    BY <1>1, <1>2, <1>3, <1>4, <1>5, <1>6, <1>7, <1>8, <1>9, <1>10, <1>11
    DEF Next, Call, ActionCall, ReadCall, NoReplyCall, Progress, Codes

\* With a register of one byte, zdt_emm_wait_reply and zdt_emm_read_request take
\* for a call's answer only its own, that of an earlier frame of its function code,
\* or a piece of the value in the late reply to an earlier read: whatever values the
\* motor reports, a late reply to an action, or parts of two replies, are refused.
THEOREM OnlyValuesEverMislead ==
    ASSUME FifoDepth = 1
    PROVE  Spec => []OnlyValuesMislead
<1>1. Init => LinkInv /\ SameInv
    BY LinkInitInv, SameInit
<1>2. LinkInv /\ SameInv /\ [Next]_vars => LinkInv' /\ SameInv'
    BY LinkStep, SameStep
<1>3. SameInv => OnlyValuesMislead
    BY DEF SameInv, TakenIsAccepted, Accepted, Asked, OnlyValuesMislead, Returned
<1> QED
    BY <1>1, <1>2, <1>3, PTL DEF Spec

--------------------------------------------------------------------------------
\* No answer is taken by two calls.

\* The frame of a byte, if it is the reply's function code.
CodeOf(b) == IF b.at = 2 THEN {b.of} ELSE {}

\* Frames outside T have one reply's function code in s at most.
OneCode(s, T) ==
    \A i, j \in 1 .. Len(s) :
        /\ s[i].at = 2 /\ s[j].at = 2
        /\ s[i].of = s[j].of /\ s[i].of \notin T
        => i = j

\* The frames that may be answered twice.
Repeated == {frame \in 1 .. Len(sent) : sent[frame] \in AnsweredTwice}

\* The frame that is being sent.
Leaving == IF pc \in {"sending", "writing"} THEN {Len(sent)} ELSE {}

InboxOnce == \A i, j \in 1 .. Len(inbox) : inbox[i] = inbox[j] /\ inbox[i] \notin Repeated => i = j

CodesOnce == OneCode(Read, Repeated) /\ OneCode(fifo, Repeated) /\ OneCode(wire, Repeated)

\* Where an answer can be, it is in one place.
OnePlace ==
    /\ Coded(Read) \cap Coded(fifo) \subseteq Repeated
    /\ (Coded(Read) \cup Coded(fifo)) \cap Coded(wire) \subseteq Repeated
    /\ (Coded(Read) \cup Coded(fifo) \cup Coded(wire)) \cap Range(inbox) \subseteq Repeated
    /\ (Coded(Read) \cup Coded(fifo) \cup Coded(wire) \cup Range(inbox)) \cap Leaving \subseteq Repeated

MovesMove == moving # 0 => moving \in 1 .. Len(sent) /\ sent[moving] \in Moves

OnceInv == InboxOnce /\ CodesOnce /\ OnePlace /\ MovesMove

LEMMA CodedIs ==
    ASSUME NEW S, NEW s \in Seq(S)
    PROVE  \A f : f \in Coded(s) <=> \E i \in 1 .. Len(s) : s[i].at = 2 /\ s[i].of = f
<1>1. DOMAIN s = 1 .. Len(s)
    BY LenProperties
<1> QED
    BY <1>1, Zenon DEF Coded

LEMMA OneCodeMore ==
    ASSUME NEW s, NEW T, NEW U, OneCode(s, T), T \subseteq U
    PROVE  OneCode(s, U)
BY Zenon DEF OneCode

LEMMA NoneCoded ==
    ASSUME NEW T
    PROVE  OneCode(<<>>, T) /\ Coded(<<>>) = {}
<1>1. Len(<<>>) = 0 /\ DOMAIN <<>> = {} /\ 1 .. 0 = {}
    OBVIOUS
<1>2. OneCode(<<>>, T)
    BY <1>1 DEF OneCode
<1>3. Coded(<<>>) = {}
    BY <1>1 DEF Coded
<1> QED
    BY <1>2, <1>3

LEMMA CodedTail ==
    ASSUME NEW S, NEW s \in Seq(S), s # <<>>, NEW T, OneCode(s, T)
    PROVE  /\ Coded(s) = CodeOf(Head(s)) \cup Coded(Tail(s))
           /\ CodeOf(Head(s)) \cap Coded(Tail(s)) \subseteq T
           /\ OneCode(Tail(s), T)
<1> DEFINE u == Tail(s)
           h == Head(s)
           n == Len(s)
           m == Len(u)
<1>1. /\ u \in Seq(S) /\ h = s[1] /\ n \in Nat \ {0} /\ m \in Nat /\ n = m + 1
      /\ \A i \in 1 .. m : u[i] = s[i + 1]
    BY HeadTailProperties, EmptySeq, LenProperties
<1>2. /\ \A f : f \in Coded(s) <=> \E i \in 1 .. n : s[i].at = 2 /\ s[i].of = f
      /\ \A f : f \in Coded(u) <=> \E i \in 1 .. m : u[i].at = 2 /\ u[i].of = f
    BY <1>1, CodedIs
<1>3. \A i, j \in 1 .. n :
          s[i].at = 2 /\ s[j].at = 2 /\ s[i].of = s[j].of /\ s[i].of \notin T => i = j
    BY DEF OneCode
<1> HIDE DEF u, h, n, m
<1>4. /\ 1 \in 1 .. n
      /\ \A i \in 1 .. m : i + 1 \in 1 .. n /\ i + 1 # 1
      /\ \A i, j \in 1 .. m : i + 1 = j + 1 => i = j
    BY <1>1
<1>5. \A i \in 1 .. n : i = 1 \/ \E j \in 1 .. m : i = j + 1
    <2>1. SUFFICES ASSUME NEW i \in 1 .. n, i # 1 PROVE \E j \in 1 .. m : i = j + 1
        OBVIOUS
    <2>2. i - 1 \in 1 .. m /\ i = (i - 1) + 1
        BY <1>1, <2>1
    <2> QED
        BY <2>2
<1>6. \A f : f \in CodeOf(h) <=> s[1].at = 2 /\ s[1].of = f
    BY <1>1, Zenon DEF CodeOf
<1>7. \A f : f \in Coded(s) <=> f \in CodeOf(h) \/ f \in Coded(u)
    <2>1. ASSUME NEW f, f \in Coded(s) PROVE f \in CodeOf(h) \/ f \in Coded(u)
        <3>1. PICK i \in 1 .. n : s[i].at = 2 /\ s[i].of = f
            BY <1>2, <2>1, Zenon
        <3>2. CASE i = 1
            BY <1>6, <3>1, <3>2, Zenon
        <3>3. CASE \E j \in 1 .. m : i = j + 1
            <4>1. PICK j \in 1 .. m : i = j + 1
                BY <3>3, Zenon
            <4>2. u[j] = s[i]
                BY <1>1, <4>1
            <4> QED
                BY <1>2, <3>1, <4>1, <4>2, Zenon
        <3> QED
            BY <1>5, <3>1, <3>2, <3>3, Zenon
    <2>2. ASSUME NEW f, f \in CodeOf(h) PROVE f \in Coded(s)
        BY <1>2, <1>4, <1>6, <2>2, Zenon
    <2>3. ASSUME NEW f, f \in Coded(u) PROVE f \in Coded(s)
        <3>1. PICK i \in 1 .. m : u[i].at = 2 /\ u[i].of = f
            BY <1>2, <2>3, Zenon
        <3> DEFINE j == i + 1
        <3>2. j \in 1 .. n /\ u[i] = s[j]
            BY <1>1, <1>4, <3>1
        <3> HIDE DEF j
        <3> QED
            BY <1>2, <3>1, <3>2, Zenon
    <2> QED
        BY <2>1, <2>2, <2>3, Zenon
<1>8. \A f : f \in CodeOf(h) /\ f \in Coded(u) => f \in T
    <2>1. SUFFICES ASSUME NEW f, f \in CodeOf(h), f \in Coded(u), f \notin T PROVE FALSE
        OBVIOUS
    <2>2. s[1].at = 2 /\ s[1].of = f
        BY <1>6, <2>1, Zenon
    <2>3. PICK i \in 1 .. m : u[i].at = 2 /\ u[i].of = f
        BY <1>2, <2>1, Zenon
    <2>4. s[i + 1].at = 2 /\ s[i + 1].of = f
        BY <1>1, <2>3, Zenon
    <2>5. 1 = i + 1
        BY <1>3, <1>4, <2>1, <2>2, <2>3, <2>4, Zenon
    <2> QED
        BY <1>4, <2>3, <2>5, Zenon
<1>9. OneCode(u, T)
    BY <1>1, <1>3, <1>4, Zenon DEF OneCode, m
<1> QED
    BY <1>7, <1>8, <1>9 DEF u, h

LEMMA CodedConcat ==
    ASSUME NEW S, NEW s \in Seq(S), NEW t \in Seq(S), NEW T, OneCode(s, T), OneCode(t, T),
           Coded(s) \cap Coded(t) \subseteq T
    PROVE  /\ Coded(s \o t) = Coded(s) \cup Coded(t)
           /\ OneCode(s \o t, T)
<1> DEFINE u == s \o t
           a == Len(s)
           b == Len(t)
           n == Len(u)
<1>1. /\ a \in Nat /\ b \in Nat /\ u \in Seq(S) /\ n = a + b
      /\ \A i \in 1 .. a + b : u[i] = IF i <= a THEN s[i] ELSE t[i - a]
    BY LenProperties, ConcatProperties
<1>2. /\ \A f : f \in Coded(s) <=> \E i \in 1 .. a : s[i].at = 2 /\ s[i].of = f
      /\ \A f : f \in Coded(t) <=> \E i \in 1 .. b : t[i].at = 2 /\ t[i].of = f
      /\ \A f : f \in Coded(u) <=> \E i \in 1 .. n : u[i].at = 2 /\ u[i].of = f
    BY <1>1, CodedIs
<1>3. /\ \A i, j \in 1 .. a :
            s[i].at = 2 /\ s[j].at = 2 /\ s[i].of = s[j].of /\ s[i].of \notin T => i = j
      /\ \A i, j \in 1 .. b :
            t[i].at = 2 /\ t[j].at = 2 /\ t[i].of = t[j].of /\ t[i].of \notin T => i = j
    BY DEF OneCode
<1> HIDE DEF u, a, b, n
\* Every place of the whole is one of the first part or one of the second.
<1>4. \A k \in 1 .. n : \/ k \in 1 .. a /\ u[k] = s[k]
                        \/ \E i \in 1 .. b : k = a + i /\ u[k] = t[i]
    <2>1. TAKE k \in 1 .. n
    <2>2. k \in 1 .. a + b /\ a \in Nat /\ b \in Nat
        BY <1>1
    <2>3. CASE k <= a
        <3>1. k \in 1 .. a
            BY <2>2, <2>3
        <3>2. u[k] = s[k]
            BY <1>1, <2>2, <2>3, Zenon
        <3> QED
            BY <3>1, <3>2, Zenon
    <2>4. CASE ~(k <= a)
        <3>1. k - a \in 1 .. b /\ k = a + (k - a)
            BY <2>2, <2>4
        <3>2. u[k] = t[k - a]
            BY <1>1, <2>2, <2>4, Zenon
        <3> QED
            BY <3>1, <3>2, Zenon
    <2> QED
        BY <2>3, <2>4, Zenon
<1>5. /\ \A i \in 1 .. a : i \in 1 .. n /\ u[i] = s[i]
      /\ \A i \in 1 .. b : a + i \in 1 .. n /\ u[a + i] = t[i]
    <2>1. ASSUME NEW i \in 1 .. b PROVE a + i \in 1 .. n /\ u[a + i] = t[i]
        <3> DEFINE k == a + i
        <3>1. k \in 1 .. a + b /\ ~(k <= a) /\ k - a = i
            BY <1>1
        <3> HIDE DEF k
        <3>2. k \in 1 .. n /\ u[k] = t[i]
            BY <1>1, <3>1
        <3> QED
            BY <3>2 DEF k
    <2> QED
        BY <1>1, <2>1
<1>6. \A f : f \in Coded(u) <=> f \in Coded(s) \/ f \in Coded(t)
    <2>1. ASSUME NEW f, f \in Coded(u) PROVE f \in Coded(s) \/ f \in Coded(t)
        <3>1. PICK k \in 1 .. n : u[k].at = 2 /\ u[k].of = f
            BY <1>2, <2>1, Zenon
        <3>2. CASE k \in 1 .. a /\ u[k] = s[k]
            BY <1>2, <3>1, <3>2
        <3>3. ASSUME NEW i \in 1 .. b, u[k] = t[i] PROVE f \in Coded(t)
            BY <1>2, <3>1, <3>3
        <3> QED
            BY <1>4, <3>2, <3>3, Zenon
    <2>2. ASSUME NEW f, f \in Coded(s) PROVE f \in Coded(u)
        <3>1. PICK i \in 1 .. a : s[i].at = 2 /\ s[i].of = f
            BY <1>2, <2>2, Zenon
        <3> QED
            BY <1>2, <1>5, <3>1
    <2>3. ASSUME NEW f, f \in Coded(t) PROVE f \in Coded(u)
        <3>1. PICK i \in 1 .. b : t[i].at = 2 /\ t[i].of = f
            BY <1>2, <2>3, Zenon
        <3>2. a + i \in 1 .. n /\ u[a + i] = t[i]
            BY <1>5, Zenon
        <3> DEFINE k == a + i
        <3>3. k \in 1 .. n /\ u[k].at = 2 /\ u[k].of = f
            BY <3>1, <3>2
        <3> HIDE DEF k
        <3> QED
            BY <1>2, <3>3
    <2> QED
        BY <2>1, <2>2, <2>3, Zenon
<1>7. ASSUME NEW k \in 1 .. n, NEW l \in 1 .. n, u[k].at = 2, u[l].at = 2,
             u[k].of = u[l].of, u[k].of \notin T
      PROVE  k = l
    <2>1. CASE (k \in 1 .. a /\ u[k] = s[k]) /\ (l \in 1 .. a /\ u[l] = s[l])
        BY <1>3, <1>7, <2>1, Zenon
    <2>2. CASE /\ \E i \in 1 .. b : k = a + i /\ u[k] = t[i]
               /\ \E i \in 1 .. b : l = a + i /\ u[l] = t[i]
        BY <1>3, <1>7, <2>2, Zenon
    <2>3. ASSUME NEW x \in 1 .. a, NEW y \in 1 .. b, s[x].at = 2, t[y].at = 2,
                 s[x].of = t[y].of, s[x].of \notin T
          PROVE  FALSE
        <3>1. s[x].of \in Coded(s) /\ s[x].of \in Coded(t)
            BY <1>2, <2>3, Zenon
        <3> QED
            BY <2>3, <3>1
    <2>4. CASE /\ k \in 1 .. a /\ u[k] = s[k]
               /\ \E i \in 1 .. b : l = a + i /\ u[l] = t[i]
        BY <1>7, <2>3, <2>4, Zenon
    <2>5. CASE /\ l \in 1 .. a /\ u[l] = s[l]
               /\ \E i \in 1 .. b : k = a + i /\ u[k] = t[i]
        BY <1>7, <2>3, <2>5, Zenon
    <2> QED
        BY <1>4, <2>1, <2>2, <2>4, <2>5, Zenon
<1>8. OneCode(u, T)
    BY <1>7, Zenon DEF OneCode, n
<1> QED
    BY <1>6, <1>8 DEF u

LEMMA CodedAppend ==
    ASSUME NEW S, NEW s \in Seq(S), NEW e \in S, NEW T, OneCode(s, T),
           Coded(s) \cap CodeOf(e) \subseteq T
    PROVE  /\ Coded(Append(s, e)) = Coded(s) \cup CodeOf(e)
           /\ OneCode(Append(s, e), T)
<1> DEFINE t == <<e>>
<1>1. t \in Seq(S) /\ Len(t) = 1 /\ t[1] = e /\ 1 .. 1 = {1}
    OBVIOUS
<1>2. Append(s, e) = s \o t
    BY AppendIsConcat
<1> HIDE DEF t
<1>3. \A f : f \in Coded(t) <=> f \in CodeOf(e)
    <2>1. \A f : f \in Coded(t) <=> \E i \in 1 .. Len(t) : t[i].at = 2 /\ t[i].of = f
        BY <1>1, CodedIs
    <2>2. \A f : f \in Coded(t) <=> e.at = 2 /\ e.of = f
        BY <1>1, <2>1
    <2> QED
        BY <2>2, Zenon DEF CodeOf
<1>4. Coded(t) = CodeOf(e)
    BY <1>3
<1>5. OneCode(t, T)
    BY <1>1 DEF OneCode
<1> QED
    BY <1>1, <1>2, <1>4, <1>5, CodedConcat

\* A reply has one function code, and it is about its frame.
LEMMA ReplyCodedOnce ==
    ASSUME NEW S, NEW r \in Seq(S), NEW frame, NEW code, NEW body, NEW n \in Nat, NEW T,
           Shaped(r, frame, code, n, body)
    PROVE  Coded(r) \subseteq {frame} /\ OneCode(r, T)
<1> DEFINE m == n + 3
<1>1. /\ Len(r) = m
      /\ \A i \in 1 .. m : r[i].of = frame
      /\ \A i \in 1 .. m : r[i].at = i
    BY DEF Shaped
<1> HIDE DEF m
<1>2. \A i \in 1 .. m : r[i].at = 2 => i = 2
    BY <1>1
<1>3. \A f : f \in Coded(r) => f = frame
    <2>1. \A f : f \in Coded(r) <=> \E i \in 1 .. Len(r) : r[i].at = 2 /\ r[i].of = f
        BY CodedIs
    <2> QED
        BY <1>1, <2>1
<1>4. OneCode(r, T)
    BY <1>1, <1>2, Zenon DEF OneCode
<1> QED
    BY <1>3, <1>4

LEMMA CodedAreFrames ==
    ASSUME NEW n \in Nat, NEW s \in Seq(ByteOf(n))
    PROVE  Coded(s) \subseteq 1 .. n
<1>1. Owners(s) \subseteq 1 .. n
    BY OwnersAreFrames
<1>2. Coded(s) \subseteq Owners(s)
    BY Zenon DEF Coded, Owners
<1> QED
    BY <1>1, <1>2

LEMMA SeqRange ==
    ASSUME NEW S, NEW s \in Seq(S)
    PROVE  \A f : f \in Range(s) <=> \E i \in 1 .. Len(s) : s[i] = f
<1>1. DOMAIN s = 1 .. Len(s)
    BY LenProperties
<1> QED
    BY <1>1, Zenon DEF Range

LEMMA RangeTail ==
    ASSUME NEW S, NEW s \in Seq(S), s # <<>>, NEW T,
           \A i, j \in 1 .. Len(s) : s[i] = s[j] /\ s[i] \notin T => i = j
    PROVE  /\ Head(s) \in Range(s) /\ Range(Tail(s)) \subseteq Range(s)
           /\ Head(s) \in Range(Tail(s)) => Head(s) \in T
           /\ \A i, j \in 1 .. Len(Tail(s)) :
                 Tail(s)[i] = Tail(s)[j] /\ Tail(s)[i] \notin T => i = j
<1> DEFINE u == Tail(s)
           h == Head(s)
           n == Len(s)
           m == Len(u)
<1>1. /\ u \in Seq(S) /\ h = s[1] /\ n \in Nat \ {0} /\ m \in Nat /\ n = m + 1
      /\ \A i \in 1 .. m : u[i] = s[i + 1]
    BY HeadTailProperties, EmptySeq, LenProperties
<1>2. /\ \A f : f \in Range(s) <=> \E i \in 1 .. n : s[i] = f
      /\ \A f : f \in Range(u) <=> \E i \in 1 .. m : u[i] = f
    BY <1>1, SeqRange
<1>3. \A i, j \in 1 .. n : s[i] = s[j] /\ s[i] \notin T => i = j
    OBVIOUS
<1> HIDE DEF u, h, n, m
<1>4. /\ 1 \in 1 .. n
      /\ \A i \in 1 .. m : i + 1 \in 1 .. n /\ i + 1 # 1
      /\ \A i, j \in 1 .. m : i + 1 = j + 1 => i = j
    BY <1>1
<1>5. h \in Range(s)
    BY <1>1, <1>2, <1>4, Zenon
<1>6. ASSUME NEW f, f \in Range(u) PROVE f \in Range(s) /\ (f = h => f \in T)
    <2>1. PICK i \in 1 .. m : u[i] = f
        BY <1>2, <1>6, Zenon
    <2> DEFINE j == i + 1
    <2>2. j \in 1 .. n /\ s[j] = f /\ j # 1
        BY <1>1, <1>4, <2>1
    <2> HIDE DEF j
    <2>3. f = h /\ f \notin T => FALSE
        BY <1>1, <1>3, <1>4, <2>2, Zenon
    <2> QED
        BY <1>2, <2>2, <2>3, Zenon
<1>7. \A i, j \in 1 .. m : u[i] = u[j] /\ u[i] \notin T => i = j
    BY <1>1, <1>3, <1>4, Zenon
<1> QED
    BY <1>5, <1>6, <1>7 DEF u, h, m

LEMMA RangeAppend ==
    ASSUME NEW S, NEW s \in Seq(S), NEW e \in S, NEW T, e \in Range(s) => e \in T,
           \A i, j \in 1 .. Len(s) : s[i] = s[j] /\ s[i] \notin T => i = j
    PROVE  /\ Range(Append(s, e)) = Range(s) \cup {e}
           /\ \A i, j \in 1 .. Len(Append(s, e)) :
                 Append(s, e)[i] = Append(s, e)[j] /\ Append(s, e)[i] \notin T => i = j
<1> DEFINE u == Append(s, e)
           n == Len(s)
           m == Len(u)
<1>1. /\ u \in Seq(S) /\ n \in Nat /\ m = n + 1
      /\ \A i \in 1 .. n : u[i] = s[i]
      /\ u[m] = e
    BY AppendProperties, LenProperties
<1>2. /\ \A f : f \in Range(s) <=> \E i \in 1 .. n : s[i] = f
      /\ \A f : f \in Range(u) <=> \E i \in 1 .. m : u[i] = f
    BY <1>1, SeqRange
<1>3. \A i, j \in 1 .. n : s[i] = s[j] /\ s[i] \notin T => i = j
    OBVIOUS
<1> HIDE DEF u, n, m
<1>4. /\ \A i \in 1 .. m : i \in 1 .. n \/ i = m
      /\ \A i \in 1 .. n : i \in 1 .. m
      /\ m \in 1 .. m
    BY <1>1
<1>5. \A f : f \in Range(u) <=> f \in Range(s) \/ f = e
    BY <1>1, <1>2, <1>4, Zenon
<1>6. \A i \in 1 .. n : s[i] = e => e \in T
    BY <1>2, Zenon
<1>7. ASSUME NEW i \in 1 .. m, NEW j \in 1 .. m, u[i] = u[j], u[i] \notin T
      PROVE  i = j
    <2>1. CASE i \in 1 .. n /\ j \in 1 .. n
        BY <1>1, <1>3, <1>7, <2>1, Zenon
    <2>2. CASE i = m /\ j = m
        BY <2>2
    <2>3. CASE i \in 1 .. n /\ j = m
        BY <1>1, <1>6, <1>7, <2>3, Zenon
    <2>4. CASE j \in 1 .. n /\ i = m
        BY <1>1, <1>6, <1>7, <2>4, Zenon
    <2> QED
        BY <1>4, <2>1, <2>2, <2>3, <2>4, Zenon
<1> QED
    BY <1>5, <1>7 DEF u, m

LEMMA OnceInit == Init => OnceInv
<1> SUFFICES ASSUME Init PROVE OnceInv
    OBVIOUS
<1>1. Read = <<>> /\ fifo = <<>> /\ wire = <<>> /\ inbox = <<>> /\ moving = 0
    BY DEF Init, Read
<1>2. CodesOnce /\ Coded(Read) = {} /\ Coded(fifo) = {} /\ Coded(wire) = {}
    BY <1>1, NoneCoded DEF CodesOnce
<1>3. Len(inbox) = 0 /\ Range(inbox) = {}
    BY <1>1 DEF Range
<1>4. InboxOnce
    BY <1>3 DEF InboxOnce
<1> QED
    BY <1>1, <1>2, <1>3, <1>4 DEF OnceInv, OnePlace, MovesMove

LEMMA LinkPlaces ==
    ASSUME LinkInv
    PROVE  /\ Len(sent) \in Nat
           /\ Read \in Seq(ByteOf(Len(sent))) /\ fifo \in Seq(ByteOf(Len(sent)))
           /\ wire \in Seq(ByteOf(Len(sent))) /\ inbox \in Seq(1 .. Len(sent))
           /\ Coded(fifo) \cup Coded(wire) \cup Range(inbox) \subseteq 1 .. Len(sent)
<1>1. /\ Len(sent) \in Nat
      /\ got \in Seq(ByteOf(Len(sent))) /\ fifo \in Seq(ByteOf(Len(sent)))
      /\ wire \in Seq(ByteOf(Len(sent))) /\ inbox \in Seq(1 .. Len(sent))
    BY LenProperties DEF LinkInv, Frames, Line
<1>2. Read \in Seq(ByteOf(Len(sent)))
    BY <1>1, EmptySeq DEF Read
<1>3. Coded(fifo) \subseteq 1 .. Len(sent) /\ Coded(wire) \subseteq 1 .. Len(sent)
    BY <1>1, CodedAreFrames
<1>4. Range(inbox) \subseteq 1 .. Len(sent)
    <2>1. SUFFICES ASSUME NEW f, f \in Range(inbox) PROVE f \in 1 .. Len(sent)
        OBVIOUS
    <2>2. PICK i \in 1 .. Len(inbox) : inbox[i] = f
        BY <1>1, <2>1, SeqRange
    <2> QED
        BY <1>1, <2>2, ElementOfSeq
<1> QED
    BY <1>1, <1>2, <1>3, <1>4

\* A frame more.
LEMMA OnceBegin ==
    ASSUME LinkInv, OnceInv, NEW code \in Codes, Len(sent) < MaxFrames, pc = "idle",
           sent' = Append(sent, code), pc' \in {"sending", "writing"}, fifo' \in {fifo, <<>>},
           UNCHANGED <<wire, inbox, moving>>
    PROVE  OnceInv'
<1>1. /\ Len(sent) \in Nat /\ Len(sent') = Len(sent) + 1
      /\ \A i \in 1 .. Len(sent) : i \in 1 .. Len(sent') /\ sent'[i] = sent[i]
      /\ Len(sent') \notin 1 .. Len(sent)
    <2>1. sent \in Seq(Codes) /\ Len(sent) \in Nat
        BY LenProperties DEF LinkInv, Frames
    <2>2. Len(sent') = Len(sent) + 1 /\ \A i \in 1 .. Len(sent) : sent'[i] = sent[i]
        BY <2>1, AppendProperties
    <2> QED
        BY <2>1, <2>2
<1>2. Repeated \subseteq Repeated'
    BY <1>1 DEF Repeated
<1>3. Read' = <<>>
    BY DEF Read
<1>4. /\ OneCode(Read', Repeated') /\ Coded(Read') = {}
      /\ OneCode(fifo', Repeated') /\ Coded(fifo') \subseteq Coded(fifo)
      /\ OneCode(wire', Repeated')
    <2>1. OneCode(Read', Repeated') /\ Coded(Read') = {}
        BY <1>3, NoneCoded
    <2>2. OneCode(wire', Repeated')
        BY <1>2, OneCodeMore DEF OnceInv, CodesOnce
    <2>3. CASE fifo' = fifo
        <3>1. OneCode(fifo', Repeated')
            BY <1>2, <2>3, OneCodeMore DEF OnceInv, CodesOnce
        <3> QED
            BY <2>1, <2>2, <2>3, <3>1
    <2>4. CASE fifo' = <<>>
        BY <2>1, <2>2, <2>4, NoneCoded
    <2> QED
        BY <2>3, <2>4
<1>5. InboxOnce'
    BY <1>2, Zenon DEF OnceInv, InboxOnce
<1>6. Leaving' = {Len(sent')}
    BY DEF Leaving
<1>7. OnePlace'
    <2> DEFINE T == Repeated
               U == Repeated'
               F == Coded(fifo)
               G == Coded(fifo')
               W == Coded(wire)
               B == Range(inbox)
    <2>1. F \cap W \subseteq T /\ (F \cup W) \cap B \subseteq T
        BY DEF OnceInv, OnePlace
    <2>2. G \subseteq F /\ T \subseteq U
        BY <1>2, <1>4
    <2>3. F \cup W \cup B \subseteq 1 .. Len(sent)
        BY LinkPlaces
    <2> HIDE DEF T, U, F, G, W, B
    <2>4. /\ {} \cap G \subseteq U /\ ({} \cup G) \cap W \subseteq U
          /\ ({} \cup G \cup W) \cap B \subseteq U
          /\ ({} \cup G \cup W \cup B) \cap {Len(sent')} \subseteq U
        BY <1>1, <2>1, <2>2, <2>3
    <2> QED
        BY <1>4, <1>6, <2>4 DEF OnePlace, U, G, W, B
<1>8. MovesMove'
    BY <1>1 DEF OnceInv, MovesMove
<1> QED
    BY <1>4, <1>5, <1>7, <1>8 DEF OnceInv, CodesOnce

\* No byte and no frame has come to a new place.
LEMMA OnceFewer ==
    ASSUME OnceInv, sent' = sent, moving' \in {moving, 0}, InboxOnce', CodesOnce',
           Coded(Read') \subseteq Coded(Read), Coded(fifo') \subseteq Coded(fifo),
           Coded(wire') \subseteq Coded(wire), Range(inbox') \subseteq Range(inbox),
           Leaving' \subseteq Leaving
    PROVE  OnceInv'
<1>1. Repeated' = Repeated
    BY DEF Repeated
<1>2. OnePlace'
    BY <1>1 DEF OnceInv, OnePlace
<1>3. MovesMove'
    BY DEF OnceInv, MovesMove
<1> QED
    BY <1>2, <1>3 DEF OnceInv

\* What the motor sends about a frame.
LEMMA ReplyCoded ==
    ASSUME LinkInv, NEW frame \in 1 .. Len(sent), NEW T
    PROVE  /\ \A body \in Bodies(sent[frame]) :
                  /\ ReplyTo(frame, body) \in Seq(ByteOf(Len(sent)))
                  /\ Coded(ReplyTo(frame, body)) \subseteq {frame}
                  /\ OneCode(ReplyTo(frame, body), T)
           /\ sent[frame] \in Actions =>
                  /\ ReplyTo(frame, <<159>>) \in Seq(ByteOf(Len(sent)))
                  /\ Coded(ReplyTo(frame, <<159>>)) \subseteq {frame}
                  /\ OneCode(ReplyTo(frame, <<159>>), T)
<1> DEFINE code == sent[frame]
           F == 1 .. Len(sent)
<1>1. code \in Codes
    BY ElementOfSeq DEF LinkInv, Frames
<1>2. \A m, b : /\ m \in 1 .. 5 /\ b \in [1 .. m -> 0 .. 255]
                => /\ ReplyTo(frame, b) \in Seq(BytesOf(F))
                   /\ Shaped(ReplyTo(frame, b), frame, code, m, b)
    BY <1>1, ReplyShape, SomeBytes
<1>3. \A r, m, b : /\ r \in Seq(BytesOf(F)) /\ m \in Nat
                   /\ Shaped(r, frame, code, m, b)
                   => Coded(r) \subseteq {frame} /\ OneCode(r, T)
    BY ReplyCodedOnce
<1>4. ASSUME NEW m \in 1 .. 5, NEW b \in [1 .. m -> 0 .. 255]
      PROVE  /\ ReplyTo(frame, b) \in Seq(BytesOf(F))
             /\ Coded(ReplyTo(frame, b)) \subseteq {frame}
             /\ OneCode(ReplyTo(frame, b), T)
    <2> DEFINE r == ReplyTo(frame, b)
    <2>1. m \in Nat
        OBVIOUS
    <2>2. r \in Seq(BytesOf(F)) /\ Shaped(r, frame, code, m, b)
        BY <1>2, Zenon
    <2> HIDE DEF r, F, code
    <2>3. Coded(r) \subseteq {frame} /\ OneCode(r, T)
        BY <1>3, <1>4, <2>1, <2>2, Zenon
    <2> QED
        BY <2>2, <2>3 DEF r
<1>5. ASSUME NEW body \in Bodies(code)
      PROVE  /\ ReplyTo(frame, body) \in Seq(BytesOf(F))
             /\ Coded(ReplyTo(frame, body)) \subseteq {frame}
             /\ OneCode(ReplyTo(frame, body), T)
    <2> DEFINE n == ReplyLen[code] - 3
    <2>1. n \in 1 .. 5 /\ body \in [1 .. n -> 0 .. 255]
        BY <1>1, BodyTypes
    <2> HIDE DEF n
    <2> QED
        BY <1>4, <2>1
<1>6. /\ ReplyTo(frame, <<159>>) \in Seq(BytesOf(F))
      /\ Coded(ReplyTo(frame, <<159>>)) \subseteq {frame}
      /\ OneCode(ReplyTo(frame, <<159>>), T)
    <2> DEFINE body == <<159>>
    <2>1. body \in [1 .. 1 -> 0 .. 255] /\ 1 \in 1 .. 5
        OBVIOUS
    <2> HIDE DEF body, F
    <2>2. /\ ReplyTo(frame, body) \in Seq(BytesOf(F))
          /\ Coded(ReplyTo(frame, body)) \subseteq {frame}
          /\ OneCode(ReplyTo(frame, body), T)
        BY <1>4, <2>1
    <2> QED
        BY <2>2 DEF body
<1> QED
    BY <1>5, <1>6 DEF ByteOf

LEMMA OnceStep ==
    ASSUME LinkInv, OnceInv, [Next]_vars
    PROVE  OnceInv'
<1> DEFINE S == ByteOf(Len(sent))
<1>0. /\ Read \in Seq(S) /\ fifo \in Seq(S) /\ wire \in Seq(S)
      /\ inbox \in Seq(1 .. Len(sent)) /\ Len(sent) \in Nat
    BY LinkPlaces
<1>1. ASSUME NEW code \in Codes, StartCall(code) PROVE OnceInv'
    BY <1>1, OnceBegin DEF StartCall, motor
<1>2. ASSUME NEW code \in Actions, StartNoReply(code) PROVE OnceInv'
    <2>1. code \in Codes
        BY DEF Codes
    <2> QED
        BY <1>2, <2>1, OnceBegin DEF StartNoReply, motor
<1>3. ASSUME RejectCall \/ zdt_emm_clear_rx \/ Timeout PROVE OnceInv'
    <2>1. /\ pc \in {"idle", "reading"} /\ pc' = "idle" /\ fifo' \in {fifo, <<>>}
          /\ sent' = sent /\ wire' = wire /\ inbox' = inbox /\ moving' = moving
        BY <1>3 DEF RejectCall, zdt_emm_clear_rx, Timeout, driver, motor
    <2>2. Read' = <<>> /\ Repeated' = Repeated /\ Leaving' = {}
        BY <2>1 DEF Read, Repeated, Leaving
    <2>3. OneCode(<<>>, Repeated) /\ Coded(<<>>) = {}
        BY NoneCoded
    <2>4. OneCode(fifo', Repeated) /\ Coded(fifo') \subseteq Coded(fifo)
        <3>1. CASE fifo' = fifo
            BY <3>1 DEF OnceInv, CodesOnce
        <3>2. CASE fifo' = <<>>
            BY <2>3, <3>2
        <3> QED
            BY <2>1, <3>1, <3>2
    <2>5. CodesOnce'
        BY <2>1, <2>2, <2>3, <2>4 DEF OnceInv, CodesOnce
    <2>6. InboxOnce'
        BY <2>1, <2>2 DEF OnceInv, InboxOnce
    <2> QED
        BY <2>1, <2>2, <2>3, <2>4, <2>5, <2>6, OnceFewer
<1>4. CASE zdt_emm_send_frame
    <2>1. /\ pc \in {"sending", "writing"} /\ pc' \in {"reading", "idle"}
          /\ pc' = "reading" => pc = "sending"
          /\ inbox' = Append(inbox, Len(sent))
          /\ UNCHANGED <<got, fifo, wire, moving, sent>>
        BY <1>4 DEF zdt_emm_send_frame
    <2>2. Read = <<>> /\ Read' = <<>> /\ Repeated' = Repeated
        BY <2>1 DEF Read, Repeated, LinkInv, Stages
    <2>3. Leaving = {Len(sent)} /\ Leaving' = {}
        BY <2>1 DEF Leaving
    <2>4. Len(sent) \in 1 .. Len(sent)
        BY <1>0, <2>1 DEF LinkInv, Stages, Frames
    <2>5. /\ Range(inbox') = Range(inbox) \cup {Len(sent)}
          /\ \A i, j \in 1 .. Len(inbox') :
                inbox'[i] = inbox'[j] /\ inbox'[i] \notin Repeated => i = j
        <3>1. Len(sent) \in Range(inbox) => Len(sent) \in Repeated
            BY <2>3 DEF OnceInv, OnePlace
        <3>2. \A i, j \in 1 .. Len(inbox) :
                inbox[i] = inbox[j] /\ inbox[i] \notin Repeated => i = j
            BY DEF OnceInv, InboxOnce
        <3> DEFINE I == 1 .. Len(sent)
                   n == Len(sent)
        <3>3. inbox \in Seq(I) /\ n \in I /\ inbox' = Append(inbox, n)
            BY <1>0, <2>1, <2>4
        <3> HIDE DEF I, n
        <3>4. n \in Range(inbox) => n \in Repeated
            BY <3>1 DEF n
        <3>5. /\ Range(inbox') = Range(inbox) \cup {n}
              /\ \A i, j \in 1 .. Len(inbox') :
                    inbox'[i] = inbox'[j] /\ inbox'[i] \notin Repeated => i = j
            BY <3>2, <3>3, <3>4, RangeAppend
        <3> QED
            BY <3>5 DEF n
    <2>6. InboxOnce'
        BY <2>2, <2>5 DEF InboxOnce
    <2>7. CodesOnce'
        BY <2>1, <2>2 DEF OnceInv, CodesOnce
    <2>8. OnePlace'
        <3> DEFINE C == Coded(Read)
                   F == Coded(fifo)
                   W == Coded(wire)
        <3>1. Coded(Read') = C /\ Coded(fifo') = F /\ Coded(wire') = W
            BY <2>1, <2>2
        <3>2. /\ C \cap F \subseteq Repeated /\ (C \cup F) \cap W \subseteq Repeated
              /\ (C \cup F \cup W) \cap Range(inbox) \subseteq Repeated
              /\ (C \cup F \cup W \cup Range(inbox)) \cap {Len(sent)} \subseteq Repeated
            BY <2>3 DEF OnceInv, OnePlace
        <3> HIDE DEF C, F, W
        <3> QED
            BY <2>2, <2>3, <2>5, <3>1, <3>2 DEF OnePlace
    <2>9. MovesMove'
        BY <2>1 DEF OnceInv, MovesMove
    <2> QED
        BY <2>6, <2>7, <2>8, <2>9 DEF OnceInv
<1>5. CASE zdt_emm_read
    <2>1. /\ pc = "reading" /\ pc' \in {"reading", "idle"} /\ fifo # <<>>
          /\ got' = Append(got, Head(fifo)) /\ fifo' = Tail(fifo)
          /\ UNCHANGED <<inbox, wire, moving, sent>>
        BY <1>5, Zenon DEF zdt_emm_read, motor
    <2>2. Read = got /\ Repeated' = Repeated /\ Leaving = {} /\ Leaving' = {}
        BY <2>1 DEF Read, Repeated, Leaving
    <2> DEFINE C == Coded(Read)
               F == Coded(fifo)
               W == Coded(wire)
               H == CodeOf(Head(fifo))
    <2>3. /\ C \cap F \subseteq Repeated /\ (C \cup F) \cap W \subseteq Repeated
          /\ (C \cup F \cup W) \cap Range(inbox) \subseteq Repeated
        BY DEF OnceInv, OnePlace
    <2>4. /\ F = H \cup Coded(fifo') /\ H \cap Coded(fifo') \subseteq Repeated
          /\ OneCode(fifo', Repeated)
        BY <1>0, <2>1, CodedTail DEF OnceInv, CodesOnce
    <2>5. C \cap H \subseteq Repeated
        BY <2>3, <2>4
    <2>6. Head(fifo) \in S
        BY <1>0, <2>1, HeadTailProperties
    <2>7. Coded(got') = C \cup H /\ OneCode(got', Repeated)
        BY <1>0, <2>1, <2>2, <2>5, <2>6, CodedAppend DEF OnceInv, CodesOnce
    <2>8. Coded(Read') \subseteq C \cup H /\ OneCode(Read', Repeated)
        <3>1. CASE pc' = "reading"
            <4>1. Read' = got'
                BY <3>1 DEF Read
            <4> QED
                BY <2>7, <4>1
        <3>2. CASE pc' = "idle"
            <4>1. Read' = <<>>
                BY <3>2 DEF Read
            <4> QED
                BY <4>1, NoneCoded
        <3> QED
            BY <2>1, <3>1, <3>2
    <2>9. CodesOnce'
        BY <2>1, <2>2, <2>4, <2>8 DEF OnceInv, CodesOnce
    <2>10. OnePlace'
        <3>1. Coded(wire') = W
            BY <2>1
        <3> HIDE DEF C, F, W, H
        <3> QED
            BY <2>1, <2>2, <2>3, <2>4, <2>5, <2>8, <3>1 DEF OnePlace
    <2>11. InboxOnce' /\ MovesMove'
        BY <2>1, <2>2 DEF OnceInv, InboxOnce, MovesMove
    <2> QED
        BY <2>9, <2>10, <2>11 DEF OnceInv
<1>6. CASE Answer
    <2>1. PICK body \in Bodies(sent[Head(inbox)]) :
              /\ wire' = wire \o ReplyTo(Head(inbox), body)
              /\ moving' = IF sent[Head(inbox)] \in Moves /\ body[1] = 2
                              THEN Head(inbox) ELSE moving
        BY <1>6, Zenon DEF Answer
    <2>2. /\ inbox # <<>> /\ inbox' = Tail(inbox)
          /\ UNCHANGED <<pc, got, fifo, sent>>
        BY <1>6, Zenon DEF Answer, driver
    <2> DEFINE f == Head(inbox)
               r == ReplyTo(f, body)
    <2>3. f \in 1 .. Len(sent) /\ sent[f] \in Codes
        <3>1. f \in 1 .. Len(sent)
            BY <1>0, <2>2, HeadTailProperties
        <3> QED
            BY <3>1, ElementOfSeq DEF LinkInv, Frames
    <2>4. r \in Seq(S) /\ Coded(r) \subseteq {f} /\ OneCode(r, Repeated)
        BY <2>3, ReplyCoded
    <2>5. /\ f \in Range(inbox) /\ Range(inbox') \subseteq Range(inbox)
          /\ f \in Range(inbox') => f \in Repeated
          /\ \A i, j \in 1 .. Len(inbox') :
                inbox'[i] = inbox'[j] /\ inbox'[i] \notin Repeated => i = j
        <3>1. \A i, j \in 1 .. Len(inbox) :
                inbox[i] = inbox[j] /\ inbox[i] \notin Repeated => i = j
            BY DEF OnceInv, InboxOnce
        <3> QED
            BY <1>0, <2>2, <3>1, RangeTail
    <2>6. Read' = Read /\ Repeated' = Repeated /\ Leaving' = Leaving
        BY <2>2 DEF Read, Repeated, Leaving
    <2> DEFINE C == Coded(Read)
               F == Coded(fifo)
               W == Coded(wire)
    <2>7. /\ C \cap F \subseteq Repeated /\ (C \cup F) \cap W \subseteq Repeated
          /\ (C \cup F \cup W) \cap Range(inbox) \subseteq Repeated
          /\ (C \cup F \cup W \cup Range(inbox)) \cap Leaving \subseteq Repeated
        BY DEF OnceInv, OnePlace
    <2> HIDE DEF r, f
    <2>8. W \cap Coded(r) \subseteq Repeated
        BY <2>4, <2>5, <2>7
    <2>9. wire' = wire \o r
        BY <2>1 DEF r, f
    <2>10. Coded(wire') \subseteq W \cup {f} /\ OneCode(wire', Repeated)
        BY <1>0, <2>4, <2>8, <2>9, CodedConcat DEF OnceInv, CodesOnce
    <2>11. CodesOnce'
        BY <2>2, <2>6, <2>10 DEF OnceInv, CodesOnce
    <2>12. OnePlace'
        <3>1. Coded(Read') = C /\ Coded(fifo') = F
            BY <2>2, <2>6
        <3> HIDE DEF C, F, W
        <3> QED
            BY <2>5, <2>6, <2>7, <2>10, <3>1 DEF OnePlace
    <2>13. InboxOnce'
        BY <2>5, <2>6 DEF InboxOnce
    <2>14. MovesMove'
        BY <2>1, <2>2, <2>3 DEF OnceInv, MovesMove, f
    <2> QED
        BY <2>11, <2>12, <2>13, <2>14 DEF OnceInv
<1>7. CASE Ignore
    <2>1. /\ inbox # <<>> /\ inbox' = Tail(inbox)
          /\ UNCHANGED <<pc, got, fifo, wire, moving, sent>>
        BY <1>7 DEF Ignore, driver
    <2>2. /\ Range(inbox') \subseteq Range(inbox)
          /\ \A i, j \in 1 .. Len(inbox') :
                inbox'[i] = inbox'[j] /\ inbox'[i] \notin Repeated => i = j
        <3>1. \A i, j \in 1 .. Len(inbox) :
                inbox[i] = inbox[j] /\ inbox[i] \notin Repeated => i = j
            BY DEF OnceInv, InboxOnce
        <3> QED
            BY <1>0, <2>1, <3>1, RangeTail
    <2>3. Read' = Read /\ Repeated' = Repeated /\ Leaving' = Leaving
        BY <2>1 DEF Read, Repeated, Leaving
    <2>4. InboxOnce' /\ CodesOnce'
        BY <2>1, <2>2, <2>3 DEF OnceInv, InboxOnce, CodesOnce
    <2> QED
        BY <2>1, <2>2, <2>3, <2>4, OnceFewer
<1>8. CASE Arrive
    <2>1. /\ moving # 0 /\ moving' = 0
          /\ wire' = IF ReportsDone THEN wire \o ReplyTo(moving, <<159>>) ELSE wire
          /\ UNCHANGED <<pc, got, fifo, inbox, sent>>
        BY <1>8 DEF Arrive, driver
    <2>2. Read' = Read /\ Repeated' = Repeated /\ Leaving' = Leaving
        BY <2>1 DEF Read, Repeated, Leaving
    <2>3. moving \in 1 .. Len(sent) /\ sent[moving] \in Actions /\ sent[moving] \in Moves
        BY <2>1, StepMotorAssumption DEF OnceInv, MovesMove
    <2>4. CASE ~ReportsDone
        <3>1. wire' = wire
            BY <2>1, <2>4
        <3>2. InboxOnce' /\ CodesOnce'
            BY <2>1, <2>2, <3>1 DEF OnceInv, InboxOnce, CodesOnce
        <3> QED
            BY <2>1, <2>2, <3>1, <3>2, OnceFewer
    <2>5. CASE ReportsDone
        <3> DEFINE r == ReplyTo(moving, <<159>>)
        <3>1. moving \in Repeated
            BY <2>3, <2>5 DEF Repeated, AnsweredTwice
        <3>2. r \in Seq(S) /\ Coded(r) \subseteq {moving} /\ OneCode(r, Repeated)
            BY <2>3, ReplyCoded
        <3> DEFINE W == Coded(wire)
        <3> HIDE DEF r
        <3>3. W \cap Coded(r) \subseteq Repeated
            BY <3>1, <3>2
        <3>4. wire' = wire \o r
            BY <2>1, <2>5 DEF r
        <3>5. Coded(wire') \subseteq W \cup Repeated /\ OneCode(wire', Repeated)
            BY <1>0, <3>1, <3>2, <3>3, <3>4, CodedConcat DEF OnceInv, CodesOnce
        <3>6. CodesOnce'
            BY <2>1, <2>2, <3>5 DEF OnceInv, CodesOnce
        <3>7. OnePlace'
            <4> DEFINE C == Coded(Read)
                       F == Coded(fifo)
            <4>1. Coded(Read') = C /\ Coded(fifo') = F /\ Range(inbox') = Range(inbox)
                BY <2>1, <2>2
            <4>2. /\ C \cap F \subseteq Repeated /\ (C \cup F) \cap W \subseteq Repeated
                  /\ (C \cup F \cup W) \cap Range(inbox) \subseteq Repeated
                  /\ (C \cup F \cup W \cup Range(inbox)) \cap Leaving \subseteq Repeated
                BY DEF OnceInv, OnePlace
            <4> HIDE DEF C, F, W
            <4> QED
                BY <2>2, <3>5, <4>1, <4>2 DEF OnePlace
        <3>8. InboxOnce' /\ MovesMove'
            BY <2>1, <2>2 DEF OnceInv, InboxOnce, MovesMove
        <3> QED
            BY <3>6, <3>7, <3>8 DEF OnceInv
    <2> QED
        BY <2>4, <2>5
<1>9. CASE Deliver
    <2>1. /\ wire # <<>> /\ wire' = Tail(wire)
          /\ fifo' \in {fifo, Append(fifo, Head(wire))}
          /\ UNCHANGED <<pc, got, inbox, moving, sent>>
        BY <1>9 DEF Deliver, driver
    <2>2. Read' = Read /\ Repeated' = Repeated /\ Leaving' = Leaving
        BY <2>1 DEF Read, Repeated, Leaving
    <2> DEFINE C == Coded(Read)
               F == Coded(fifo)
               W == Coded(wire)
               H == CodeOf(Head(wire))
    <2>3. /\ C \cap F \subseteq Repeated /\ (C \cup F) \cap W \subseteq Repeated
          /\ (C \cup F \cup W) \cap Range(inbox) \subseteq Repeated
          /\ (C \cup F \cup W \cup Range(inbox)) \cap Leaving \subseteq Repeated
        BY DEF OnceInv, OnePlace
    <2>4. /\ W = H \cup Coded(wire') /\ H \cap Coded(wire') \subseteq Repeated
          /\ OneCode(wire', Repeated)
        BY <1>0, <2>1, CodedTail DEF OnceInv, CodesOnce
    <2>5. F \cap H \subseteq Repeated
        BY <2>3, <2>4
    <2>6. Head(wire) \in S
        BY <1>0, <2>1, HeadTailProperties
    <2>7. Coded(fifo') \subseteq F \cup H /\ OneCode(fifo', Repeated)
        <3>1. CASE fifo' = fifo
            BY <3>1 DEF OnceInv, CodesOnce
        <3>2. CASE fifo' = Append(fifo, Head(wire))
            BY <1>0, <2>5, <2>6, <3>2, CodedAppend DEF OnceInv, CodesOnce
        <3> QED
            BY <2>1, <3>1, <3>2
    <2>8. CodesOnce'
        BY <2>2, <2>4, <2>7 DEF OnceInv, CodesOnce
    <2>9. OnePlace'
        <3>1. Coded(Read') = C /\ Range(inbox') = Range(inbox)
            BY <2>1, <2>2
        <3> HIDE DEF C, F, W, H
        <3> QED
            BY <2>2, <2>3, <2>4, <2>5, <2>7, <3>1 DEF OnePlace
    <2>10. InboxOnce' /\ MovesMove'
        BY <2>1, <2>2 DEF OnceInv, InboxOnce, MovesMove
    <2> QED
        BY <2>8, <2>9, <2>10 DEF OnceInv
<1>10. CASE UNCHANGED vars
    BY <1>10 DEF vars, driver, motor, OnceInv, InboxOnce, CodesOnce, OnePlace, MovesMove,
             Read, Repeated, Leaving
<1> QED
    BY <1>1, <1>2, <1>3, <1>4, <1>5, <1>6, <1>7, <1>8, <1>9, <1>10
    DEF Next, Call, ActionCall, ReadCall, NoReplyCall, Progress, Codes

LEMMA CodedParts ==
    ASSUME NEW S, NEW s \in Seq(S), NEW t \in Seq(S)
    PROVE  /\ Coded(s \o t) = Coded(s) \cup Coded(t)
           /\ s # <<>> => Coded(s) = CodeOf(Head(s)) \cup Coded(Tail(s))
           /\ \A e \in S : Coded(Append(s, e)) = Coded(s) \cup CodeOf(e)
<1> DEFINE T == Coded(s) \cup Coded(t)
<1>1. /\ \A f : f \in Coded(s) <=> \E i \in 1 .. Len(s) : s[i].at = 2 /\ s[i].of = f
      /\ \A f : f \in Coded(t) <=> \E i \in 1 .. Len(t) : t[i].at = 2 /\ t[i].of = f
    BY CodedIs
<1>2. OneCode(s, Coded(s)) /\ OneCode(t, Coded(t))
    BY <1>1, Zenon DEF OneCode
<1>3. Coded(s) \subseteq T /\ Coded(t) \subseteq T /\ Coded(s) \cap Coded(t) \subseteq T
    OBVIOUS
<1>4. OneCode(s, T) /\ OneCode(t, T)
    BY <1>2, <1>3, OneCodeMore
<1> HIDE DEF T
<1>5. ASSUME NEW e \in S PROVE Coded(Append(s, e)) = Coded(s) \cup CodeOf(e)
    <2> DEFINE U == Coded(s) \cup CodeOf(e)
    <2>1. Coded(s) \subseteq U /\ Coded(s) \cap CodeOf(e) \subseteq U
        OBVIOUS
    <2>2. OneCode(s, U)
        BY <1>2, <2>1, OneCodeMore
    <2> HIDE DEF U
    <2> QED
        BY <2>1, <2>2, CodedAppend
<1> QED
    BY <1>3, <1>4, <1>5, CodedConcat, CodedTail

\* The motor and the line bring no answer that was not to come.
LEMMA MotorKeepsDue ==
    ASSUME LinkInv, OnceInv, Answer \/ Ignore \/ Arrive \/ Deliver,
           UNCHANGED <<pc, got, sent>>
    PROVE  Due' \subseteq Due
<1> DEFINE S == ByteOf(Len(sent))
           F == Coded(fifo)
           W == Coded(wire)
           M == IF ReportsDone THEN {moving} \ {0} ELSE {}
           L == IF pc \in {"sending", "writing"} THEN {Len(sent)} ELSE {}
<1>1. /\ fifo \in Seq(S) /\ wire \in Seq(S) /\ inbox \in Seq(1 .. Len(sent)) /\ Len(sent) \in Nat
      /\ Coded(Read') = Coded(Read) /\ L' = L
    <2>1. Read' = Read
        BY DEF Read
    <2> QED
        BY <2>1, LinkPlaces
<1>2. SUFFICES F' \cup W' \cup Range(inbox') \cup M' \subseteq F \cup W \cup Range(inbox) \cup M
    BY <1>1 DEF Due
<1>3. inbox # <<>> => Head(inbox) \in Range(inbox) /\ Range(Tail(inbox)) \subseteq Range(inbox)
    <2>1. \A i, j \in 1 .. Len(inbox) :
              inbox[i] = inbox[j] /\ inbox[i] \notin Repeated => i = j
        BY DEF OnceInv, InboxOnce
    <2> QED
        BY <1>1, <2>1, RangeTail
<1>4. CASE Answer
    <2>1. PICK body \in Bodies(sent[Head(inbox)]) :
              /\ wire' = wire \o ReplyTo(Head(inbox), body)
              /\ moving' = IF sent[Head(inbox)] \in Moves /\ body[1] = 2
                              THEN Head(inbox) ELSE moving
        BY <1>4, Zenon DEF Answer
    <2>2. inbox # <<>> /\ inbox' = Tail(inbox) /\ fifo' = fifo
        BY <1>4, Zenon DEF Answer
    <2> DEFINE f == Head(inbox)
               r == ReplyTo(f, body)
    <2>3. f \in 1 .. Len(sent)
        BY <1>1, <2>2, HeadTailProperties
    <2>4. r \in Seq(S) /\ Coded(r) \subseteq {f}
        BY <2>3, ReplyCoded
    <2>5. wire' = wire \o r /\ moving' \in {f, moving}
        BY <2>1
    <2>6. f \in Range(inbox) /\ Range(inbox') \subseteq Range(inbox)
        BY <1>3, <2>2
    <2> HIDE DEF r, f, S
    <2>7. W' = W \cup Coded(r)
        BY <1>1, <2>4, <2>5, CodedParts
    <2>8. F' = F
        BY <2>2
    <2>9. M' \subseteq M \cup {f}
        BY <2>5
    <2> HIDE DEF F, W, M
    <2> QED
        BY <2>4, <2>6, <2>7, <2>8, <2>9
<1>5. CASE Ignore
    <2>1. inbox # <<>> /\ inbox' = Tail(inbox) /\ UNCHANGED <<fifo, wire, moving>>
        BY <1>5 DEF Ignore
    <2> QED
        BY <1>3, <2>1
<1>6. CASE Arrive
    <2>1. /\ moving # 0 /\ moving' = 0
          /\ wire' = IF ReportsDone THEN wire \o ReplyTo(moving, <<159>>) ELSE wire
          /\ UNCHANGED <<fifo, inbox>>
        BY <1>6 DEF Arrive, driver
    <2>2. F' = F /\ M' = {}
        BY <2>1
    <2>3. CASE ~ReportsDone
        <3>1. W' = W
            BY <2>1, <2>3
        <3> QED
            BY <2>1, <2>2, <3>1
    <2>4. CASE ReportsDone
        <3> DEFINE r == ReplyTo(moving, <<159>>)
        <3>1. moving \in 1 .. Len(sent) /\ sent[moving] \in Actions
            BY <2>1, StepMotorAssumption DEF OnceInv, MovesMove
        <3>2. r \in Seq(S) /\ Coded(r) \subseteq {moving}
            BY <3>1, ReplyCoded
        <3>3. wire' = wire \o r
            BY <2>1, <2>4
        <3> HIDE DEF r, S
        <3>4. W' = W \cup Coded(r)
            BY <1>1, <3>2, <3>3, CodedParts
        <3>5. M = {moving}
            BY <2>1, <2>4
        <3> HIDE DEF F, W, M
        <3> QED
            BY <2>1, <2>2, <3>2, <3>4, <3>5
    <2> QED
        BY <2>3, <2>4
<1>7. CASE Deliver
    <2>1. /\ wire # <<>> /\ wire' = Tail(wire)
          /\ fifo' \in {fifo, Append(fifo, Head(wire))}
          /\ UNCHANGED <<inbox, moving>>
        BY <1>7 DEF Deliver
    <2> DEFINE H == CodeOf(Head(wire))
    <2>2. Head(wire) \in S
        BY <1>1, <2>1, HeadTailProperties
    <2> HIDE DEF S
    <2>3. W = H \cup W'
        BY <1>1, <2>1, CodedParts
    <2>4. F' \subseteq F \cup H
        <3>1. CASE fifo' = fifo
            BY <3>1
        <3>2. CASE fifo' = Append(fifo, Head(wire))
            <4>1. \A e \in S : Coded(Append(fifo, e)) = F \cup CodeOf(e)
                BY <1>1, CodedParts
            <4>2. Coded(Append(fifo, Head(wire))) = F \cup H
                BY <2>2, <4>1
            <4> HIDE DEF H
            <4> QED
                BY <3>2, <4>2
        <3> QED
            BY <2>1, <3>1, <3>2
    <2>5. M' = M /\ inbox' = inbox
        BY <2>1
    <2> HIDE DEF F, W, M, H
    <2> QED
        BY <2>3, <2>4, <2>5
<1> QED
    BY <1>4, <1>5, <1>6, <1>7

\* A step of the link is a step of Requests, or none.
LEMMA RequestStep ==
    ASSUME LinkInv, LinkInv', SameInv', OnceInv, OnceInv', [Next]_vars
    PROVE  [Req!Next]_(Req!requests)
<1> USE DEF Req!Next, Req!requests
<1>0. /\ Len(sent) \in Nat /\ inbox \in Seq(1 .. Len(sent))
      /\ pc \in {"sending", "reading"} => call # 0
    BY LinkPlaces DEF LinkInv, Stages
<1>1. \A code \in Codes : Req!Ask(code) \/ Req!Tell(code) => Req!Next
    BY DEF Req!Next
<1>2. ASSUME NEW code \in Codes, StartCall(code) PROVE Req!Next
    <2>1. /\ pc = "idle" /\ pc' = "sending" /\ fifo' = <<>> /\ call' = Len(sent')
          /\ sent' = Append(sent, code) /\ UNCHANGED <<inbox, wire, moving>>
        BY <1>2 DEF StartCall, motor
    <2>2. Read' = <<>> /\ Calling = 0 /\ Calling' = Len(sent') /\ Taken' = 0
        BY <2>1 DEF Read, Calling, Taken
    <2>3. Coded(Read') = {} /\ Coded(fifo') = {} /\ Coded(wire') = Coded(wire)
        BY <2>1, <2>2, NoneCoded
    <2>4. Due' \subseteq Due \cup {Len(sent')}
        BY <2>1, <2>3 DEF Due
    <2> QED
        BY <1>1, <2>1, <2>2, <2>4 DEF Req!Ask, Req!Frame
<1>3. ASSUME NEW code \in Codes, StartNoReply(code) PROVE Req!Next
    <2>1. /\ pc = "idle" /\ pc' = "writing" /\ UNCHANGED <<got, result, fifo, call>>
          /\ sent' = Append(sent, code) /\ UNCHANGED <<inbox, wire, moving>>
        BY <1>3 DEF StartNoReply, motor
    <2>2. Read' = Read /\ Calling = 0 /\ Calling' = 0 /\ Taken' = Taken
        BY <2>1 DEF Read, Calling, Taken
    <2>3. Coded(Read') = Coded(Read) /\ Coded(fifo') = Coded(fifo) /\ Coded(wire') = Coded(wire)
        BY <2>1, <2>2
    <2>4. Due' \subseteq Due \cup {Len(sent')}
        BY <2>1, <2>3 DEF Due
    <2> QED
        BY <1>1, <2>1, <2>2, <2>4 DEF Req!Tell, Req!Frame
<1>4. ASSUME RejectCall \/ Timeout PROVE Req!Next
    <2>1. /\ pc \in {"idle", "reading"} /\ pc' = "idle" /\ fifo' \in {fifo, <<>>}
          /\ call' = 0 \/ result' = "TIMEOUT"
          /\ UNCHANGED <<sent, inbox, wire, moving>>
        BY <1>4 DEF RejectCall, Timeout, motor
    <2>2. Read' = <<>> /\ Calling' = 0 /\ Taken' = 0
        BY <2>1 DEF Read, Calling, Taken
    <2>3. Coded(Read') = {} /\ Coded(fifo') \subseteq Coded(fifo) /\ Coded(wire') = Coded(wire)
        BY <2>1, <2>2, NoneCoded
    <2>4. Due' \subseteq Due
        BY <2>1, <2>3 DEF Due
    <2> QED
        BY <2>1, <2>2, <2>4 DEF Req!Fail
<1>5. CASE zdt_emm_clear_rx
    <2>1. pc = "idle" /\ fifo' = <<>> /\ UNCHANGED <<pc, got, result, sent, call, inbox, wire, moving>>
        BY <1>5 DEF zdt_emm_clear_rx, driver, motor
    <2>2. Read' = Read /\ Calling' = Calling /\ Taken' = Taken
        BY <2>1 DEF Read, Calling, Taken
    <2>3. Coded(Read') = Coded(Read) /\ Coded(fifo') = {} /\ Coded(wire') = Coded(wire)
        BY <2>1, <2>2, NoneCoded
    <2>4. Due' \subseteq Due
        BY <2>1, <2>3 DEF Due
    <2> QED
        BY <2>1, <2>2, <2>4 DEF Req!Lose
<1>6. CASE zdt_emm_send_frame
    <2>1. /\ \/ pc = "sending" /\ pc' = "reading"
             \/ pc = "writing" /\ pc' = "idle"
          /\ inbox' = Append(inbox, Len(sent))
          /\ UNCHANGED <<got, result, fifo, wire, moving, sent, call>>
        BY <1>6 DEF zdt_emm_send_frame
    <2>2. Read = <<>> /\ Read' = <<>> /\ Calling' = Calling /\ Taken' = Taken
        BY <2>1 DEF Read, Calling, Taken, LinkInv, Stages
    <2>3. Coded(Read') = Coded(Read) /\ Coded(fifo') = Coded(fifo) /\ Coded(wire') = Coded(wire)
        BY <2>1, <2>2
    <2>4. Range(inbox') \subseteq Range(inbox) \cup {Len(sent)}
        <3> DEFINE S == (1 .. Len(sent)) \cup {Len(sent)}
                   n == Len(sent)
        <3>1. inbox \in Seq(S)
            BY <1>0, SeqMonotonic
        <3>2. n \in S
            OBVIOUS
        <3> HIDE DEF S, n
        <3>3. Range(Append(inbox, n)) = Range(inbox) \cup {n}
            <4>1. /\ \A i, j \in 1 .. Len(inbox) :
                        inbox[i] = inbox[j] /\ inbox[i] \notin Range(inbox) => i = j
                  /\ n \in Range(inbox) => n \in Range(inbox)
                BY <1>0, SeqRange, Zenon
            <4> QED
                BY <3>1, <3>2, <4>1, RangeAppend
        <3> QED
            BY <2>1, <3>3 DEF n
    <2>5. Due' \subseteq Due
        BY <2>1, <2>3, <2>4 DEF Due
    <2> QED
        BY <2>1, <2>2, <2>5 DEF Req!Lose
<1>7. CASE zdt_emm_read
    <2>1. /\ pc = "reading" /\ pc' \in {"reading", "idle"} /\ fifo # <<>>
          /\ got' = Append(got, Head(fifo)) /\ fifo' = Tail(fifo)
          /\ UNCHANGED <<inbox, wire, moving, sent, call>>
        BY <1>7, Zenon DEF zdt_emm_read, motor
    <2>2. Read = got /\ Calling = call
        BY <2>1 DEF Read, Calling
    <2> DEFINE C == Coded(Read)
               F == Coded(fifo)
               W == Coded(wire)
    <2>3. F = CodeOf(Head(fifo)) \cup Coded(fifo') /\ Coded(wire') = W
        BY <2>1, LinkPlaces, CodedTail DEF OnceInv, CodesOnce
    <2>4. Coded(got') = C \cup CodeOf(Head(fifo)) /\ OneCode(got', Repeated)
                    /\ Coded(got') \cap Coded(fifo') \subseteq Repeated
        <3> DEFINE H == CodeOf(Head(fifo))
                   S == ByteOf(Len(sent))
        <3>1. F = H \cup Coded(fifo') /\ H \cap Coded(fifo') \subseteq Repeated
            BY <2>1, LinkPlaces, CodedTail DEF OnceInv, CodesOnce
        <3>2. C \cap F \subseteq Repeated
            BY DEF OnceInv, OnePlace
        <3>3. got \in Seq(S) /\ Head(fifo) \in S /\ OneCode(got, Repeated)
            BY <2>1, <2>2, LinkPlaces, HeadTailProperties DEF OnceInv, CodesOnce
        <3>4. C = Coded(got)
            BY <2>2
        <3> HIDE DEF S, H, C, F
        <3>5. Coded(got) \cap H \subseteq Repeated
            BY <3>1, <3>2, <3>4
        <3>6. Coded(got') = C \cup H /\ OneCode(got', Repeated)
            BY <2>1, <3>3, <3>4, <3>5, CodedAppend DEF H
        <3> QED
            BY <3>1, <3>2, <3>6 DEF H
    <2>5. Coded(Read') \subseteq Coded(got')
        <3>1. Read' = got' \/ Read' = <<>>
            BY <2>1 DEF Read
        <3> QED
            BY <3>1, NoneCoded
    <2>6. Due' \subseteq Due
        <3> HIDE DEF C, F, W
        <3> QED
            BY <2>1, <2>3, <2>4, <2>5 DEF Due, C, F, W
    <2>7. CASE pc' = "reading"
        <3>1. Calling' = Calling /\ Taken' = Taken
            BY <2>1, <2>7 DEF Calling, Taken
        <3> QED
            BY <2>1, <2>6, <3>1 DEF Req!Lose
    <2>8. CASE pc' = "idle"
        <3>1. /\ result' = Parsed(Values(got'), sent[call])
              /\ ~(Len(got') < ReplyLen[sent[call]])
            BY <1>7, <2>1, <2>8, Zenon DEF zdt_emm_read
        <3>2. result' \notin {"none", "TIMEOUT"}
            BY <3>1, ResultTypes
        <3>3. Calling' = 0
            BY <2>8 DEF Calling
        <3>4. CASE result' = "BAD_FRAME"
            <4>1. Taken' = 0
                BY <3>4 DEF Taken
            <4> QED
                BY <2>1, <2>6, <3>3, <4>1 DEF Req!Fail
        <3>5. CASE result' # "BAD_FRAME"
            <4>1. call' # 0 /\ call # 0 /\ call \in 1 .. Len(sent) /\ sent[call] \in Codes
                <5>1. call # 0 /\ call \in 1 .. Len(sent)
                    BY <1>0, <2>1 DEF LinkInv, Frames
                <5> QED
                    BY <2>1, <5>1, ElementOfSeq DEF LinkInv, Frames
            <4>2. Taken' = got'[2].of
                BY <2>8, <3>2, <3>5, <4>1 DEF Taken
            <4> DEFINE f == got'[2].of
            <4>3. /\ f \in 1 .. Len(sent)
                  /\ got'[2].at = 2 => sent[f] = sent[call]
                  /\ got'[2].at # 2 => f \in open' /\ sent[f] \in Reads
                BY <2>1, <2>8, <3>2, <3>5, <4>1 DEF SameInv, TakenIsAccepted, Accepted
            <4>4. CASE got'[2].at = 2
                <5>1. f \in Coded(got')
                    <6>1. Len(got') \in Nat /\ Len(got') >= 4 /\ DOMAIN got' = 1 .. Len(got')
                        <7>1. ReplyLen[sent[call]] \in 4 .. 8
                            BY <4>1, CodeLength
                        <7>2. Len(got') \in Nat /\ DOMAIN got' = 1 .. Len(got')
                            BY LenProperties DEF LinkInv, Line
                        <7> QED
                            BY <3>1, <7>1, <7>2
                    <6>2. 2 \in DOMAIN got'
                        BY <6>1
                    <6> QED
                        BY <4>4, <6>2, Zenon DEF Coded
                <5> HIDE DEF f
                <5>2. f \in Due
                    BY <2>3, <2>4, <5>1 DEF Due
                <5>3. f \in Due' => sent[f] \in AnsweredTwice
                    <6>1. SUFFICES ASSUME f \in Due', f \notin Repeated
                          PROVE  sent[f] \in AnsweredTwice
                        BY <4>3 DEF Repeated
                    <6>2. Read' = <<>> /\ Coded(Read') = {}
                        <7>1. Read' = <<>>
                            BY <2>8 DEF Read
                        <7> QED
                            BY <7>1, NoneCoded
                    <6>3. f \notin Coded(fifo')
                        BY <2>4, <5>1, <6>1
                    <6>4. f \notin Coded(wire') /\ f \notin Range(inbox')
                        <7>1. /\ (C \cup F) \cap W \subseteq Repeated
                              /\ (C \cup F \cup W) \cap Range(inbox) \subseteq Repeated
                            BY DEF OnceInv, OnePlace
                        <7>2. f \in C \cup F
                            BY <2>3, <2>4, <5>1
                        <7> HIDE DEF C, F, W
                        <7> QED
                            BY <2>1, <2>3, <6>1, <7>1, <7>2
                    <6>5. ReportsDone /\ f = moving /\ moving # 0
                        BY <2>1, <2>8, <6>1, <6>2, <6>3, <6>4 DEF Due
                    <6>6. sent[moving] \in Moves
                        BY <6>5 DEF OnceInv, MovesMove
                    <6> QED
                        BY <6>5, <6>6 DEF AnsweredTwice
                <5> QED
                    BY <2>1, <2>2, <2>6, <3>3, <4>1, <4>2, <4>3, <4>4, <5>2, <5>3 DEF Req!Take, f
            <4>5. CASE got'[2].at # 2
                <5>1. f \in 1 .. call - 1
                    BY <2>1, <4>1, <4>3, <4>5 DEF SameInv, OpenBefore
                <5> HIDE DEF f
                <5> QED
                    BY <2>1, <2>2, <2>6, <3>3, <4>1, <4>2, <4>3, <4>5, <5>1 DEF Req!Mistake, f
            <4> QED
                BY <4>4, <4>5
        <3> QED
            BY <3>4, <3>5
    <2> QED
        BY <2>1, <2>7, <2>8
<1>8. ASSUME Answer \/ Ignore \/ Arrive \/ Deliver PROVE Req!Next
    <2>1. UNCHANGED <<pc, got, result, sent, call>>
        BY <1>8 DEF Answer, Ignore, Arrive, Deliver, driver
    <2>2. Read' = Read /\ Calling' = Calling /\ Taken' = Taken /\ Leaving' = Leaving
        BY <2>1 DEF Read, Calling, Taken, Leaving
    <2>3. Due' \subseteq Due
        BY <1>8, <2>1, <2>2, MotorKeepsDue
    <2> QED
        BY <2>1, <2>2, <2>3 DEF Req!Lose
<1>9. CASE UNCHANGED vars
    BY <1>9 DEF vars, driver, motor, Calling, Due, Taken, Read
<1> QED
    BY <1>2, <1>3, <1>4, <1>5, <1>6, <1>7, <1>8, <1>9
    DEF Next, Call, ActionCall, ReadCall, NoReplyCall, Progress, Codes

\* zdt_emm_clear_rx, the timeouts and the checks of a reply together keep what a
\* caller relies on, with a register of one byte and whatever values the motor
\* reports: over any number of calls no answer is taken by two of them, except a
\* move's that is reported as done, and only the value of an earlier read is ever
\* mistaken for an answer.
THEOREM RequestsRefined ==
    ASSUME FifoDepth = 1
    PROVE  Spec => RefinesRequests
<1>1. Init => Req!Init /\ LinkInv /\ SameInv /\ OnceInv
    <2>1. Init => Req!Init
        BY NoneCoded DEF Init, Req!Init, Calling, Due, Taken, Read, Range
    <2> QED
        BY <2>1, LinkInitInv, SameInit, OnceInit
<1>2. LinkInv /\ SameInv /\ OnceInv /\ [Next]_vars => LinkInv' /\ SameInv' /\ OnceInv'
    BY LinkStep, SameStep, OnceStep
<1>3. /\ LinkInv /\ LinkInv' /\ SameInv' /\ OnceInv /\ OnceInv' /\ [Next]_vars
      => [Req!Next]_(Req!requests)
    BY RequestStep
<1> QED
    BY <1>1, <1>2, <1>3, PTL DEF Spec, RefinesRequests, Req!Spec

--------------------------------------------------------------------------------
\* What driver and motor take from each other's frames: the frames, piece by piece.

Octets == 0 .. 255

\* g holds these bytes behind its first k.
Holds(g, k, bytes) == \A i \in 1 .. Len(bytes) : g[k + i] = bytes[i]

LEMMA JoinedLength ==
    ASSUME NEW s \in Seq(Octets), NEW t \in Seq(Octets)
    PROVE  s \o t \in Seq(Octets) /\ Len(s \o t) = Len(s) + Len(t)
BY ConcatProperties

\* A sequence put together is held piece by piece.
LEMMA HoldsBoth ==
    ASSUME NEW s \in Seq(Octets), NEW t \in Seq(Octets), NEW g, NEW k \in Nat, Holds(g, k, s \o t)
    PROVE  Holds(g, k, s) /\ Holds(g, k + Len(s), t)
<1> DEFINE a == Len(s)
           b == Len(t)
           u == s \o t
<1>1. a \in Nat /\ b \in Nat
    OBVIOUS
<1>2. /\ Len(u) = a + b
      /\ \A i \in 1 .. a + b : u[i] = IF i <= a THEN s[i] ELSE t[i - a]
    BY ConcatProperties
<1>3. \A i \in 1 .. Len(u) : g[k + i] = u[i]
    BY DEF Holds
<1> HIDE DEF a, b, u
<1>4. ASSUME NEW i \in 1 .. a PROVE g[k + i] = s[i]
    <2>1. i <= a /\ i \in 1 .. a + b /\ i \in 1 .. Len(u)
        BY <1>1, <1>2
    <2> QED
        BY <1>2, <1>3, <2>1, Zenon
<1>5. ASSUME NEW i \in 1 .. b PROVE g[k + a + i] = t[i]
    <2> DEFINE j == a + i
    <2>1. j \in 1 .. a + b /\ ~(j <= a) /\ j - a = i /\ k + j = k + a + i
        BY <1>1
    <2> HIDE DEF j
    <2>2. g[k + j] = u[j] /\ u[j] = t[j - a]
        BY <1>2, <1>3, <2>1
    <2> QED
        BY <2>1, <2>2
<1> QED
    BY <1>4, <1>5 DEF Holds, a, b

\* A 16-bit number.
Word(n) == n \in Nat /\ n <= 65535

LEMMA WordParts ==
    ASSUME NEW n, Word(n)
    PROVE  /\ n \div 256 \in 0 .. 255 /\ n % 256 \in 0 .. 255
           /\ zdt_emm_put_u16(n) = <<n \div 256, n % 256>>
           /\ 256 * (n \div 256) + (n % 256) = n
<1>1. n \div 256 \in 0 .. 255 /\ n % 256 \in 0 .. 255 /\ 256 * (n \div 256) + (n % 256) = n
    BY Z3 DEF Word
<1>2. (n \div 256) % 256 = n \div 256
    BY <1>1, Z3
<1> QED
    BY <1>1, <1>2 DEF zdt_emm_put_u16

\* A 16-bit number comes back from its two bytes.
LEMMA WordHeard ==
    ASSUME NEW n, Word(n)
    PROVE  /\ zdt_emm_put_u16(n) \in Seq(Octets) /\ Len(zdt_emm_put_u16(n)) = 2
           /\ \A g, k : k \in Nat /\ Holds(g, k, zdt_emm_put_u16(n)) => U16(g, k + 1) = n
<1> DEFINE h == n \div 256
           l == n % 256
           w == zdt_emm_put_u16(n)
<1>1. h \in 0 .. 255 /\ l \in 0 .. 255 /\ w = <<h, l>> /\ 256 * h + l = n
    BY WordParts, Zenon
<1> HIDE DEF h, l, w
<1>2. w \in Seq(Octets) /\ Len(w) = 2 /\ w[1] = h /\ w[2] = l
    BY <1>1 DEF Octets
<1>3. ASSUME NEW g, NEW k \in Nat, Holds(g, k, w) PROVE U16(g, k + 1) = n
    <2>1. g[k + 1] = h /\ g[k + 2] = l
        BY <1>2, <1>3 DEF Holds
    <2>2. k + 1 + 1 = k + 2
        OBVIOUS
    <2> QED
        BY <1>1, <2>1, <2>2 DEF U16
<1> QED
    BY <1>2, <1>3 DEF w

\* A 32-bit number, without a sign and with one.
Long(n) == n \in Nat /\ n \div 65536 <= 65535
SignedWord(n) == n \in Int /\ -32768 <= n /\ n <= 32767
SignedLong(n) == n \in Int /\ SignedWord(n \div 65536)

LEMMA HighHalf ==
    ASSUME NEW n \in Nat, NEW h \in Int, NEW l \in Nat, l <= 65535, n = 65536 * h + l, h <= 65535
    PROVE  Word(h)
<1>1. h >= 0
    OBVIOUS
<1> QED
    BY <1>1 DEF Word

\* The halves of a 32-bit number.
LEMMA LongParts ==
    ASSUME NEW n \in Int
    PROVE  /\ n \div 65536 \in Int /\ Word(n % 65536)
           /\ n = 65536 * (n \div 65536) + (n % 65536)
           /\ Long(n) => Word(n \div 65536)
<1> DEFINE h == n \div 65536
           l == n % 65536
<1>1. h \in Int /\ l \in Nat /\ l <= 65535 /\ n = 65536 * h + l
    BY Z3
<1>2. ASSUME Long(n) PROVE Word(h)
    <2>1. n \in Nat /\ h <= 65535
        BY <1>2 DEF Long
    <2> HIDE DEF h, l
    <2> QED
        BY <1>1, <2>1, HighHalf
<1>3. Word(l)
    BY <1>1 DEF Word
<1> QED
    BY <1>1, <1>2, <1>3

\* A 32-bit number comes back from its four bytes.
LEMMA LongHeard ==
    ASSUME NEW n, Long(n)
    PROVE  /\ zdt_emm_put_u32(n) \in Seq(Octets) /\ Len(zdt_emm_put_u32(n)) = 4
           /\ \A g, k : k \in Nat /\ Holds(g, k, zdt_emm_put_u32(n)) => U32(g, k + 1) = n
<1> DEFINE h == n \div 65536
           l == n % 65536
           u == zdt_emm_put_u16(h)
           v == zdt_emm_put_u16(l)
<1>1. h \in Int /\ Word(h) /\ Word(l) /\ n = 65536 * h + l
    BY LongParts DEF Long
<1>2. zdt_emm_put_u32(n) = u \o v
    BY DEF zdt_emm_put_u32
<1> HIDE DEF h, l
<1>3. /\ u \in Seq(Octets) /\ Len(u) = 2 /\ v \in Seq(Octets) /\ Len(v) = 2
      /\ \A g, k : k \in Nat /\ Holds(g, k, u) => U16(g, k + 1) = h
      /\ \A g, k : k \in Nat /\ Holds(g, k, v) => U16(g, k + 1) = l
    BY <1>1, WordHeard
<1> HIDE DEF u, v
<1>4. u \o v \in Seq(Octets) /\ Len(u \o v) = 4
    <2>1. u \in Seq(Octets) /\ v \in Seq(Octets) /\ Len(u) + Len(v) = 4
        BY <1>3
    <2> QED
        BY <2>1, JoinedLength
<1>5. ASSUME NEW g, NEW k \in Nat, Holds(g, k, u \o v) PROVE U32(g, k + 1) = n
    <2>1. Holds(g, k, u) /\ Holds(g, k + 2, v)
        BY <1>3, <1>5, HoldsBoth
    <2>2. k + 2 \in Nat /\ k + 2 + 1 = k + 1 + 2
        OBVIOUS
    <2>3. U16(g, k + 1) = h /\ U16(g, k + 1 + 2) = l
        BY <1>3, <2>1, <2>2
    <2> QED
        BY <1>1, <2>3 DEF U32
<1> QED
    BY <1>2, <1>4, <1>5

\* The high half of a number with a sign.
SignedByte(b) == IF b < 128 THEN b ELSE b - 256

\* The half of a number with a sign, at this place.
SignedWordAt(g, k, q) ==
    /\ g[k + 1] \in 0 .. 255 /\ g[k + 2] \in 0 .. 255
    /\ 256 * SignedByte(g[k + 1]) + g[k + 2] = q

LEMMA SignedWordHeard ==
    ASSUME NEW q, SignedWord(q)
    PROVE  /\ zdt_emm_put_u16(q) \in Seq(Octets) /\ Len(zdt_emm_put_u16(q)) = 2
           /\ \A g, k : k \in Nat /\ Holds(g, k, zdt_emm_put_u16(q)) => SignedWordAt(g, k, q)
<1> DEFINE s == q \div 256
           h == s % 256
           l == q % 256
           w == zdt_emm_put_u16(q)
<1>0. q \in Int /\ -32768 <= q /\ q <= 32767
    BY DEF SignedWord
<1>1. s \in -128 .. 127 /\ l \in 0 .. 255 /\ 256 * s + l = q
    <2>1. s \in Int /\ l \in 0 .. 255 /\ 256 * s + l = q
        BY <1>0, Z3
    <2> HIDE DEF s, l
    <2> QED
        BY <1>0, <2>1
<1>2. w = <<h, l>>
    BY DEF zdt_emm_put_u16
<1> HIDE DEF s, l, w
<1>3. h \in 0 .. 255 /\ SignedByte(h) = s
    <2>1. h \in Int /\ h = IF s < 0 THEN s + 256 ELSE s
        BY <1>1, Z3
    <2> HIDE DEF h
    <2> QED
        BY <1>1, <2>1 DEF SignedByte
<1> HIDE DEF h
<1>4. w \in Seq(Octets) /\ Len(w) = 2 /\ w[1] = h /\ w[2] = l
    BY <1>1, <1>2, <1>3 DEF Octets
<1>5. ASSUME NEW g, NEW k \in Nat, Holds(g, k, w) PROVE SignedWordAt(g, k, q)
    <2>1. g[k + 1] = h /\ g[k + 2] = l
        BY <1>4, <1>5 DEF Holds
    <2> QED
        BY <1>1, <1>3, <2>1 DEF SignedWordAt
<1> QED
    BY <1>4, <1>5, Zenon DEF w

\* The same of a signed number, in two's complement.
LEMMA SignedLongHeard ==
    ASSUME NEW n, SignedLong(n)
    PROVE  /\ zdt_emm_put_u32(n) \in Seq(Octets) /\ Len(zdt_emm_put_u32(n)) = 4
           /\ \A g, k : k \in Nat /\ Holds(g, k, zdt_emm_put_u32(n)) => I32(g, k + 1) = n
<1> DEFINE h == n \div 65536
           l == n % 65536
           u == zdt_emm_put_u16(h)
           v == zdt_emm_put_u16(l)
<1>1. SignedWord(h) /\ Word(l) /\ n = 65536 * h + l
    <2>1. n \in Int /\ SignedWord(h)
        BY DEF SignedLong
    <2>2. Word(l) /\ n = 65536 * h + l
        BY <2>1, LongParts
    <2> QED
        BY <2>1, <2>2
<1>2. zdt_emm_put_u32(n) = u \o v
    BY DEF zdt_emm_put_u32
<1> HIDE DEF h, l
<1>3. /\ u \in Seq(Octets) /\ Len(u) = 2
      /\ \A g, k : k \in Nat /\ Holds(g, k, u) => SignedWordAt(g, k, h)
    BY <1>1, SignedWordHeard
<1>4. /\ v \in Seq(Octets) /\ Len(v) = 2
      /\ \A g, k : k \in Nat /\ Holds(g, k, v) => U16(g, k + 1) = l
    BY <1>1, WordHeard
<1> HIDE DEF u, v
<1>5. u \o v \in Seq(Octets) /\ Len(u \o v) = 4
    <2>1. u \in Seq(Octets) /\ v \in Seq(Octets) /\ Len(u) + Len(v) = 4
        BY <1>3, <1>4
    <2> QED
        BY <2>1, JoinedLength
<1>6. ASSUME NEW g, NEW k \in Nat, Holds(g, k, u \o v) PROVE I32(g, k + 1) = n
    <2>1. Holds(g, k, u) /\ Holds(g, k + 2, v)
        BY <1>3, <1>4, <1>6, HoldsBoth
    <2>2. k + 2 \in Nat /\ k + 2 + 1 = k + 1 + 2 /\ k + 1 + 1 = k + 2
        OBVIOUS
    <2>3. /\ 256 * SignedByte(g[k + 1]) + g[k + 2] = h
          /\ g[k + 1] \in 0 .. 255 /\ g[k + 2] \in 0 .. 255
        BY <1>3, <2>1 DEF SignedWordAt
    <2>4. U16(g, k + 1 + 2) = l
        BY <1>4, <2>1, <2>2
    <2>5. I32(g, k + 1) = SignedByte(g[k + 1]) * 16777216 + 65536 * g[k + 2] + l
        BY <2>2, <2>4 DEF I32, SignedByte
    <2> DEFINE x == g[k + 1]
               y == g[k + 2]
               b == SignedByte(x)
    <2>6. b \in Int /\ y \in Int
        BY <2>3 DEF SignedByte
    <2>7. l \in Int
        BY <1>1 DEF Word
    <2>8. 256 * b + y = h /\ n = 65536 * h + l /\ I32(g, k + 1) = b * 16777216 + 65536 * y + l
        BY <1>1, <2>3, <2>5
    <2> HIDE DEF x, y, b
    <2> QED
        BY <2>6, <2>7, <2>8
<1> QED
    BY <1>2, <1>5, <1>6

--------------------------------------------------------------------------------
\* What the driver and the motor make of a command.

Understood(f, ask) == f # Refused /\ f[Len(f)] = CHECK /\ Heard(f) = ask

\* A call with arguments in their ranges puts a frame on the line that means what was
\* asked, any other call none.
Answered(made, f) == IF Allowed(made) THEN Understood(f, made.ask) ELSE f = Refused

LEMMA SentFact ==
    ASSUME NEW body \in Seq(Octets), NEW x \in Octets
    PROVE  /\ Append(body, x) # <<>>
           /\ Append(body, x)[Len(Append(body, x))] = x
           /\ Holds(Append(body, x), 0, body)
BY AppendProperties DEF Holds

\* It is enough to look at the bytes in front of the check byte.
LEMMA FrameAnswers ==
    ASSUME NEW body \in Seq(Octets), NEW made, NEW ok \in BOOLEAN, Allowed(made) <=> ok,
           \A g : Holds(g, 0, body) => Heard(g) = made.ask,
           NEW f, f = IF ok THEN Append(body, CHECK) ELSE Refused
    PROVE  Answered(made, f)
<1>1. CHECK \in Octets
    BY DEF CHECK, Octets
<1> HIDE DEF CHECK
<1>2. ok => f # <<>> /\ f[Len(f)] = CHECK /\ Holds(f, 0, body)
    BY <1>1, SentFact
<1> QED
    BY <1>2 DEF Answered, Understood, Refused

CallOf(waits, ask) == [of |-> "command", waits |-> waits, ask |-> ask]

FrameOf(waits, ask) == IF waits THEN Waiting(ask) ELSE NotWaiting(ask)

\* The commands, one by one, for all arguments of their types.
LEMMA EnableHeard ==
    ASSUME NEW addr \in Octets, NEW on \in BOOLEAN, NEW sync \in Octets, NEW waits \in BOOLEAN,
           NEW a, a = [command |-> "enable", addr |-> addr, on |-> on, sync |-> sync]
    PROVE  Answered(CallOf(waits, a), FrameOf(waits, a))
<1> DEFINE body == <<addr, 243, 171, IF on THEN 1 ELSE 0, sync>>
           ok == (waits => addr # 0) /\ sync \in {0, 1}
<1>1. (Allowed(CallOf(waits, a)) <=> ok) /\ ok \in BOOLEAN
    BY DEF Allowed, BROADCAST, CallOf
<1>2. FrameOf(waits, a) = IF ok THEN Append(body, CHECK) ELSE Refused
    BY DEF FrameOf, Waiting, NotWaiting, zdt_emm_enable, zdt_emm_enable_no_reply, SYNCS, Unicast, BROADCAST, SendIf
<1>3. ASSUME NEW g, Holds(g, 0, body) PROVE Heard(g) = a
    <2>1. g[1] = addr /\ g[2] = 243 /\ g[3] = 171 /\ g[4] = (IF on THEN 1 ELSE 0) /\ g[5] = sync
        BY <1>3 DEF Holds
    <2> QED
        BY <2>1 DEF Heard, READ_CODES, CMD_READ
<1>4. body \in Seq(Octets)
    BY DEF Octets
<1>5. CallOf(waits, a).ask = a
    BY DEF CallOf
<1> HIDE DEF body, ok
<1> QED
    BY <1>1, <1>2, <1>3, <1>4, <1>5, FrameAnswers

LEMMA StopHeard ==
    ASSUME NEW addr \in Octets, NEW sync \in Octets, NEW waits \in BOOLEAN,
           NEW a, a = [command |-> "stop", addr |-> addr, sync |-> sync]
    PROVE  Answered(CallOf(waits, a), FrameOf(waits, a))
<1> DEFINE body == <<addr, 254, 152, sync>>
           ok == (waits => addr # 0) /\ sync \in {0, 1}
<1>1. (Allowed(CallOf(waits, a)) <=> ok) /\ ok \in BOOLEAN
    BY DEF Allowed, BROADCAST, CallOf
<1>2. FrameOf(waits, a) = IF ok THEN Append(body, CHECK) ELSE Refused
    BY DEF FrameOf, Waiting, NotWaiting, zdt_emm_stop, zdt_emm_stop_no_reply, SYNCS, Unicast, BROADCAST, SendIf
<1>3. ASSUME NEW g, Holds(g, 0, body) PROVE Heard(g) = a
    <2>1. g[1] = addr /\ g[2] = 254 /\ g[3] = 152 /\ g[4] = sync
        BY <1>3 DEF Holds
    <2> QED
        BY <2>1 DEF Heard, READ_CODES, CMD_READ
<1>4. body \in Seq(Octets)
    BY DEF Octets
<1>5. CallOf(waits, a).ask = a
    BY DEF CallOf
<1> HIDE DEF body, ok
<1> QED
    BY <1>1, <1>2, <1>3, <1>4, <1>5, FrameAnswers

LEMMA HomeHeard ==
    ASSUME NEW addr \in Octets, NEW mode \in Octets, NEW sync \in Octets, NEW waits \in BOOLEAN,
           NEW a, a = [command |-> "home", addr |-> addr, mode |-> mode, sync |-> sync]
    PROVE  Answered(CallOf(waits, a), FrameOf(waits, a))
<1> DEFINE body == <<addr, 154, mode, sync>>
           ok == (waits => addr # 0) /\ mode \in 0 .. 5 /\ sync \in {0, 1}
<1>1. (Allowed(CallOf(waits, a)) <=> ok) /\ ok \in BOOLEAN
    BY DEF Allowed, BROADCAST, CallOf
<1>2. FrameOf(waits, a) = IF ok THEN Append(body, CHECK) ELSE Refused
    BY DEF FrameOf, Waiting, NotWaiting, zdt_emm_home, zdt_emm_home_no_reply, HOME_MODES, SYNCS, Unicast, BROADCAST, SendIf
<1>3. ASSUME NEW g, Holds(g, 0, body) PROVE Heard(g) = a
    <2>1. g[1] = addr /\ g[2] = 154 /\ g[3] = mode /\ g[4] = sync
        BY <1>3 DEF Holds
    <2> QED
        BY <2>1 DEF Heard, READ_CODES, CMD_READ
<1>4. body \in Seq(Octets)
    BY DEF Octets
<1>5. CallOf(waits, a).ask = a
    BY DEF CallOf
<1> HIDE DEF body, ok
<1> QED
    BY <1>1, <1>2, <1>3, <1>4, <1>5, FrameAnswers

LEMMA HomeZeroHeard ==
    ASSUME NEW addr \in Octets, NEW store \in BOOLEAN,
           NEW a, a = [command |-> "set_home_zero", addr |-> addr, store |-> store]
    PROVE  Answered(CallOf(TRUE, a), FrameOf(TRUE, a))
<1> DEFINE body == <<addr, 147, 136, IF store THEN 1 ELSE 0>>
           ok == addr # 0
<1>1. (Allowed(CallOf(TRUE, a)) <=> ok) /\ ok \in BOOLEAN
    BY DEF Allowed, BROADCAST, CallOf
<1>2. FrameOf(TRUE, a) = IF ok THEN Append(body, CHECK) ELSE Refused
    BY DEF FrameOf, Waiting, NotWaiting, zdt_emm_set_home_zero, Unicast, BROADCAST, SendIf
<1>3. ASSUME NEW g, Holds(g, 0, body) PROVE Heard(g) = a
    <2>1. g[1] = addr /\ g[2] = 147 /\ g[3] = 136 /\ g[4] = (IF store THEN 1 ELSE 0)
        BY <1>3 DEF Holds
    <2> QED
        BY <2>1 DEF Heard, READ_CODES, CMD_READ
<1>4. body \in Seq(Octets)
    BY DEF Octets
<1>5. CallOf(TRUE, a).ask = a
    BY DEF CallOf
<1> HIDE DEF body, ok
<1> QED
    BY <1>1, <1>2, <1>3, <1>4, <1>5, FrameAnswers

LEMMA HomeAbortHeard ==
    ASSUME NEW addr \in Octets, NEW waits \in BOOLEAN,
           NEW a, a = [command |-> "home_abort", addr |-> addr]
    PROVE  Answered(CallOf(waits, a), FrameOf(waits, a))
<1> DEFINE body == <<addr, 156, 72>>
           ok == waits => addr # 0
<1>1. (Allowed(CallOf(waits, a)) <=> ok) /\ ok \in BOOLEAN
    BY DEF Allowed, BROADCAST, CallOf
<1>2. FrameOf(waits, a) = IF ok THEN Append(body, CHECK) ELSE Refused
    BY DEF FrameOf, Waiting, NotWaiting, zdt_emm_home_abort, zdt_emm_home_abort_no_reply, Unicast, BROADCAST, SendIf
<1>3. ASSUME NEW g, Holds(g, 0, body) PROVE Heard(g) = a
    <2>1. g[1] = addr /\ g[2] = 156 /\ g[3] = 72
        BY <1>3 DEF Holds
    <2> QED
        BY <2>1 DEF Heard, READ_CODES, CMD_READ
<1>4. body \in Seq(Octets)
    BY DEF Octets
<1>5. CallOf(waits, a).ask = a
    BY DEF CallOf
<1> HIDE DEF body, ok
<1> QED
    BY <1>1, <1>2, <1>3, <1>4, <1>5, FrameAnswers

LEMMA ZeroPositionHeard ==
    ASSUME NEW addr \in Octets, NEW waits \in BOOLEAN,
           NEW a, a = [command |-> "zero_position", addr |-> addr]
    PROVE  Answered(CallOf(waits, a), FrameOf(waits, a))
<1> DEFINE body == <<addr, 10, 109>>
           ok == waits => addr # 0
<1>1. (Allowed(CallOf(waits, a)) <=> ok) /\ ok \in BOOLEAN
    BY DEF Allowed, BROADCAST, CallOf
<1>2. FrameOf(waits, a) = IF ok THEN Append(body, CHECK) ELSE Refused
    BY DEF FrameOf, Waiting, NotWaiting, zdt_emm_zero_position, zdt_emm_zero_position_no_reply, Unicast, BROADCAST, SendIf
<1>3. ASSUME NEW g, Holds(g, 0, body) PROVE Heard(g) = a
    <2>1. g[1] = addr /\ g[2] = 10 /\ g[3] = 109
        BY <1>3 DEF Holds
    <2> QED
        BY <2>1 DEF Heard, READ_CODES, CMD_READ
<1>4. body \in Seq(Octets)
    BY DEF Octets
<1>5. CallOf(waits, a).ask = a
    BY DEF CallOf
<1> HIDE DEF body, ok
<1> QED
    BY <1>1, <1>2, <1>3, <1>4, <1>5, FrameAnswers

LEMMA ClearProtectionHeard ==
    ASSUME NEW addr \in Octets, NEW waits \in BOOLEAN,
           NEW a, a = [command |-> "clear_protection", addr |-> addr]
    PROVE  Answered(CallOf(waits, a), FrameOf(waits, a))
<1> DEFINE body == <<addr, 14, 82>>
           ok == waits => addr # 0
<1>1. (Allowed(CallOf(waits, a)) <=> ok) /\ ok \in BOOLEAN
    BY DEF Allowed, BROADCAST, CallOf
<1>2. FrameOf(waits, a) = IF ok THEN Append(body, CHECK) ELSE Refused
    BY DEF FrameOf, Waiting, NotWaiting, zdt_emm_clear_protection, zdt_emm_clear_protection_no_reply, Unicast, BROADCAST, SendIf
<1>3. ASSUME NEW g, Holds(g, 0, body) PROVE Heard(g) = a
    <2>1. g[1] = addr /\ g[2] = 14 /\ g[3] = 82
        BY <1>3 DEF Holds
    <2> QED
        BY <2>1 DEF Heard, READ_CODES, CMD_READ
<1>4. body \in Seq(Octets)
    BY DEF Octets
<1>5. CallOf(waits, a).ask = a
    BY DEF CallOf
<1> HIDE DEF body, ok
<1> QED
    BY <1>1, <1>2, <1>3, <1>4, <1>5, FrameAnswers

LEMMA CalibrateHeard ==
    ASSUME NEW addr \in Octets,
           NEW a, a = [command |-> "calibrate", addr |-> addr]
    PROVE  Answered(CallOf(TRUE, a), FrameOf(TRUE, a))
<1> DEFINE body == <<addr, 6, 69>>
           ok == addr # 0
<1>1. (Allowed(CallOf(TRUE, a)) <=> ok) /\ ok \in BOOLEAN
    BY DEF Allowed, BROADCAST, CallOf
<1>2. FrameOf(TRUE, a) = IF ok THEN Append(body, CHECK) ELSE Refused
    BY DEF FrameOf, Waiting, NotWaiting, zdt_emm_calibrate_encoder, zdt_emm_action_with_aux, Unicast, BROADCAST, SendIf
<1>3. ASSUME NEW g, Holds(g, 0, body) PROVE Heard(g) = a
    <2>1. g[1] = addr /\ g[2] = 6 /\ g[3] = 69
        BY <1>3 DEF Holds
    <2> QED
        BY <2>1 DEF Heard, READ_CODES, CMD_READ
<1>4. body \in Seq(Octets)
    BY DEF Octets
<1>5. CallOf(TRUE, a).ask = a
    BY DEF CallOf
<1> HIDE DEF body, ok
<1> QED
    BY <1>1, <1>2, <1>3, <1>4, <1>5, FrameAnswers

LEMMA RestartHeard ==
    ASSUME NEW addr \in Octets,
           NEW a, a = [command |-> "restart", addr |-> addr]
    PROVE  Answered(CallOf(TRUE, a), FrameOf(TRUE, a))
<1> DEFINE body == <<addr, 8, 151>>
           ok == addr # 0
<1>1. (Allowed(CallOf(TRUE, a)) <=> ok) /\ ok \in BOOLEAN
    BY DEF Allowed, BROADCAST, CallOf
<1>2. FrameOf(TRUE, a) = IF ok THEN Append(body, CHECK) ELSE Refused
    BY DEF FrameOf, Waiting, NotWaiting, zdt_emm_restart, zdt_emm_action_with_aux, Unicast, BROADCAST, SendIf
<1>3. ASSUME NEW g, Holds(g, 0, body) PROVE Heard(g) = a
    <2>1. g[1] = addr /\ g[2] = 8 /\ g[3] = 151
        BY <1>3 DEF Holds
    <2> QED
        BY <2>1 DEF Heard, READ_CODES, CMD_READ
<1>4. body \in Seq(Octets)
    BY DEF Octets
<1>5. CallOf(TRUE, a).ask = a
    BY DEF CallOf
<1> HIDE DEF body, ok
<1> QED
    BY <1>1, <1>2, <1>3, <1>4, <1>5, FrameAnswers

LEMMA FactoryHeard ==
    ASSUME NEW addr \in Octets,
           NEW a, a = [command |-> "factory_reset", addr |-> addr]
    PROVE  Answered(CallOf(TRUE, a), FrameOf(TRUE, a))
<1> DEFINE body == <<addr, 15, 95>>
           ok == addr # 0
<1>1. (Allowed(CallOf(TRUE, a)) <=> ok) /\ ok \in BOOLEAN
    BY DEF Allowed, BROADCAST, CallOf
<1>2. FrameOf(TRUE, a) = IF ok THEN Append(body, CHECK) ELSE Refused
    BY DEF FrameOf, Waiting, NotWaiting, zdt_emm_factory_reset, zdt_emm_action_with_aux, Unicast, BROADCAST, SendIf
<1>3. ASSUME NEW g, Holds(g, 0, body) PROVE Heard(g) = a
    <2>1. g[1] = addr /\ g[2] = 15 /\ g[3] = 95
        BY <1>3 DEF Holds
    <2> QED
        BY <2>1 DEF Heard, READ_CODES, CMD_READ
<1>4. body \in Seq(Octets)
    BY DEF Octets
<1>5. CallOf(TRUE, a).ask = a
    BY DEF CallOf
<1> HIDE DEF body, ok
<1> QED
    BY <1>1, <1>2, <1>3, <1>4, <1>5, FrameAnswers

LEMMA SyncStartHeard ==
    ASSUME NEW waits \in BOOLEAN,
           NEW a, a = [command |-> "sync_start", addr |-> 0]
    PROVE  Answered(CallOf(waits, a), FrameOf(waits, a))
<1> DEFINE body == <<0, 255, 102>>
<1>1. Allowed(CallOf(waits, a))
    BY DEF Allowed, CallOf
<1>2. FrameOf(waits, a) = Append(body, CHECK)
    BY DEF FrameOf, Waiting, NotWaiting, zdt_emm_sync_start_no_reply, BROADCAST, SendIf
<1>3. ASSUME NEW g, Holds(g, 0, body) PROVE Heard(g) = a
    <2>1. g[1] = 0 /\ g[2] = 255 /\ g[3] = 102
        BY <1>3 DEF Holds
    <2> QED
        BY <2>1 DEF Heard, READ_CODES, CMD_READ
<1>4. body \in Seq(Octets)
    BY DEF Octets
<1>5. CallOf(waits, a).ask = a
    BY DEF CallOf
<1> HIDE DEF body
<1> QED
    BY <1>1, <1>2, <1>3, <1>4, <1>5, FrameAnswers

LEMMA ReadCodes ==
    ASSUME NEW code \in READ_CODES
    PROVE  /\ code \in Octets
           /\ code \notin {243, 246, 253, 241, 252, 254, 154, 147, 156, 10, 14, 6, 8, 15, 255}
BY DEF READ_CODES, CMD_READ, Octets

LEMMA ReadHeard ==
    ASSUME NEW addr \in Octets, NEW code \in READ_CODES,
           NEW a, a = [command |-> "read", addr |-> addr, code |-> code]
    PROVE  Answered(CallOf(TRUE, a), FrameOf(TRUE, a))
<1> DEFINE body == <<addr, code>>
           ok == addr # 0
<1>1. (Allowed(CallOf(TRUE, a)) <=> ok) /\ ok \in BOOLEAN
    BY DEF Allowed, BROADCAST, CallOf
<1>2. FrameOf(TRUE, a) = IF ok THEN Append(body, CHECK) ELSE Refused
    BY DEF FrameOf, Waiting, zdt_emm_read_frame, Unicast, BROADCAST, SendIf
<1>3. ASSUME NEW g, Holds(g, 0, body) PROVE Heard(g) = a
    <2>1. g[1] = addr /\ g[2] = code
        BY <1>3 DEF Holds
    <2> QED
        BY <2>1, ReadCodes DEF Heard
<1>4. body \in Seq(Octets)
    BY ReadCodes
<1>5. CallOf(TRUE, a).ask = a
    BY DEF CallOf
<1> HIDE DEF body, ok
<1> QED
    BY <1>1, <1>2, <1>3, <1>4, <1>5, FrameAnswers

\* The same of three pieces.
LEMMA HoldsThree ==
    ASSUME NEW s \in Seq(Octets), NEW t \in Seq(Octets), NEW u \in Seq(Octets)
    PROVE  /\ s \o t \o u \in Seq(Octets) /\ Len(s \o t \o u) = Len(s) + Len(t) + Len(u)
           /\ \A g, k : k \in Nat /\ Holds(g, k, s \o t \o u) =>
                 Holds(g, k, s) /\ Holds(g, k + Len(s), t) /\ Holds(g, k + (Len(s) + Len(t)), u)
<1>1. s \o t \in Seq(Octets) /\ Len(s \o t) = Len(s) + Len(t)
    BY JoinedLength
<1> DEFINE v == s \o t
<1> HIDE DEF v
<1>2. v \in Seq(Octets) /\ Len(v) = Len(s) + Len(t)
    BY <1>1 DEF v
<1>3. v \o u \in Seq(Octets) /\ Len(v \o u) = Len(s) + Len(t) + Len(u)
    BY <1>2, JoinedLength
<1>4. ASSUME NEW g, NEW k \in Nat, Holds(g, k, v \o u)
      PROVE  Holds(g, k, s) /\ Holds(g, k + Len(s), t) /\ Holds(g, k + (Len(s) + Len(t)), u)
    <2>1. Holds(g, k, v) /\ Holds(g, k + Len(v), u)
        BY <1>2, <1>4, HoldsBoth
    <2>2. Holds(g, k, s) /\ Holds(g, k + Len(s), t)
        BY <2>1, HoldsBoth DEF v
    <2> QED
        BY <1>2, <2>1, <2>2
<1> QED
    BY <1>3, <1>4 DEF v

\* What the motor makes of the long frames.
LEMMA LongFrames ==
    ASSUME NEW g
    PROVE  /\ g[2] = 246 =>
                 Heard(g) = [command |-> "speed", addr |-> g[1], dir |-> g[3], rpm |-> U16(g, 4),
                             acc |-> g[6], sync |-> g[7]]
           /\ g[2] = 253 =>
                 Heard(g) = [command |-> "position", addr |-> g[1], dir |-> g[3],
                             rpm |-> U16(g, 4), acc |-> g[6], pulses |-> U32(g, 7),
                             mode |-> g[11], sync |-> g[12]]
           /\ g[2] = 241 =>
                 Heard(g) = [command |-> "quick_config", addr |-> g[1], rpm |-> U16(g, 3),
                             acc |-> g[5], mode |-> g[6], sync |-> g[7]]
           /\ g[2] = 252 =>
                 Heard(g) = [command |-> "quick_run", addr |-> g[1], pulses |-> I32(g, 3)]
<1>1. CASE g[2] = 246
    BY <1>1 DEF Heard, READ_CODES, CMD_READ
<1>2. CASE g[2] = 253
    BY <1>2 DEF Heard, READ_CODES, CMD_READ
<1>3. CASE g[2] = 241
    BY <1>3 DEF Heard, READ_CODES, CMD_READ
<1>4. CASE g[2] = 252
    BY <1>4 DEF Heard, READ_CODES, CMD_READ
<1> QED
    BY <1>1, <1>2, <1>3, <1>4

LEMMA SpeedHeard ==
    ASSUME NEW addr \in Octets, NEW dir \in Octets, NEW rpm, Word(rpm), NEW acc \in Octets,
           NEW sync \in Octets, NEW waits \in BOOLEAN,
           NEW a, a = [command |-> "speed", addr |-> addr, dir |-> dir, rpm |-> rpm, acc |-> acc,
                       sync |-> sync]
    PROVE  Answered(CallOf(waits, a), FrameOf(waits, a))
<1> DEFINE s == <<addr, 246, dir>>
           t == zdt_emm_put_u16(rpm)
           u == <<acc, sync>>
           ok == (waits => addr # 0) /\ rpm <= 3000 /\ dir \in {0, 1} /\ sync \in {0, 1}
<1>1. (Allowed(CallOf(waits, a)) <=> ok) /\ ok \in BOOLEAN
    <2>1. CallOf(waits, a).ask = a /\ CallOf(waits, a).waits = waits
        BY DEF CallOf
    <2>2. DOMAIN a = {"command", "addr", "dir", "rpm", "acc", "sync"}
        OBVIOUS
    <2>3. a.command = "speed" /\ a.addr = addr /\ a.dir = dir /\ a.rpm = rpm /\ a.sync = sync
        OBVIOUS
    <2>4. rpm \in 0 .. 3000 <=> rpm <= 3000
        BY DEF Word
    <2> QED
        BY <2>1, <2>2, <2>3, <2>4 DEF Allowed, BROADCAST
<1>2. FrameOf(waits, a) = IF ok THEN Append(s \o t \o u, CHECK) ELSE Refused
    BY DEF FrameOf, Waiting, NotWaiting, zdt_emm_speed, zdt_emm_speed_no_reply, MAX_RPM, DIRS, SYNCS,
        Unicast, BROADCAST, SendIf
<1>3. /\ s \in Seq(Octets) /\ Len(s) = 3 /\ u \in Seq(Octets) /\ t \in Seq(Octets) /\ Len(t) = 2
    BY WordHeard DEF Octets
<1>4. ASSUME NEW g, Holds(g, 0, s \o t \o u) PROVE Heard(g) = a
    <2>1. Holds(g, 0, s) /\ Holds(g, 3, t) /\ Holds(g, 5, u)
        <3> HIDE DEF s, t, u
        <3>1. Holds(g, 0, s) /\ Holds(g, 0 + Len(s), t) /\ Holds(g, 0 + (Len(s) + Len(t)), u)
            BY <1>3, <1>4, HoldsThree
        <3>2. 0 + Len(s) = 3 /\ 0 + (Len(s) + Len(t)) = 5
            BY <1>3
        <3> QED
            BY <3>1, <3>2
    <2>2. g[1] = addr /\ g[2] = 246 /\ g[3] = dir
        BY <2>1 DEF Holds
    <2>3. U16(g, 4) = rpm
        BY <2>1, WordHeard
    <2>4. g[6] = acc /\ g[7] = sync
        BY <2>1 DEF Holds
    <2>5. Heard(g) = [command |-> "speed", addr |-> g[1], dir |-> g[3], rpm |-> U16(g, 4),
                      acc |-> g[6], sync |-> g[7]]
        BY <2>2, LongFrames
    <2> QED
        BY <2>2, <2>3, <2>4, <2>5, Zenon
<1>5. s \o t \o u \in Seq(Octets)
    BY <1>3, HoldsThree
<1>6. CallOf(waits, a).ask = a
    BY DEF CallOf
<1> HIDE DEF s, t, u, ok
<1> QED
    BY <1>1, <1>2, <1>4, <1>5, <1>6, FrameAnswers

LEMMA QuickConfigHeard ==
    ASSUME NEW addr \in Octets, NEW rpm, Word(rpm), NEW acc \in Octets, NEW mode \in Octets,
           NEW sync \in Octets, NEW waits \in BOOLEAN,
           NEW a, a = [command |-> "quick_config", addr |-> addr, rpm |-> rpm, acc |-> acc,
                       mode |-> mode, sync |-> sync]
    PROVE  Answered(CallOf(waits, a), FrameOf(waits, a))
<1> DEFINE s == <<addr, 241>>
           t == zdt_emm_put_u16(rpm)
           u == <<acc, mode, sync>>
           ok == (waits => addr # 0) /\ rpm <= 3000 /\ mode \in {0, 1, 2} /\ sync \in {0, 1}
<1>1. (Allowed(CallOf(waits, a)) <=> ok) /\ ok \in BOOLEAN
    <2>1. CallOf(waits, a).ask = a /\ CallOf(waits, a).waits = waits
        BY DEF CallOf
    <2>2. DOMAIN a = {"command", "addr", "rpm", "acc", "mode", "sync"}
        OBVIOUS
    <2>3. a.command = "quick_config" /\ a.addr = addr /\ a.rpm = rpm /\ a.mode = mode /\ a.sync = sync
        OBVIOUS
    <2>4. (rpm \in 0 .. 3000 <=> rpm <= 3000) /\ (mode \in 0 .. 2 <=> mode \in {0, 1, 2})
        BY DEF Word, Octets
    <2> QED
        BY <2>1, <2>2, <2>3, <2>4 DEF Allowed, BROADCAST
<1>2. FrameOf(waits, a) = IF ok THEN Append(s \o t \o u, CHECK) ELSE Refused
    BY DEF FrameOf, Waiting, NotWaiting, zdt_emm_quick_position_config,
        zdt_emm_quick_position_config_no_reply, MAX_RPM, MOVE_MODES, SYNCS,
        Unicast, BROADCAST, SendIf
<1>3. /\ s \in Seq(Octets) /\ Len(s) = 2 /\ u \in Seq(Octets) /\ t \in Seq(Octets) /\ Len(t) = 2
    BY WordHeard DEF Octets
<1>4. ASSUME NEW g, Holds(g, 0, s \o t \o u) PROVE Heard(g) = a
    <2>1. Holds(g, 0, s) /\ Holds(g, 2, t) /\ Holds(g, 4, u)
        <3> HIDE DEF s, t, u
        <3>1. Holds(g, 0, s) /\ Holds(g, 0 + Len(s), t) /\ Holds(g, 0 + (Len(s) + Len(t)), u)
            BY <1>3, <1>4, HoldsThree
        <3>2. 0 + Len(s) = 2 /\ 0 + (Len(s) + Len(t)) = 4
            BY <1>3
        <3> QED
            BY <3>1, <3>2
    <2>2. g[1] = addr /\ g[2] = 241
        BY <2>1 DEF Holds
    <2>3. U16(g, 3) = rpm
        BY <2>1, WordHeard
    <2>4. g[5] = acc /\ g[6] = mode /\ g[7] = sync
        BY <2>1 DEF Holds
    <2>5. Heard(g) = [command |-> "quick_config", addr |-> g[1], rpm |-> U16(g, 3),
                      acc |-> g[5], mode |-> g[6], sync |-> g[7]]
        BY <2>2, LongFrames
    <2> QED
        BY <2>2, <2>3, <2>4, <2>5, Zenon
<1>5. s \o t \o u \in Seq(Octets)
    BY <1>3, HoldsThree
<1>6. CallOf(waits, a).ask = a
    BY DEF CallOf
<1> HIDE DEF s, t, u, ok
<1> QED
    BY <1>1, <1>2, <1>4, <1>5, <1>6, FrameAnswers

LEMMA QuickRunHeard ==
    ASSUME NEW addr \in Octets, NEW pulses, SignedLong(pulses), NEW waits \in BOOLEAN,
           NEW a, a = [command |-> "quick_run", addr |-> addr, pulses |-> pulses]
    PROVE  Answered(CallOf(waits, a), FrameOf(waits, a))
<1> DEFINE s == <<addr, 252>>
           t == zdt_emm_put_u32(pulses)
           ok == waits => addr # 0
<1>1. (Allowed(CallOf(waits, a)) <=> ok) /\ ok \in BOOLEAN
    BY DEF Allowed, BROADCAST, CallOf
<1>2. FrameOf(waits, a) = IF ok THEN Append(s \o t, CHECK) ELSE Refused
    BY DEF FrameOf, Waiting, NotWaiting, zdt_emm_quick_position_run,
        zdt_emm_quick_position_run_no_reply, Unicast, BROADCAST, SendIf
<1>3. /\ s \in Seq(Octets) /\ Len(s) = 2 /\ t \in Seq(Octets)
    BY SignedLongHeard DEF Octets
<1>4. ASSUME NEW g, Holds(g, 0, s \o t) PROVE Heard(g) = a
    <2>1. Holds(g, 0, s) /\ Holds(g, 2, t)
        <3> HIDE DEF s, t
        <3>1. Holds(g, 0, s) /\ Holds(g, 0 + Len(s), t)
            BY <1>3, <1>4, HoldsBoth
        <3>2. 0 + Len(s) = 2
            BY <1>3
        <3> QED
            BY <3>1, <3>2
    <2>2. g[1] = addr /\ g[2] = 252
        BY <2>1 DEF Holds
    <2>3. I32(g, 3) = pulses
        BY <2>1, SignedLongHeard
    <2>4. Heard(g) = [command |-> "quick_run", addr |-> g[1], pulses |-> I32(g, 3)]
        BY <2>2, LongFrames
    <2> QED
        BY <2>2, <2>3, <2>4, Zenon
<1>5. s \o t \in Seq(Octets)
    BY <1>3, JoinedLength
<1>6. CallOf(waits, a).ask = a
    BY DEF CallOf
<1> HIDE DEF s, t, ok
<1> QED
    BY <1>1, <1>2, <1>4, <1>5, <1>6, FrameAnswers

LEMMA PositionHeard ==
    ASSUME NEW addr \in Octets, NEW dir \in Octets, NEW rpm, Word(rpm), NEW acc \in Octets,
           NEW pulses, Long(pulses), NEW mode \in Octets, NEW sync \in Octets, NEW waits \in BOOLEAN,
           NEW a, a = [command |-> "position", addr |-> addr, dir |-> dir, rpm |-> rpm,
                       acc |-> acc, pulses |-> pulses, mode |-> mode, sync |-> sync]
    PROVE  Answered(CallOf(waits, a), FrameOf(waits, a))
<1> DEFINE s == <<addr, 253, dir>>
           t == zdt_emm_put_u16(rpm)
           u == <<acc>>
           v == zdt_emm_put_u32(pulses)
           w == <<mode, sync>>
           ok == /\ (waits => addr # 0) /\ rpm <= 3000 /\ dir \in {0, 1} /\ mode \in {0, 1, 2}
                 /\ sync \in {0, 1}
           body == s \o t \o u \o v \o w
<1>1. (Allowed(CallOf(waits, a)) <=> ok) /\ ok \in BOOLEAN
    <2>1. CallOf(waits, a).ask = a /\ CallOf(waits, a).waits = waits
        BY DEF CallOf
    <2>2. DOMAIN a = {"command", "addr", "dir", "rpm", "acc", "pulses", "mode", "sync"}
        OBVIOUS
    <2>3. /\ a.command = "position" /\ a.addr = addr /\ a.dir = dir /\ a.rpm = rpm
          /\ a.mode = mode /\ a.sync = sync
        OBVIOUS
    <2>4. (rpm \in 0 .. 3000 <=> rpm <= 3000) /\ (mode \in 0 .. 2 <=> mode \in {0, 1, 2})
        BY DEF Word, Octets
    <2> QED
        BY <2>1, <2>2, <2>3, <2>4 DEF Allowed, BROADCAST
<1>2. FrameOf(waits, a) = IF ok THEN Append(body, CHECK) ELSE Refused
    BY DEF FrameOf, Waiting, NotWaiting, zdt_emm_position_pulses,
        zdt_emm_position_pulses_no_reply, MAX_RPM, DIRS, MOVE_MODES, SYNCS,
        Unicast, BROADCAST, SendIf
<1>3. /\ s \in Seq(Octets) /\ Len(s) = 3 /\ t \in Seq(Octets) /\ Len(t) = 2
      /\ u \in Seq(Octets) /\ Len(u) = 1 /\ w \in Seq(Octets)
    BY WordHeard DEF Octets
<1>4. v \in Seq(Octets) /\ Len(v) = 4
    BY LongHeard
<1>5. /\ body \in Seq(Octets)
      /\ \A g : Holds(g, 0, body) =>
            Holds(g, 0, s) /\ Holds(g, 3, t) /\ Holds(g, 5, u) /\ Holds(g, 6, v) /\ Holds(g, 10, w)
    <2> DEFINE front == s \o t \o u
    <2> HIDE DEF s, t, u, v, w
    <2>1. front \in Seq(Octets) /\ Len(front) = 6
        <3>1. front \in Seq(Octets) /\ Len(front) = Len(s) + Len(t) + Len(u)
            BY <1>3, HoldsThree
        <3> QED
            BY <1>3, <3>1
    <2>2. \A g : Holds(g, 0, front) => Holds(g, 0, s) /\ Holds(g, 3, t) /\ Holds(g, 5, u)
        <3> TAKE g
        <3>1. Holds(g, 0, front) =>
                Holds(g, 0, s) /\ Holds(g, 0 + Len(s), t) /\ Holds(g, 0 + (Len(s) + Len(t)), u)
            BY <1>3, HoldsThree
        <3>2. 0 + Len(s) = 3 /\ 0 + (Len(s) + Len(t)) = 5
            BY <1>3
        <3> QED
            BY <3>1, <3>2
    <2> HIDE DEF front
    <2>3. /\ front \o v \o w \in Seq(Octets)
          /\ \A g : Holds(g, 0, front \o v \o w) =>
                Holds(g, 0, front) /\ Holds(g, 6, v) /\ Holds(g, 10, w)
        <3>1. front \o v \o w \in Seq(Octets)
            BY <1>3, <1>4, <2>1, HoldsThree
        <3>2. 0 + Len(front) = 6 /\ 0 + (Len(front) + Len(v)) = 10
            BY <1>4, <2>1
        <3>3. ASSUME NEW g, Holds(g, 0, front \o v \o w)
              PROVE  Holds(g, 0, front) /\ Holds(g, 6, v) /\ Holds(g, 10, w)
            <4>1. /\ Holds(g, 0, front) /\ Holds(g, 0 + Len(front), v)
                  /\ Holds(g, 0 + (Len(front) + Len(v)), w)
                BY <1>3, <1>4, <2>1, <3>3, HoldsThree
            <4> QED
                BY <3>2, <4>1
        <3> QED
            BY <3>1, <3>3
    <2>4. body = front \o v \o w
        BY DEF front
    <2> QED
        BY <2>2, <2>3, <2>4
<1>6. ASSUME NEW g, Holds(g, 0, body) PROVE Heard(g) = a
    <2> HIDE DEF body
    <2>1. Holds(g, 0, s) /\ Holds(g, 3, t) /\ Holds(g, 5, u) /\ Holds(g, 6, v) /\ Holds(g, 10, w)
        BY <1>5, <1>6
    <2>2. g[1] = addr /\ g[2] = 253 /\ g[3] = dir
        BY <2>1 DEF Holds
    <2>3. U16(g, 4) = rpm
        BY <2>1, WordHeard
    <2>4. g[6] = acc
        BY <2>1 DEF Holds
    <2>5. U32(g, 7) = pulses
        BY <2>1, LongHeard
    <2>6. g[11] = mode /\ g[12] = sync
        BY <2>1 DEF Holds
    <2>7. Heard(g) = [command |-> "position", addr |-> g[1], dir |-> g[3], rpm |-> U16(g, 4),
                      acc |-> g[6], pulses |-> U32(g, 7), mode |-> g[11], sync |-> g[12]]
        BY <2>2, LongFrames
    <2> QED
        BY <2>2, <2>3, <2>4, <2>5, <2>6, <2>7, Zenon
<1>7. CallOf(waits, a).ask = a
    BY DEF CallOf
<1> HIDE DEF body, ok
<1> QED
    BY <1>1, <1>2, <1>5, <1>6, <1>7, FrameAnswers

--------------------------------------------------------------------------------
\* What the driver makes of a reply.

\* The bytes behind address and code.
LEMMA ReplyHolds ==
    ASSUME NEW c \in Octets, NEW bytes \in Seq(Octets)
    PROVE  Holds(<<STEP_MOTOR_ADDR, c>> \o bytes \o <<CHECK>>, 2, bytes)
<1> DEFINE s == <<STEP_MOTOR_ADDR, c>>
           u == <<CHECK>>
           f == s \o bytes \o u
<1>1. s \in Seq(Octets) /\ Len(s) = 2 /\ u \in Seq(Octets)
    BY DEF STEP_MOTOR_ADDR, CHECK, Octets
<1>2. Holds(f, 0, f)
    <2> HIDE DEF s, u
    <2>1. f \in Seq(Octets)
        BY <1>1, HoldsThree
    <2> HIDE DEF f
    <2> QED
        BY <2>1 DEF Holds
<1> HIDE DEF s, u
<1>3. Holds(f, 0 + Len(s), bytes)
    BY <1>1, <1>2, HoldsThree
<1> QED
    BY <1>1, <1>3 DEF f, s, u

LEMMA AnswerIsReport ==
    ASSUME NEW r, MOTOR_CODE[r.of] \in READ_CODES
    PROVE  Answers(r)[MOTOR_CODE[r.of]] = Reply(r)
BY DEF Answers

\* Every quantity is read under the code it is reported under.
LEMMA CodesAgree ==
    /\ MOTOR_CODE["version"] = CMD_READ.VERSION
    /\ MOTOR_CODE["phase"] = CMD_READ.PHASE_RL
    /\ MOTOR_CODE["voltage"] = CMD_READ.VOLTAGE
    /\ MOTOR_CODE["bus_current"] = CMD_READ.BUS_CURRENT
    /\ MOTOR_CODE["phase_current"] = CMD_READ.PHASE_CURRENT
    /\ MOTOR_CODE["encoder"] = CMD_READ.ENCODER
    /\ MOTOR_CODE["input_pulses"] = CMD_READ.INPUT_PULSES
    /\ MOTOR_CODE["target"] = CMD_READ.TARGET
    /\ MOTOR_CODE["set_target"] = CMD_READ.SET_TARGET
    /\ MOTOR_CODE["speed"] = CMD_READ.SPEED
    /\ MOTOR_CODE["position"] = CMD_READ.POSITION
    /\ MOTOR_CODE["position_error"] = CMD_READ.POSITION_ERROR
    /\ MOTOR_CODE["temperature"] = CMD_READ.TEMPERATURE
    /\ MOTOR_CODE["status"] = CMD_READ.STATUS
    /\ MOTOR_CODE["reached"] = CMD_READ.STATUS
    /\ MOTOR_CODE["home_status"] = CMD_READ.HOME_STATUS
    /\ MOTOR_CODE["all_status"] = CMD_READ.ALL_STATUS
    /\ MOTOR_CODE["io_status"] = CMD_READ.IO_STATUS
BY DEF MOTOR_CODE, CMD_READ

LEMMA CodesAreRead ==
    {MOTOR_CODE[q] : q \in DOMAIN MOTOR_CODE} \subseteq READ_CODES
BY DEF MOTOR_CODE, READ_CODES, CMD_READ

\* A number comes back as it was reported.
LEMMA WordReply ==
    ASSUME NEW r, r.of \in WORDS, Word(r.word)
    PROVE  zdt_emm_read_u16_value(Reply(r)) = r.word
<1> DEFINE h == r.word \div 256
           l == r.word % 256
           c == MOTOR_CODE[r.of]
<1>1. h \in Octets /\ l \in Octets /\ 256 * h + l = r.word
    BY WordParts DEF Octets
<1>2. Reply(r) = <<STEP_MOTOR_ADDR, c>> \o <<h, l>> \o <<CHECK>>
    <2>1. /\ r.of \notin LONGS /\ r.of # "speed" /\ r.of # "temperature"
          /\ r.of \notin {"version", "phase"} /\ r.of # "all_status"
        BY DEF LONGS, WORDS
    <2> QED
        BY <2>1 DEF Reply
<1>3. c \in Octets
    BY DEF WORDS, MOTOR_CODE, Octets
<1> HIDE DEF h, l, c
<1>4. <<h, l>> \in Seq(Octets) /\ Len(<<h, l>>) = 2 /\ <<h, l>>[1] = h /\ <<h, l>>[2] = l
    BY <1>1
<1>5. Reply(r)[3] = h /\ Reply(r)[4] = l
    <2>1. Holds(Reply(r), 2, <<h, l>>)
        BY <1>2, <1>3, <1>4, ReplyHolds
    <2> QED
        BY <1>4, <2>1 DEF Holds
<1> QED
    BY <1>1, <1>5 DEF zdt_emm_read_u16_value, zdt_emm_get_u16

SignedNumber(r) == IF r.negative THEN -r.magnitude ELSE r.magnitude

LEMMA SignGiven ==
    ASSUME NEW r, r.negative \in BOOLEAN, NEW reply, reply[3] = IF r.negative THEN 1 ELSE 0
    PROVE  WithSign(reply, r.magnitude) = SignedNumber(r)
BY DEF WithSign, SignedNumber

LEMMA LongReply ==
    ASSUME NEW r, r.of \in LONGS, r.negative \in BOOLEAN, Long(r.magnitude)
    PROVE  zdt_emm_read_signed_u32(Reply(r)) = SignedNumber(r)
<1> DEFINE sign == IF r.negative THEN 1 ELSE 0
           m == r.magnitude
           high == m \div 65536
           low == m % 65536
           b1 == high \div 256
           b2 == high % 256
           b3 == low \div 256
           b4 == m % 256
           c == MOTOR_CODE[r.of]
           bytes == <<sign, b1, b2, b3, b4>>
<1>1. Word(high) /\ Word(low) /\ m = 65536 * high + low
    BY LongParts DEF Long
<1>2. b4 = low % 256
    BY Z3 DEF Long
<1>3. Reply(r) = <<STEP_MOTOR_ADDR, c>> \o bytes \o <<CHECK>>
    <2>1. /\ r.of \notin WORDS /\ r.of # "speed" /\ r.of # "temperature"
          /\ r.of \notin {"version", "phase"} /\ r.of # "all_status"
        BY DEF LONGS, WORDS
    <2> QED
        BY <2>1 DEF Reply
<1>4. c \in Octets
    BY DEF LONGS, MOTOR_CODE, Octets
<1> HIDE DEF high, low
<1>5. /\ b1 \in Octets /\ b2 \in Octets /\ 256 * b1 + b2 = high
      /\ b3 \in Octets /\ b4 \in Octets /\ 256 * b3 + b4 = low
    BY <1>1, <1>2, WordParts DEF Octets
<1>6. sign \in Octets
    BY DEF Octets
<1> HIDE DEF m, b1, b2, b3, b4, c, sign
<1>7. /\ bytes \in Seq(Octets) /\ Len(bytes) = 5
      /\ bytes[1] = sign /\ bytes[2] = b1 /\ bytes[3] = b2 /\ bytes[4] = b3 /\ bytes[5] = b4
    BY <1>5, <1>6
<1> HIDE DEF bytes
<1>8. /\ Reply(r)[3] = sign /\ Reply(r)[4] = b1 /\ Reply(r)[5] = b2
      /\ Reply(r)[6] = b3 /\ Reply(r)[7] = b4
    <2>1. Holds(Reply(r), 2, bytes)
        BY <1>3, <1>4, <1>7, ReplyHolds
    <2> QED
        BY <1>7, <2>1 DEF Holds
<1>9. zdt_emm_get_u32(Reply(r)[4], Reply(r)[5], Reply(r)[6], Reply(r)[7]) = r.magnitude
    BY <1>1, <1>5, <1>8 DEF zdt_emm_get_u32, zdt_emm_get_u16, m
<1>10. WithSign(Reply(r), r.magnitude) = SignedNumber(r)
    BY <1>8, SignGiven DEF sign
<1> QED
    BY <1>9, <1>10 DEF zdt_emm_read_signed_u32

LEMMA SpeedReply ==
    ASSUME NEW r, r.of = "speed", r.negative \in BOOLEAN, Word(r.magnitude)
    PROVE  zdt_emm_read_speed_rpm(Answers(r)) = SignedNumber(r)
<1> DEFINE sign == IF r.negative THEN 1 ELSE 0
           h == r.magnitude \div 256
           l == r.magnitude % 256
           c == MOTOR_CODE[r.of]
           bytes == <<sign, h, l>>
<1>1. h \in Octets /\ l \in Octets /\ 256 * h + l = r.magnitude
    BY WordParts DEF Octets
<1>2. Reply(r) = <<STEP_MOTOR_ADDR, c>> \o bytes \o <<CHECK>>
    <2>1. r.of \notin WORDS /\ r.of \notin LONGS
        BY DEF LONGS, WORDS
    <2> QED
        BY <2>1 DEF Reply
<1>3. c \in Octets /\ c \in READ_CODES /\ c = CMD_READ.SPEED
    BY CodesAgree DEF CMD_READ, READ_CODES, Octets
<1>4. sign \in Octets
    BY DEF Octets
<1>5. Answers(r)[CMD_READ.SPEED] = Reply(r)
    BY <1>3, AnswerIsReport
<1> HIDE DEF h, l, c, sign
<1>6. /\ bytes \in Seq(Octets) /\ Len(bytes) = 3
      /\ bytes[1] = sign /\ bytes[2] = h /\ bytes[3] = l
    BY <1>1, <1>4
<1> HIDE DEF bytes
<1>7. Reply(r)[3] = sign /\ Reply(r)[4] = h /\ Reply(r)[5] = l
    <2>1. Holds(Reply(r), 2, bytes)
        BY <1>2, <1>3, <1>6, ReplyHolds
    <2> QED
        BY <1>6, <2>1 DEF Holds
<1>8. WithSign(Reply(r), r.magnitude) = SignedNumber(r)
    BY <1>7, SignGiven DEF sign
<1>9. zdt_emm_get_u16(Reply(r)[4], Reply(r)[5]) = r.magnitude
    BY <1>1, <1>7 DEF zdt_emm_get_u16
<1> QED
    BY <1>5, <1>8, <1>9 DEF zdt_emm_read_speed_rpm

LEMMA TemperatureReply ==
    ASSUME NEW r, r.of = "temperature", r.negative \in BOOLEAN, r.magnitude \in Octets
    PROVE  zdt_emm_read_temperature_c(Answers(r)) = SignedNumber(r)
<1> DEFINE sign == IF r.negative THEN 1 ELSE 0
           l == r.magnitude % 256
           c == MOTOR_CODE[r.of]
           bytes == <<sign, l>>
<1>1. l = r.magnitude
    BY Z3 DEF Octets
<1>2. Reply(r) = <<STEP_MOTOR_ADDR, c>> \o bytes \o <<CHECK>>
    <2>1. r.of \notin WORDS /\ r.of \notin LONGS
        BY DEF LONGS, WORDS
    <2> QED
        BY <2>1 DEF Reply
<1>3. c \in Octets /\ c \in READ_CODES /\ c = CMD_READ.TEMPERATURE
    BY CodesAgree DEF CMD_READ, READ_CODES, Octets
<1>4. sign \in Octets
    BY DEF Octets
<1>5. Answers(r)[CMD_READ.TEMPERATURE] = Reply(r)
    BY <1>3, AnswerIsReport
<1> HIDE DEF l, c, sign
<1>6. bytes \in Seq(Octets) /\ Len(bytes) = 2 /\ bytes[1] = sign /\ bytes[2] = l
    BY <1>1, <1>4
<1> HIDE DEF bytes
<1>7. Reply(r)[3] = sign /\ Reply(r)[4] = l
    <2>1. Holds(Reply(r), 2, bytes)
        BY <1>2, <1>3, <1>6, ReplyHolds
    <2> QED
        BY <1>6, <2>1 DEF Holds
<1>8. WithSign(Reply(r), r.magnitude) = SignedNumber(r)
    BY <1>7, SignGiven DEF sign
<1> QED
    BY <1>1, <1>5, <1>7, <1>8 DEF zdt_emm_read_temperature_c

LEMMA TwoWordsReply ==
    ASSUME NEW r, r.of \in {"version", "phase"}, Word(r.word), Word(r.second)
    PROVE  /\ zdt_emm_get_u16(Reply(r)[3], Reply(r)[4]) = r.word
           /\ Reply(r)[5] \in Octets /\ Reply(r)[6] \in Octets
           /\ zdt_emm_get_u16(Reply(r)[5], Reply(r)[6]) = r.second
<1> DEFINE h == r.word \div 256
           l == r.word % 256
           x == r.second \div 256
           y == r.second % 256
           c == MOTOR_CODE[r.of]
           bytes == <<h, l, x, y>>
<1>1. /\ h \in Octets /\ l \in Octets /\ 256 * h + l = r.word
      /\ x \in Octets /\ y \in Octets /\ 256 * x + y = r.second
    BY WordParts DEF Octets
<1>2. Reply(r) = <<STEP_MOTOR_ADDR, c>> \o bytes \o <<CHECK>>
    <2>1. r.of \notin WORDS /\ r.of \notin LONGS /\ r.of # "speed" /\ r.of # "temperature"
        BY DEF LONGS, WORDS
    <2> QED
        BY <2>1 DEF Reply
<1>3. c \in Octets
    BY CodesAgree DEF CMD_READ, Octets
<1> HIDE DEF h, l, x, y, c
<1>4. /\ bytes \in Seq(Octets) /\ Len(bytes) = 4
      /\ bytes[1] = h /\ bytes[2] = l /\ bytes[3] = x /\ bytes[4] = y
    BY <1>1
<1> HIDE DEF bytes
<1>5. Reply(r)[3] = h /\ Reply(r)[4] = l /\ Reply(r)[5] = x /\ Reply(r)[6] = y
    <2>1. Holds(Reply(r), 2, bytes)
        BY <1>2, <1>3, <1>4, ReplyHolds
    <2> QED
        BY <1>4, <2>1 DEF Holds
<1> QED
    BY <1>1, <1>5 DEF zdt_emm_get_u16

LEMMA FlagsReply ==
    ASSUME NEW r, r.of \in {"status", "reached", "home_status", "io_status"}, r.flags \in Octets
    PROVE  Reply(r)[3] = r.flags
<1> DEFINE c == MOTOR_CODE[r.of]
           bytes == <<r.flags>>
<1>1. Reply(r) = <<STEP_MOTOR_ADDR, c>> \o bytes \o <<CHECK>>
    <2>1. /\ r.of \notin WORDS /\ r.of \notin LONGS /\ r.of # "speed" /\ r.of # "temperature"
          /\ r.of \notin {"version", "phase"} /\ r.of # "all_status"
        BY DEF LONGS, WORDS
    <2> QED
        BY <2>1 DEF Reply
<1>2. c \in Octets
    BY CodesAgree DEF CMD_READ, Octets
<1> HIDE DEF c
<1>3. bytes \in Seq(Octets) /\ Len(bytes) = 1 /\ bytes[1] = r.flags
    OBVIOUS
<1> HIDE DEF bytes
<1>4. Holds(Reply(r), 2, bytes)
    BY <1>1, <1>2, <1>3, ReplyHolds
<1> QED
    BY <1>3, <1>4 DEF Holds

LEMMA AllFlagsReply ==
    ASSUME NEW r, r.of = "all_status", r.home \in Octets, r.motor \in Octets
    PROVE  Reply(r)[3] = r.home /\ Reply(r)[4] = r.motor
<1> DEFINE c == MOTOR_CODE[r.of]
           bytes == <<r.home, r.motor>>
<1>1. Reply(r) = <<STEP_MOTOR_ADDR, c>> \o bytes \o <<CHECK>>
    <2>1. /\ r.of \notin WORDS /\ r.of \notin LONGS /\ r.of # "speed" /\ r.of # "temperature"
          /\ r.of \notin {"version", "phase"}
        BY DEF LONGS, WORDS
    <2> QED
        BY <2>1 DEF Reply
<1>2. c \in Octets
    BY CodesAgree DEF CMD_READ, Octets
<1> HIDE DEF c
<1>3. bytes \in Seq(Octets) /\ Len(bytes) = 2 /\ bytes[1] = r.home /\ bytes[2] = r.motor
    OBVIOUS
<1> HIDE DEF bytes
<1>4. Holds(Reply(r), 2, bytes)
    BY <1>1, <1>2, <1>3, ReplyHolds
<1> QED
    BY <1>3, <1>4 DEF Holds

\* A byte is the sum of its flags.
BitOf(n, mask) == (n \div mask) % 2

LEMMA EightBits ==
    ASSUME NEW n \in Octets
    PROVE  /\ \A mask \in {1, 2, 4, 8, 16, 32, 64, 128} : BitOf(n, mask) \in {0, 1}
           /\ n = BitOf(n, 1) + 2 * BitOf(n, 2) + 4 * BitOf(n, 4) + 8 * BitOf(n, 8)
                  + 16 * BitOf(n, 16) + 32 * BitOf(n, 32) + 64 * BitOf(n, 64) + 128 * BitOf(n, 128)
           /\ n % 64 = BitOf(n, 1) + 2 * BitOf(n, 2) + 4 * BitOf(n, 4) + 8 * BitOf(n, 8)
                       + 16 * BitOf(n, 16) + 32 * BitOf(n, 32)
<1>0. n \in Nat /\ n <= 255
    BY DEF Octets
<1>1. BitOf(n, 1) \in {0, 1} /\ n = BitOf(n, 1) + 2 * (n \div 2) /\ n \div 2 \in Nat
    BY <1>0, Z3 DEF BitOf
<1>2. BitOf(n, 2) \in {0, 1} /\ n \div 2 = BitOf(n, 2) + 2 * (n \div 4) /\ n \div 4 \in Nat
    BY <1>0, Z3 DEF BitOf
<1>3. BitOf(n, 4) \in {0, 1} /\ n \div 4 = BitOf(n, 4) + 2 * (n \div 8) /\ n \div 8 \in Nat
    BY <1>0, Z3 DEF BitOf
<1>4. BitOf(n, 8) \in {0, 1} /\ n \div 8 = BitOf(n, 8) + 2 * (n \div 16) /\ n \div 16 \in Nat
    BY <1>0, Z3 DEF BitOf
<1>5. BitOf(n, 16) \in {0, 1} /\ n \div 16 = BitOf(n, 16) + 2 * (n \div 32) /\ n \div 32 \in Nat
    BY <1>0, Z3 DEF BitOf
<1>6. BitOf(n, 32) \in {0, 1} /\ n \div 32 = BitOf(n, 32) + 2 * (n \div 64) /\ n \div 64 \in Nat
    BY <1>0, Z3 DEF BitOf
<1>7. BitOf(n, 64) \in {0, 1} /\ n \div 64 = BitOf(n, 64) + 2 * (n \div 128) /\ n \div 128 \in Nat
    BY <1>0, Z3 DEF BitOf
<1>8. BitOf(n, 128) \in {0, 1} /\ BitOf(n, 128) = n \div 128
    BY <1>0, Z3 DEF BitOf
<1>9. n % 64 = n - 64 * (n \div 64) /\ n % 64 \in Nat
    BY <1>0, Z3
<1> DEFINE b0 == BitOf(n, 1)
           b1 == BitOf(n, 2)
           b2 == BitOf(n, 4)
           b3 == BitOf(n, 8)
           b4 == BitOf(n, 16)
           b5 == BitOf(n, 32)
           b6 == BitOf(n, 64)
           b7 == BitOf(n, 128)
<1>10. /\ b0 \in {0, 1} /\ b1 \in {0, 1} /\ b2 \in {0, 1} /\ b3 \in {0, 1}
       /\ b4 \in {0, 1} /\ b5 \in {0, 1} /\ b6 \in {0, 1} /\ b7 \in {0, 1}
    BY <1>1, <1>2, <1>3, <1>4, <1>5, <1>6, <1>7, <1>8
<1> DEFINE q1 == n \div 2
           q2 == n \div 4
           q3 == n \div 8
           q4 == n \div 16
           q5 == n \div 32
           q6 == n \div 64
           q7 == n \div 128
           r6 == n % 64
<1>11. /\ n = b0 + 2 * q1 /\ q1 = b1 + 2 * q2 /\ q2 = b2 + 2 * q3 /\ q3 = b3 + 2 * q4
       /\ q4 = b4 + 2 * q5 /\ q5 = b5 + 2 * q6 /\ q6 = b6 + 2 * q7 /\ q7 = b7
       /\ r6 = n - 64 * q6
    BY <1>1, <1>2, <1>3, <1>4, <1>5, <1>6, <1>7, <1>8, <1>9
<1> HIDE DEF b0, b1, b2, b3, b4, b5, b6, b7, q1, q2, q3, q4, q5, q6, q7, r6
<1>12. /\ n = b0 + 2 * b1 + 4 * b2 + 8 * b3 + 16 * b4 + 32 * b5 + 64 * b6 + 128 * b7
       /\ r6 = b0 + 2 * b1 + 4 * b2 + 8 * b3 + 16 * b4 + 32 * b5
    BY <1>10, <1>11
<1> QED
    BY <1>10, <1>12 DEF b0, b1, b2, b3, b4, b5, b6, b7, r6

LEMMA FlagIsBit ==
    ASSUME NEW n \in Octets, NEW mask \in {1, 2, 4, 8, 16, 32, 64, 128}
    PROVE  /\ Bit(n, mask) \in BOOLEAN
           /\ One(Bit(n, mask)) = BitOf(n, mask)
           /\ Bit(n, mask) <=> Masked(n, mask) # n
<1>1. BitOf(n, mask) \in {0, 1} /\ n \in Nat /\ mask \in Nat \ {0}
    BY EightBits DEF Octets
<1>2. Bit(n, mask) <=> BitOf(n, mask) = 1
    BY DEF Bit, BitOf
<1>3. Masked(n, mask) = n - BitOf(n, mask) * mask
    BY DEF Masked, BitOf
<1> HIDE DEF BitOf
<1>4. CASE BitOf(n, mask) = 0
    BY <1>1, <1>2, <1>3, <1>4 DEF One, Bit
<1>5. CASE BitOf(n, mask) = 1
    BY <1>1, <1>2, <1>3, <1>5 DEF One, Bit
<1> QED
    BY <1>1, <1>4, <1>5

LEMMA MotorFlagsGiven ==
    ASSUME NEW n \in Octets
    PROVE  MotorFlags(zdt_emm_decode_status(n)) = Masked(n, 64)
<1> DEFINE v == zdt_emm_decode_status(n)
<1>1. /\ v.enabled = Bit(n, 1) /\ v.reached = Bit(n, 2) /\ v.stall = Bit(n, 4)
      /\ v.stall_protect = Bit(n, 8) /\ v.left_limit_high = Bit(n, 16)
      /\ v.right_limit_high = Bit(n, 32) /\ v.power_loss = Bit(n, 128)
    BY DEF zdt_emm_decode_status
<1> HIDE DEF v
<1>2. MotorFlags(v) = BitOf(n, 1) + 2 * BitOf(n, 2) + 4 * BitOf(n, 4) + 8 * BitOf(n, 8)
                      + 16 * BitOf(n, 16) + 32 * BitOf(n, 32) + 128 * BitOf(n, 128)
    BY <1>1, FlagIsBit DEF MotorFlags
<1>3. Masked(n, 64) = n - BitOf(n, 64) * 64
    BY DEF Masked, BitOf
<1> QED
    BY <1>2, <1>3, EightBits DEF v

LEMMA HomeFlagsGiven ==
    ASSUME NEW n \in Octets
    PROVE  HomeFlags(zdt_emm_decode_home_status(n)) = n % 64
<1> DEFINE v == zdt_emm_decode_home_status(n)
<1>1. /\ v.encoder_ready = Bit(n, 1) /\ v.calibration_ready = Bit(n, 2) /\ v.homing = Bit(n, 4)
      /\ v.homing_failed = Bit(n, 8) /\ v.over_temperature = Bit(n, 16)
      /\ v.over_current = Bit(n, 32)
    BY DEF zdt_emm_decode_home_status
<1> HIDE DEF v
<1>2. HomeFlags(v) = BitOf(n, 1) + 2 * BitOf(n, 2) + 4 * BitOf(n, 4) + 8 * BitOf(n, 8)
                     + 16 * BitOf(n, 16) + 32 * BitOf(n, 32)
    BY <1>1, FlagIsBit DEF HomeFlags
<1> QED
    BY <1>2, EightBits DEF v

--------------------------------------------------------------------------------
\* What is asked of the driver.

LEMMA ArgumentFacts ==
    /\ \A n \in Addrs \cup Accs \cup DirArgs \cup SyncArgs \cup ModeArgs \cup HomeArgs : n \in Octets
    /\ \A n \in FlagBytes : n \in Octets
    /\ \A n \in Rpms \cup Words : Word(n)
    /\ \A n \in Pulses \cup Angles \cup Magnitudes : Long(n)
    /\ \A n \in SignedPulses : SignedLong(n)
<1>1. \A n \in Rpms \cup Words : Word(n)
    BY TalkAssumption DEF Word
<1>2. \A n \in Pulses \cup Angles \cup Magnitudes : Long(n)
    <2> TAKE n \in Pulses \cup Angles \cup Magnitudes
    <2>1. n \in Nat /\ n \div 65536 < 65536
        BY TalkAssumption
    <2>2. n \div 65536 \in Int
        BY <2>1, Z3
    <2> QED
        BY <2>1, <2>2 DEF Long
<1>3. \A n \in SignedPulses : SignedLong(n)
    <2> TAKE n \in SignedPulses
    <2>1. n \in Int /\ -32768 <= n \div 65536 /\ n \div 65536 < 32768
        BY TalkAssumption
    <2>2. n \div 65536 \in Int
        BY <2>1, Z3
    <2> QED
        BY <2>1, <2>2 DEF SignedLong, SignedWord
<1> QED
    BY <1>1, <1>2, <1>3, TalkAssumption DEF Octets

\* The sets Asks is made of.
EnableAsks == [command : {"enable"}, addr : Addrs, on : BOOLEAN, sync : SyncArgs]
SpeedAsks ==
    [command : {"speed"}, addr : Addrs, dir : DirArgs, rpm : Rpms, acc : Accs, sync : SyncArgs]
PositionAsks ==
    [command : {"position"}, addr : Addrs, dir : DirArgs, rpm : Rpms, acc : Accs,
     pulses : Pulses, mode : ModeArgs, sync : SyncArgs]
QuickConfigAsks ==
    [command : {"quick_config"}, addr : Addrs, rpm : Rpms, acc : Accs,
     mode : ModeArgs, sync : SyncArgs]
QuickRunAsks == [command : {"quick_run"}, addr : Addrs, pulses : SignedPulses]
StopAsks == [command : {"stop"}, addr : Addrs, sync : SyncArgs]
HomeAsks == [command : {"home"}, addr : Addrs, mode : HomeArgs, sync : SyncArgs]
HomeZeroAsks == [command : {"set_home_zero"}, addr : Addrs, store : BOOLEAN]
ActionAsks == [command : {"home_abort", "zero_position", "clear_protection"}, addr : Addrs]
WaitingAsks == [command : {"calibrate", "restart", "factory_reset"}, addr : Addrs]
SyncStartAsks == [command : {"sync_start"}, addr : {BROADCAST}]
ReadAsks == [command : {"read"}, addr : Addrs, code : READ_CODES]

LEMMA AskCases ==
    ASSUME NEW a \in Asks
    PROVE  \/ a \in EnableAsks \/ a \in SpeedAsks \/ a \in PositionAsks \/ a \in QuickConfigAsks
           \/ a \in QuickRunAsks \/ a \in StopAsks \/ a \in HomeAsks \/ a \in HomeZeroAsks
           \/ a \in ActionAsks \/ a \in WaitingAsks \/ a \in SyncStartAsks \/ a \in ReadAsks
<1>1. Asks = EnableAsks \cup SpeedAsks \cup PositionAsks \cup QuickConfigAsks \cup QuickRunAsks
             \cup StopAsks \cup HomeAsks \cup HomeZeroAsks \cup ActionAsks \cup WaitingAsks
             \cup SyncStartAsks \cup ReadAsks
    BY Zenon DEF Asks, EnableAsks, SpeedAsks, PositionAsks, QuickConfigAsks, QuickRunAsks, StopAsks,
        HomeAsks, HomeZeroAsks, ActionAsks, WaitingAsks, SyncStartAsks, ReadAsks
<1> QED
    BY <1>1, Zenon

LEMMA AskFields ==
    ASSUME NEW a
    PROVE  /\ a \in EnableAsks => /\ a.addr \in Addrs /\ a.on \in BOOLEAN /\ a.sync \in SyncArgs
                 /\ a = [command |-> "enable", addr |-> a.addr, on |-> a.on, sync |-> a.sync]
           /\ a \in QuickRunAsks => /\ a.addr \in Addrs /\ a.pulses \in SignedPulses
                 /\ a = [command |-> "quick_run", addr |-> a.addr, pulses |-> a.pulses]
           /\ a \in StopAsks => /\ a.addr \in Addrs /\ a.sync \in SyncArgs
                 /\ a = [command |-> "stop", addr |-> a.addr, sync |-> a.sync]
           /\ a \in HomeAsks => /\ a.addr \in Addrs /\ a.mode \in HomeArgs /\ a.sync \in SyncArgs
                 /\ a = [command |-> "home", addr |-> a.addr, mode |-> a.mode, sync |-> a.sync]
           /\ a \in HomeZeroAsks => /\ a.addr \in Addrs /\ a.store \in BOOLEAN
                 /\ a = [command |-> "set_home_zero", addr |-> a.addr, store |-> a.store]
           /\ a \in ActionAsks => /\ a.addr \in Addrs
                 /\ a.command \in {"home_abort", "zero_position", "clear_protection"}
                 /\ a = [command |-> a.command, addr |-> a.addr]
           /\ a \in WaitingAsks => /\ a.addr \in Addrs
                 /\ a.command \in {"calibrate", "restart", "factory_reset"}
                 /\ a = [command |-> a.command, addr |-> a.addr]
           /\ a \in SyncStartAsks => a = [command |-> "sync_start", addr |-> 0]
           /\ a \in ReadAsks => /\ a.addr \in Addrs /\ a.code \in READ_CODES
                 /\ a = [command |-> "read", addr |-> a.addr, code |-> a.code]
<1>1. a \in EnableAsks => /\ a.addr \in Addrs /\ a.on \in BOOLEAN /\ a.sync \in SyncArgs
                 /\ a = [command |-> "enable", addr |-> a.addr, on |-> a.on, sync |-> a.sync]
    BY DEF EnableAsks
<1>2. a \in QuickRunAsks => /\ a.addr \in Addrs /\ a.pulses \in SignedPulses
                 /\ a = [command |-> "quick_run", addr |-> a.addr, pulses |-> a.pulses]
    BY DEF QuickRunAsks
<1>3. a \in StopAsks => /\ a.addr \in Addrs /\ a.sync \in SyncArgs
                 /\ a = [command |-> "stop", addr |-> a.addr, sync |-> a.sync]
    BY DEF StopAsks
<1>4. a \in HomeAsks => /\ a.addr \in Addrs /\ a.mode \in HomeArgs /\ a.sync \in SyncArgs
                 /\ a = [command |-> "home", addr |-> a.addr, mode |-> a.mode, sync |-> a.sync]
    BY DEF HomeAsks
<1>5. a \in HomeZeroAsks => /\ a.addr \in Addrs /\ a.store \in BOOLEAN
                 /\ a = [command |-> "set_home_zero", addr |-> a.addr, store |-> a.store]
    BY DEF HomeZeroAsks
<1>6. a \in ActionAsks => /\ a.addr \in Addrs
                 /\ a.command \in {"home_abort", "zero_position", "clear_protection"}
                 /\ a = [command |-> a.command, addr |-> a.addr]
    BY DEF ActionAsks
<1>7. a \in WaitingAsks => /\ a.addr \in Addrs
                 /\ a.command \in {"calibrate", "restart", "factory_reset"}
                 /\ a = [command |-> a.command, addr |-> a.addr]
    BY DEF WaitingAsks
<1>8. a \in SyncStartAsks => a = [command |-> "sync_start", addr |-> 0]
    BY DEF SyncStartAsks, BROADCAST
<1>9. a \in ReadAsks => /\ a.addr \in Addrs /\ a.code \in READ_CODES
                 /\ a = [command |-> "read", addr |-> a.addr, code |-> a.code]
    BY DEF ReadAsks
<1> QED
    BY <1>1, <1>2, <1>3, <1>4, <1>5, <1>6, <1>7, <1>8, <1>9, Zenon

LEMMA LongAskFields ==
    ASSUME NEW a
    PROVE  /\ a \in SpeedAsks =>
                 /\ a.addr \in Addrs /\ a.dir \in DirArgs /\ a.rpm \in Rpms /\ a.acc \in Accs
                 /\ a.sync \in SyncArgs
                 /\ a = [command |-> "speed", addr |-> a.addr, dir |-> a.dir, rpm |-> a.rpm,
                         acc |-> a.acc, sync |-> a.sync]
           /\ a \in PositionAsks =>
                 /\ a.addr \in Addrs /\ a.dir \in DirArgs /\ a.rpm \in Rpms /\ a.acc \in Accs
                 /\ a.pulses \in Pulses /\ a.mode \in ModeArgs /\ a.sync \in SyncArgs
                 /\ a = [command |-> "position", addr |-> a.addr, dir |-> a.dir, rpm |-> a.rpm,
                         acc |-> a.acc, pulses |-> a.pulses, mode |-> a.mode, sync |-> a.sync]
           /\ a \in QuickConfigAsks =>
                 /\ a.addr \in Addrs /\ a.rpm \in Rpms /\ a.acc \in Accs
                 /\ a.mode \in ModeArgs /\ a.sync \in SyncArgs
                 /\ a = [command |-> "quick_config", addr |-> a.addr, rpm |-> a.rpm,
                         acc |-> a.acc, mode |-> a.mode, sync |-> a.sync]
<1>1. ASSUME a \in SpeedAsks
      PROVE  /\ a.addr \in Addrs /\ a.dir \in DirArgs /\ a.rpm \in Rpms /\ a.acc \in Accs
             /\ a.sync \in SyncArgs
             /\ a = [command |-> "speed", addr |-> a.addr, dir |-> a.dir, rpm |-> a.rpm,
                     acc |-> a.acc, sync |-> a.sync]
    BY <1>1 DEF SpeedAsks
<1>2. ASSUME a \in PositionAsks
      PROVE  /\ a.addr \in Addrs /\ a.dir \in DirArgs /\ a.rpm \in Rpms /\ a.acc \in Accs
             /\ a.pulses \in Pulses /\ a.mode \in ModeArgs /\ a.sync \in SyncArgs
             /\ a = [command |-> "position", addr |-> a.addr, dir |-> a.dir, rpm |-> a.rpm,
                     acc |-> a.acc, pulses |-> a.pulses, mode |-> a.mode, sync |-> a.sync]
    BY <1>2 DEF PositionAsks
<1>3. ASSUME a \in QuickConfigAsks
      PROVE  /\ a.addr \in Addrs /\ a.rpm \in Rpms /\ a.acc \in Accs
             /\ a.mode \in ModeArgs /\ a.sync \in SyncArgs
             /\ a = [command |-> "quick_config", addr |-> a.addr, rpm |-> a.rpm,
                     acc |-> a.acc, mode |-> a.mode, sync |-> a.sync]
    BY <1>3 DEF QuickConfigAsks
<1> QED
    BY <1>1, <1>2, <1>3, Zenon

LEMMA CommandHeard ==
    ASSUME NEW a \in Asks, NEW waits \in BOOLEAN, a.command \in AlwaysWaits => waits
    PROVE  Answered(CallOf(waits, a), FrameOf(waits, a))
<1>1. CASE a \in EnableAsks
    BY <1>1, ArgumentFacts, AskFields, EnableHeard
<1>2. CASE a \in SpeedAsks
    <2>1. /\ a.addr \in Octets /\ a.dir \in Octets /\ Word(a.rpm) /\ a.acc \in Octets /\ a.sync \in Octets
          /\ a = [command |-> "speed", addr |-> a.addr, dir |-> a.dir, rpm |-> a.rpm,
                  acc |-> a.acc, sync |-> a.sync]
        BY <1>2, ArgumentFacts, LongAskFields, Zenon
    <2> QED
        BY <2>1, SpeedHeard, Zenon
<1>3. CASE a \in PositionAsks
    <2>1. /\ a.addr \in Octets /\ a.dir \in Octets /\ Word(a.rpm) /\ a.acc \in Octets
          /\ Long(a.pulses) /\ a.mode \in Octets /\ a.sync \in Octets
          /\ a = [command |-> "position", addr |-> a.addr, dir |-> a.dir, rpm |-> a.rpm,
                  acc |-> a.acc, pulses |-> a.pulses, mode |-> a.mode, sync |-> a.sync]
        BY <1>3, ArgumentFacts, LongAskFields, Zenon
    <2> QED
        BY <2>1, PositionHeard, Zenon
<1>4. CASE a \in QuickConfigAsks
    <2>1. /\ a.addr \in Octets /\ Word(a.rpm) /\ a.acc \in Octets
          /\ a.mode \in Octets /\ a.sync \in Octets
          /\ a = [command |-> "quick_config", addr |-> a.addr, rpm |-> a.rpm,
                  acc |-> a.acc, mode |-> a.mode, sync |-> a.sync]
        BY <1>4, ArgumentFacts, LongAskFields, Zenon
    <2> QED
        BY <2>1, QuickConfigHeard, Zenon
<1>5. CASE a \in QuickRunAsks
    BY <1>5, ArgumentFacts, AskFields, QuickRunHeard
<1>6. CASE a \in StopAsks
    BY <1>6, ArgumentFacts, AskFields, StopHeard
<1>7. CASE a \in HomeAsks
    BY <1>7, ArgumentFacts, AskFields, HomeHeard
<1>8. CASE a \in HomeZeroAsks
    <2>1. waits = TRUE
        BY <1>8, AskFields DEF AlwaysWaits
    <2> QED
        <3>1. /\ a.addr \in Octets /\ a.store \in BOOLEAN
              /\ a = [command |-> "set_home_zero", addr |-> a.addr, store |-> a.store]
            BY <1>8, ArgumentFacts, AskFields, Zenon
        <3> QED
            BY <2>1, <3>1, HomeZeroHeard, Zenon
<1>9. CASE a \in ActionAsks
    BY <1>9, ArgumentFacts, AskFields, HomeAbortHeard, ZeroPositionHeard, ClearProtectionHeard
<1>10. CASE a \in WaitingAsks
    <2>1. waits = TRUE
        BY <1>10, AskFields DEF AlwaysWaits
    <2> QED
        BY <1>10, <2>1, ArgumentFacts, AskFields, CalibrateHeard, RestartHeard, FactoryHeard
<1>11. CASE a \in SyncStartAsks
    BY <1>11, AskFields, SyncStartHeard
<1>12. CASE a \in ReadAsks
    <2>1. waits = TRUE
        BY <1>12, AskFields DEF AlwaysWaits
    <2> QED
        BY <1>12, <2>1, ArgumentFacts, AskFields, ReadHeard
<1> QED
    BY <1>1, <1>2, <1>3, <1>4, <1>5, <1>6, <1>7, <1>8, <1>9, <1>10, <1>11, <1>12, AskCases

--------------------------------------------------------------------------------
\* The wrappers.  All are for motor 1, so that it makes no difference to the arguments whether
\* a call waits.
LEMMA WaitsAlike ==
    ASSUME NEW a, a.addr = 1, NEW f, NEW waits \in BOOLEAN, Answered(CallOf(waits, a), f)
    PROVE  Answered(CallOf(TRUE, a), f)
<1> DEFINE has(field) == field \in DOMAIN a
           ok == /\ has("rpm") => a.rpm \in 0 .. 3000
                 /\ has("dir") => a.dir \in {0, 1}
                 /\ has("sync") => a.sync \in {0, 1}
                 /\ has("mode") => a.mode \in IF a.command = "home" THEN 0 .. 5 ELSE 0 .. 2
<1>1. CallOf(waits, a).ask = a /\ CallOf(TRUE, a).ask = a
    BY DEF CallOf
<1>2. a.addr # BROADCAST
    BY DEF BROADCAST
<1>3. ASSUME NEW made, made.ask = a
      PROVE  Allowed(made) <=> ok
    BY <1>2, <1>3 DEF Allowed
<1> HIDE DEF ok
<1>4. Allowed(CallOf(waits, a)) <=> Allowed(CallOf(TRUE, a))
    BY <1>1, <1>3
<1> QED
    BY <1>1, <1>4 DEF Answered

LEMMA WrappedCases ==
    ASSUME NEW w \in Wrapped
    PROVE  \/ w \in {Wrapper(StepMotor_Stop_NoReply, StopAsk), Wrapper(StepMotor_Stop, StopAsk),
                     Wrapper(StepMotor_ZeroPosition, ZeroAsk)}
           \/ \E angle \in Angles :
                 w \in {Wrapper(StepMotor_MoveToAbsoluteAngle(angle), MoveAsk(0, angle, 1)),
                       Wrapper(StepMotor_MoveToAbsoluteAngle_NoReply(angle), MoveAsk(0, angle, 1))}
           \/ \E dir \in {0, 1}, angle \in Angles :
                 w \in {Wrapper(StepMotor_MoveRelativeAngle(dir, angle), MoveAsk(dir, angle, 2)),
                       Wrapper(StepMotor_MoveRelativeAngle_NoReply(dir, angle), MoveAsk(dir, angle, 2))}
           \/ \E mode \in 0 .. 2 : w = Wrapper(StepMotor_QuickConfig(mode), ConfigAsk(mode))
           \/ \E pulses \in SignedPulses :
                 w = Wrapper(StepMotor_QuickMoveByPulses(pulses), QuickAsk(pulses))
           \/ \E dir \in DirArgs, rpm \in Rpms :
                 w \in {Wrapper(StepMotor_RunSpeed(dir, rpm), RunAsk(dir, rpm)),
                       Wrapper(StepMotor_RunSpeed_NoReply(dir, rpm), RunAsk(dir, rpm))}
<1> DEFINE Plain == {Wrapper(StepMotor_Stop_NoReply, StopAsk), Wrapper(StepMotor_Stop, StopAsk),
                     Wrapper(StepMotor_ZeroPosition, ZeroAsk)}
           MoveCalls == {Wrapper(StepMotor_MoveToAbsoluteAngle(angle), MoveAsk(0, angle, 1)) :
                        angle \in Angles}
           MoveCallsNoReply ==
               {Wrapper(StepMotor_MoveToAbsoluteAngle_NoReply(angle), MoveAsk(0, angle, 1)) :
                   angle \in Angles}
           Turns == {Wrapper(StepMotor_MoveRelativeAngle(dir, angle), MoveAsk(dir, angle, 2)) :
                        dir \in {0, 1}, angle \in Angles}
           TurnsNoReply ==
               {Wrapper(StepMotor_MoveRelativeAngle_NoReply(dir, angle), MoveAsk(dir, angle, 2)) :
                   dir \in {0, 1}, angle \in Angles}
           Configs == {Wrapper(StepMotor_QuickConfig(mode), ConfigAsk(mode)) : mode \in 0 .. 2}
           Quicks == {Wrapper(StepMotor_QuickMoveByPulses(pulses), QuickAsk(pulses)) :
                         pulses \in SignedPulses}
           Runs == {Wrapper(StepMotor_RunSpeed(dir, rpm), RunAsk(dir, rpm)) :
                       dir \in DirArgs, rpm \in Rpms}
           RunsNoReply == {Wrapper(StepMotor_RunSpeed_NoReply(dir, rpm), RunAsk(dir, rpm)) :
                              dir \in DirArgs, rpm \in Rpms}
<1>1. /\ w \in MoveCalls \cup MoveCallsNoReply => \E angle \in Angles :
            w \in {Wrapper(StepMotor_MoveToAbsoluteAngle(angle), MoveAsk(0, angle, 1)),
                  Wrapper(StepMotor_MoveToAbsoluteAngle_NoReply(angle), MoveAsk(0, angle, 1))}
      /\ w \in Turns \cup TurnsNoReply => \E dir \in {0, 1}, angle \in Angles :
            w \in {Wrapper(StepMotor_MoveRelativeAngle(dir, angle), MoveAsk(dir, angle, 2)),
                  Wrapper(StepMotor_MoveRelativeAngle_NoReply(dir, angle), MoveAsk(dir, angle, 2))}
    OBVIOUS
<1>2. /\ w \in Configs => \E mode \in 0 .. 2 : w = Wrapper(StepMotor_QuickConfig(mode), ConfigAsk(mode))
      /\ w \in Quicks => \E pulses \in SignedPulses :
            w = Wrapper(StepMotor_QuickMoveByPulses(pulses), QuickAsk(pulses))
      /\ w \in Runs \cup RunsNoReply => \E dir \in DirArgs, rpm \in Rpms :
            w \in {Wrapper(StepMotor_RunSpeed(dir, rpm), RunAsk(dir, rpm)),
                  Wrapper(StepMotor_RunSpeed_NoReply(dir, rpm), RunAsk(dir, rpm))}
    OBVIOUS
<1>3. Wrapped = Plain \cup MoveCalls \cup MoveCallsNoReply \cup Turns \cup TurnsNoReply \cup Configs
                \cup Quicks \cup Runs \cup RunsNoReply
    BY DEF Wrapped
<1>4. \/ w \in Plain \/ w \in MoveCalls \cup MoveCallsNoReply \/ w \in Turns \cup TurnsNoReply
      \/ w \in Configs \/ w \in Quicks \/ w \in Runs \cup RunsNoReply
    <2> HIDE DEF Plain, MoveCalls, MoveCallsNoReply, Turns, TurnsNoReply, Configs, Quicks, Runs, RunsNoReply
    <2> QED
        BY <1>3
<1> QED
    BY <1>1, <1>2, <1>4

\* The driver's rounding of an angle to pulses, of any 32-bit angle: no more pulses than
\* tenths of a degree.
LEMMA AngleToPulses ==
    ASSUME NEW angle, Long(angle)
    PROVE  /\ zdt_emm_degrees_to_pulses_x10(angle, PULSES_PER_REV) = (16 * angle + 9) \div 18
           /\ Long((16 * angle + 9) \div 18)
<1> DEFINE p == (16 * angle + 9) \div 18
           q == (angle * 3200 + 1800) \div 3600
           h == angle \div 65536
           k == p \div 65536
<1>0. angle \in Nat /\ h <= 65535
    BY DEF Long
<1>1. p \in Nat /\ 18 * p <= 16 * angle + 9 /\ 16 * angle + 9 < 18 * p + 18
    BY <1>0, Z3
<1>2. q \in Nat /\ 3600 * q <= angle * 3200 + 1800 /\ angle * 3200 + 1800 < 3600 * q + 3600
    BY <1>0, Z3
<1>3. h \in Nat /\ angle < 65536 * h + 65536
    BY <1>0, Z3
<1> HIDE DEF p, q, h
<1>4. q = p
    BY <1>0, <1>1, <1>2
<1>5. p <= angle
    BY <1>0, <1>1
<1>6. k \in Nat /\ 65536 * k <= p
    BY <1>1, Z3
<1> HIDE DEF k
<1>7. k <= h
    BY <1>0, <1>3, <1>1, <1>5, <1>6
<1>8. Long(p)
    BY <1>0, <1>1, <1>3, <1>6, <1>7 DEF Long, k
<1>9. zdt_emm_degrees_to_pulses_x10(angle, PULSES_PER_REV) = q
    BY DEF zdt_emm_degrees_to_pulses_x10, PULSES_PER_REV, q
<1> QED
    BY <1>4, <1>8, <1>9 DEF p

LEMMA MoveWrapped ==
    ASSUME NEW dir \in {0, 1}, NEW angle, Long(angle), NEW mode \in {1, 2}, NEW waits \in BOOLEAN
    PROVE  Answered(CallOf(TRUE, MoveAsk(dir, angle, mode)),
              IF waits THEN zdt_emm_position_pulses(STEP_MOTOR_ADDR, dir, MOTOR_RPM, MOTOR_ACC,
                    zdt_emm_degrees_to_pulses_x10(angle, PULSES_PER_REV), mode, 0)
              ELSE zdt_emm_position_pulses_no_reply(STEP_MOTOR_ADDR, dir, MOTOR_RPM, MOTOR_ACC,
                    zdt_emm_degrees_to_pulses_x10(angle, PULSES_PER_REV), mode, 0))
<1> DEFINE p == (16 * angle + 9) \div 18
           a == MoveAsk(dir, angle, mode)
<1>1. Long(p) /\ zdt_emm_degrees_to_pulses_x10(angle, PULSES_PER_REV) = p
    BY AngleToPulses
<1>2. a = [command |-> "position", addr |-> 1, dir |-> dir, rpm |-> 500, acc |-> 50,
           pulses |-> p, mode |-> mode, sync |-> 0]
    BY DEF MoveAsk
<1>3. 1 \in Octets /\ dir \in Octets /\ Word(500) /\ 50 \in Octets /\ mode \in Octets /\ 0 \in Octets
    BY DEF Octets, Word
<1> HIDE DEF p, a
<1>4. Answered(CallOf(waits, a), FrameOf(waits, a))
    BY <1>1, <1>2, <1>3, PositionHeard
<1>5. a.addr = 1
    BY <1>2
<1>6. Answered(CallOf(TRUE, a), FrameOf(waits, a))
    BY <1>4, <1>5, WaitsAlike
<1>7. FrameOf(waits, a) = IF waits THEN zdt_emm_position_pulses(1, dir, 500, 50, p, mode, 0)
                          ELSE zdt_emm_position_pulses_no_reply(1, dir, 500, 50, p, mode, 0)
    BY <1>2 DEF FrameOf, Waiting, NotWaiting
<1> QED
    BY <1>1, <1>6, <1>7 DEF STEP_MOTOR_ADDR, MOTOR_RPM, MOTOR_ACC, a

LEMMA RunWrapped ==
    ASSUME NEW dir \in Octets, NEW rpm, Word(rpm), NEW waits \in BOOLEAN
    PROVE  Answered(CallOf(TRUE, RunAsk(dir, rpm)),
              IF waits THEN StepMotor_RunSpeed(dir, rpm) ELSE StepMotor_RunSpeed_NoReply(dir, rpm))
<1> DEFINE a == RunAsk(dir, rpm)
<1>1. a = [command |-> "speed", addr |-> 1, dir |-> dir, rpm |-> rpm, acc |-> 50, sync |-> 0]
    BY DEF RunAsk
<1>2. 1 \in Octets /\ 50 \in Octets /\ 0 \in Octets
    BY DEF Octets
<1> HIDE DEF a
<1>3. Answered(CallOf(waits, a), FrameOf(waits, a))
    BY <1>1, <1>2, SpeedHeard
<1>4. a.addr = 1
    BY <1>1
<1>5. Answered(CallOf(TRUE, a), FrameOf(waits, a))
    BY <1>3, <1>4, WaitsAlike
<1>6. FrameOf(waits, a) = IF waits THEN zdt_emm_speed(1, dir, rpm, 50, 0)
                          ELSE zdt_emm_speed_no_reply(1, dir, rpm, 50, 0)
    BY <1>1 DEF FrameOf, Waiting, NotWaiting
<1> QED
    BY <1>5, <1>6 DEF StepMotor_RunSpeed, StepMotor_RunSpeed_NoReply, STEP_MOTOR_ADDR, MOTOR_ACC, a

LEMMA OthersWrapped ==
    /\ Answered(CallOf(TRUE, StopAsk), StepMotor_Stop)
    /\ Answered(CallOf(TRUE, StopAsk), StepMotor_Stop_NoReply)
    /\ Answered(CallOf(TRUE, ZeroAsk), StepMotor_ZeroPosition)
    /\ \A mode \in 0 .. 2 : Answered(CallOf(TRUE, ConfigAsk(mode)), StepMotor_QuickConfig(mode))
    /\ \A pulses \in SignedPulses :
          Answered(CallOf(TRUE, QuickAsk(pulses)), StepMotor_QuickMoveByPulses(pulses))
<1>0. 1 \in Octets /\ 50 \in Octets /\ 0 \in Octets /\ Word(500)
    BY DEF Octets, Word
<1>1. \A waits \in BOOLEAN : Answered(CallOf(TRUE, StopAsk), FrameOf(waits, StopAsk))
    <2> TAKE waits \in BOOLEAN
    <2>1. Answered(CallOf(waits, StopAsk), FrameOf(waits, StopAsk))
        BY <1>0, StopHeard DEF StopAsk
    <2> QED
        BY <2>1, WaitsAlike DEF StopAsk
<1>2. /\ FrameOf(TRUE, StopAsk) = StepMotor_Stop
      /\ FrameOf(FALSE, StopAsk) = StepMotor_Stop_NoReply
    BY DEF FrameOf, Waiting, NotWaiting, StopAsk, StepMotor_Stop, StepMotor_Stop_NoReply, STEP_MOTOR_ADDR
<1>3. Answered(CallOf(TRUE, ZeroAsk), StepMotor_ZeroPosition)
    <2>1. Answered(CallOf(TRUE, ZeroAsk), FrameOf(TRUE, ZeroAsk))
        BY <1>0, ZeroPositionHeard DEF ZeroAsk
    <2> QED
        BY <2>1 DEF FrameOf, Waiting, ZeroAsk, StepMotor_ZeroPosition, STEP_MOTOR_ADDR
<1>4. ASSUME NEW mode \in 0 .. 2
      PROVE  Answered(CallOf(TRUE, ConfigAsk(mode)), StepMotor_QuickConfig(mode))
    <2> DEFINE a == ConfigAsk(mode)
    <2>1. a = [command |-> "quick_config", addr |-> 1, rpm |-> 500, acc |-> 50, mode |-> mode,
               sync |-> 0]
        BY DEF ConfigAsk
    <2>2. mode \in Octets
        BY DEF Octets
    <2> HIDE DEF a
    <2>3. ASSUME NEW waits \in BOOLEAN
          PROVE  Answered(CallOf(waits, a), FrameOf(waits, a))
        BY <1>0, <2>1, <2>2, QuickConfigHeard
    <2>4. FrameOf(TRUE, a) = zdt_emm_quick_position_config(1, 500, 50, mode, 0)
        BY <2>1 DEF FrameOf, Waiting
    <2> QED
        BY <2>3, <2>4 DEF StepMotor_QuickConfig, STEP_MOTOR_ADDR, MOTOR_RPM, MOTOR_ACC, a
<1>5. ASSUME NEW pulses \in SignedPulses
      PROVE  Answered(CallOf(TRUE, QuickAsk(pulses)), StepMotor_QuickMoveByPulses(pulses))
    <2> DEFINE a == QuickAsk(pulses)
    <2>1. a = [command |-> "quick_run", addr |-> 1, pulses |-> pulses]
        BY DEF QuickAsk
    <2>2. SignedLong(pulses)
        BY ArgumentFacts
    <2> HIDE DEF a
    <2>3. Answered(CallOf(TRUE, a), FrameOf(TRUE, a))
        BY <1>0, <2>1, <2>2, QuickRunHeard
    <2>4. FrameOf(TRUE, a) = zdt_emm_quick_position_run(1, pulses)
        BY <2>1 DEF FrameOf, Waiting
    <2> QED
        BY <2>3, <2>4 DEF StepMotor_QuickMoveByPulses, STEP_MOTOR_ADDR, a
<1> QED
    BY <1>1, <1>2, <1>3, <1>4, <1>5

LEMMA WrapperHeard ==
    ASSUME NEW w \in Wrapped
    PROVE  Answered(CallOf(TRUE, w.ask), w.frame)
<1>1. ASSUME NEW f, NEW a, Answered(CallOf(TRUE, a), f), w = Wrapper(f, a)
      PROVE  Answered(CallOf(TRUE, w.ask), w.frame)
    BY <1>1 DEF Wrapper
<1>2. CASE w \in {Wrapper(StepMotor_Stop_NoReply, StopAsk), Wrapper(StepMotor_Stop, StopAsk),
                  Wrapper(StepMotor_ZeroPosition, ZeroAsk)}
    BY <1>1, <1>2, OthersWrapped
<1>3. ASSUME NEW angle \in Angles,
             w \in {Wrapper(StepMotor_MoveToAbsoluteAngle(angle), MoveAsk(0, angle, 1)),
                    Wrapper(StepMotor_MoveToAbsoluteAngle_NoReply(angle), MoveAsk(0, angle, 1))}
      PROVE  Answered(CallOf(TRUE, w.ask), w.frame)
    <2>1. Long(angle)
        BY ArgumentFacts
    <2>2. /\ Answered(CallOf(TRUE, MoveAsk(0, angle, 1)), StepMotor_MoveToAbsoluteAngle(angle))
          /\ Answered(CallOf(TRUE, MoveAsk(0, angle, 1)), StepMotor_MoveToAbsoluteAngle_NoReply(angle))
        BY <2>1, MoveWrapped DEF StepMotor_MoveToAbsoluteAngle, StepMotor_MoveToAbsoluteAngle_NoReply
    <2> QED
        BY <1>1, <1>3, <2>2
<1>4. ASSUME NEW dir \in {0, 1}, NEW angle \in Angles,
             w \in {Wrapper(StepMotor_MoveRelativeAngle(dir, angle), MoveAsk(dir, angle, 2)),
                    Wrapper(StepMotor_MoveRelativeAngle_NoReply(dir, angle), MoveAsk(dir, angle, 2))}
      PROVE  Answered(CallOf(TRUE, w.ask), w.frame)
    <2>1. Long(angle)
        BY ArgumentFacts
    <2>2. /\ Answered(CallOf(TRUE, MoveAsk(dir, angle, 2)), StepMotor_MoveRelativeAngle(dir, angle))
          /\ Answered(CallOf(TRUE, MoveAsk(dir, angle, 2)), StepMotor_MoveRelativeAngle_NoReply(dir, angle))
        BY <2>1, MoveWrapped DEF StepMotor_MoveRelativeAngle, StepMotor_MoveRelativeAngle_NoReply
    <2> QED
        BY <1>1, <1>4, <2>2
<1>5. ASSUME NEW dir \in DirArgs, NEW rpm \in Rpms,
             w \in {Wrapper(StepMotor_RunSpeed(dir, rpm), RunAsk(dir, rpm)),
                    Wrapper(StepMotor_RunSpeed_NoReply(dir, rpm), RunAsk(dir, rpm))}
      PROVE  Answered(CallOf(TRUE, w.ask), w.frame)
    <2>1. dir \in Octets /\ Word(rpm)
        BY ArgumentFacts
    <2>2. /\ Answered(CallOf(TRUE, RunAsk(dir, rpm)), StepMotor_RunSpeed(dir, rpm))
          /\ Answered(CallOf(TRUE, RunAsk(dir, rpm)), StepMotor_RunSpeed_NoReply(dir, rpm))
        BY <2>1, RunWrapped
    <2> QED
        BY <1>1, <1>5, <2>2
<1>6. ASSUME NEW mode \in 0 .. 2, w = Wrapper(StepMotor_QuickConfig(mode), ConfigAsk(mode))
      PROVE  Answered(CallOf(TRUE, w.ask), w.frame)
    BY <1>1, <1>6, OthersWrapped
<1>7. ASSUME NEW pulses \in SignedPulses,
             w = Wrapper(StepMotor_QuickMoveByPulses(pulses), QuickAsk(pulses))
      PROVE  Answered(CallOf(TRUE, w.ask), w.frame)
    BY <1>1, <1>7, OthersWrapped
<1> QED
    BY <1>2, <1>3, <1>4, <1>5, <1>6, <1>7, WrappedCases, Zenon

--------------------------------------------------------------------------------
\* Every report is read as it was made.

LEMMA ReportFields ==
    ASSUME NEW r \in Reports, Fits(r)
    PROVE  \/ r.of \in WORDS /\ Word(r.word)
           \/ r.of \in LONGS /\ r.negative \in BOOLEAN /\ Long(r.magnitude)
           \/ r.of = "speed" /\ r.negative \in BOOLEAN /\ Word(r.magnitude)
           \/ r.of = "temperature" /\ r.negative \in BOOLEAN /\ r.magnitude \in Octets
           \/ r.of \in {"version", "phase"} /\ Word(r.word) /\ Word(r.second)
           \/ r.of \in {"status", "reached", "home_status", "io_status"} /\ r.flags \in Octets
           \/ r.of = "all_status" /\ r.home \in Octets /\ r.motor \in Octets
<1>1. \/ r.of \in WORDS /\ r.word \in Words
      \/ r.of \in LONGS /\ r.negative \in BOOLEAN /\ r.magnitude \in Magnitudes
      \/ r.of \in {"speed", "temperature"} /\ r.negative \in BOOLEAN /\ r.magnitude \in Magnitudes
      \/ r.of \in {"version", "phase"} /\ r.word \in Words /\ r.second \in Words
      \/ r.of \in {"status", "reached", "home_status", "io_status"} /\ r.flags \in FlagBytes
      \/ r.of = "all_status" /\ r.home \in FlagBytes /\ r.motor \in FlagBytes
    BY DEF Reports
<1>2. ASSUME r.of = "speed", r.magnitude \in Magnitudes
      PROVE  Word(r.magnitude)
    BY <1>2, ArgumentFacts DEF Fits, Word, Long
<1>3. ASSUME r.of = "temperature", r.magnitude \in Magnitudes
      PROVE  r.magnitude \in Octets
    BY <1>3, ArgumentFacts DEF Fits, Octets, Long
<1> QED
    BY <1>1, <1>2, <1>3, ArgumentFacts

LEMMA WordSaid ==
    ASSUME NEW r, r.of \in WORDS, Word(r.word), NEW value \in Readings(r)
    PROVE  Says(r, value)
<1>1. zdt_emm_read_u16_value(Reply(r)) = r.word
    BY WordReply
<1>2. MOTOR_CODE[r.of] \in READ_CODES
    BY CodesAreRead DEF WORDS, MOTOR_CODE
<1>3. Answers(r)[MOTOR_CODE[r.of]] = Reply(r)
    BY <1>2, AnswerIsReport
<1>4. value = r.word
    <2>1. r.of = "voltage" \/ r.of = "bus_current" \/ r.of = "phase_current" \/ r.of = "encoder"
        BY DEF WORDS
    <2> QED
        BY <1>1, <1>3, <2>1, CodesAgree
        DEF Readings, zdt_emm_read_bus_voltage_mv, zdt_emm_read_bus_current_ma,
            zdt_emm_read_phase_current_ma, zdt_emm_read_encoder_raw, StepMotor_ReadEncoder
<1>5. /\ r.of \notin LONGS \cup {"speed", "temperature"}
      /\ r.of # "reached" /\ r.of # "version" /\ r.of # "phase" /\ r.of # "status"
      /\ r.of # "home_status" /\ r.of # "io_status" /\ r.of # "all_status"
    BY DEF WORDS, LONGS
<1> QED
    BY <1>4, <1>5, Zenon DEF Says

LEMMA NumberSaid ==
    ASSUME NEW r, r.of \in LONGS \cup {"speed", "temperature"}, r.negative \in BOOLEAN,
           NEW value, value = SignedNumber(r)
    PROVE  Says(r, value)
<1>1. /\ r.of \notin WORDS
      /\ r.of # "reached" /\ r.of # "version" /\ r.of # "phase" /\ r.of # "status"
      /\ r.of # "home_status" /\ r.of # "io_status" /\ r.of # "all_status"
    BY DEF WORDS, LONGS
<1> QED
    BY <1>1, Zenon DEF Says, SignedNumber

LEMMA LongSaid ==
    ASSUME NEW r, r.of \in LONGS, r.negative \in BOOLEAN, Long(r.magnitude),
           NEW value \in Readings(r)
    PROVE  Says(r, value)
<1>1. zdt_emm_read_signed_u32(Reply(r)) = SignedNumber(r)
    BY LongReply
<1>2. MOTOR_CODE[r.of] \in READ_CODES
    BY CodesAreRead DEF LONGS, MOTOR_CODE
<1>3. Answers(r)[MOTOR_CODE[r.of]] = Reply(r)
    BY <1>2, AnswerIsReport
<1>4. value = SignedNumber(r)
    <2>1. \/ r.of = "input_pulses" \/ r.of = "target" \/ r.of = "set_target"
          \/ r.of = "position" \/ r.of = "position_error"
        BY DEF LONGS
    <2> QED
        BY <1>1, <1>3, <2>1, CodesAgree
        DEF Readings, zdt_emm_read_input_pulses, zdt_emm_read_target_position_raw,
            zdt_emm_read_set_target_position_raw, zdt_emm_read_position_raw,
            StepMotor_ReadPosition, zdt_emm_read_position_error_raw
<1> QED
    BY <1>4, NumberSaid

LEMMA VersionSaid ==
    ASSUME NEW r, r.of = "version", Word(r.word), Word(r.second), NEW value \in Readings(r)
    PROVE  Says(r, value)
<1>1. Answers(r)[CMD_READ.VERSION] = Reply(r)
    BY AnswerIsReport, CodesAgree, CodesAreRead DEF MOTOR_CODE
<1>2. value = zdt_emm_read_version(Answers(r))
    BY DEF Readings
<1>3. PICK x, y : x = Reply(r)[5] /\ y = Reply(r)[6]
    OBVIOUS
<1>4. /\ value.firmware_version = zdt_emm_get_u16(Reply(r)[3], Reply(r)[4])
      /\ value.hardware_series = x \div 16 /\ value.hardware_type = x % 16
      /\ value.hardware_version = y
    BY <1>1, <1>2, <1>3 DEF zdt_emm_read_version
<1>5. /\ zdt_emm_get_u16(Reply(r)[3], Reply(r)[4]) = r.word
      /\ x \in Octets /\ y \in Octets /\ zdt_emm_get_u16(x, y) = r.second
    BY <1>3, TwoWordsReply
<1>6. 16 * (x \div 16) + (x % 16) = x /\ x \div 16 \in Int /\ x % 16 \in Int
    <2>1. x \in Int
        BY <1>5 DEF Octets
    <2> QED
        BY <2>1, Z3
<1>7. 4096 * (x \div 16) + 256 * (x % 16) + y = r.second
    BY <1>5, <1>6 DEF zdt_emm_get_u16, Octets
<1>8. r.of \notin WORDS /\ r.of \notin LONGS \cup {"speed", "temperature"}
    BY DEF WORDS, LONGS
<1> QED
    BY <1>4, <1>5, <1>7, <1>8 DEF Says

LEMMA PhaseSaid ==
    ASSUME NEW r, r.of = "phase", Word(r.word), Word(r.second), NEW value \in Readings(r)
    PROVE  Says(r, value)
<1>1. Answers(r)[CMD_READ.PHASE_RL] = Reply(r)
    BY AnswerIsReport, CodesAgree, CodesAreRead DEF MOTOR_CODE
<1>2. value = zdt_emm_read_phase_parameters(Answers(r))
    BY DEF Readings
<1>3. value.resistance_milliohm = r.word /\ value.inductance_uh = r.second
    BY <1>1, <1>2, TwoWordsReply DEF zdt_emm_read_phase_parameters
<1>4. r.of \notin WORDS /\ r.of \notin LONGS \cup {"speed", "temperature"}
    BY DEF WORDS, LONGS
<1> QED
    BY <1>3, <1>4 DEF Says

LEMMA FlagsSaid ==
    ASSUME NEW r, r.of \in {"status", "reached", "home_status", "io_status"}, r.flags \in Octets,
           NEW value \in Readings(r)
    PROVE  Says(r, value)
<1> DEFINE n == r.flags
           answer == Answers(r)[MOTOR_CODE[r.of]]
<1>1. answer[3] = n
    <2>1. MOTOR_CODE[r.of] \in READ_CODES
        BY CodesAreRead DEF MOTOR_CODE
    <2> QED
        BY <2>1, AnswerIsReport, FlagsReply
<1>2. r.of \notin WORDS /\ r.of \notin LONGS \cup {"speed", "temperature"}
    BY DEF WORDS, LONGS
<1>3. CASE r.of = "status"
    <2>1. value = zdt_emm_decode_status(n)
        BY <1>1, <1>3, CodesAgree DEF Readings, StepMotor_ReadStatus, zdt_emm_read_status
    <2> QED
        BY <1>2, <1>3, <2>1, MotorFlagsGiven DEF Says
<1>4. CASE r.of = "reached"
    <2>1. value = zdt_emm_decode_status(n).reached
        BY <1>1, <1>4, CodesAgree DEF Readings, StepMotor_IsReached, zdt_emm_read_status
    <2>2. value = Bit(n, 2)
        BY <2>1 DEF zdt_emm_decode_status
    <2> QED
        BY <1>2, <1>4, <2>2, FlagIsBit DEF Says
<1>5. CASE r.of = "home_status"
    <2>1. value = zdt_emm_decode_home_status(n)
        BY <1>1, <1>5, CodesAgree DEF Readings, zdt_emm_read_home_status
    <2> QED
        BY <1>2, <1>5, <2>1, HomeFlagsGiven DEF Says
<1>6. CASE r.of = "io_status"
    <2>1. /\ value.enable_pin_high = Bit(n, 1) /\ value.step_pin_high = Bit(n, 4)
          /\ value.direction_pin_high = Bit(n, 16) /\ value.direction_output = Bit(n, 32)
        BY <1>1, <1>6, CodesAgree DEF Readings, zdt_emm_read_io_status
    <2> QED
        BY <1>2, <1>6, <2>1, FlagIsBit DEF Says
<1> QED
    BY <1>3, <1>4, <1>5, <1>6

LEMMA ReportHeard ==
    ASSUME NEW r \in Reports, Fits(r), NEW value \in Readings(r)
    PROVE  Says(r, value)
<1>1. CASE r.of \in WORDS /\ Word(r.word)
    BY <1>1, WordSaid
<1>2. CASE r.of \in LONGS /\ r.negative \in BOOLEAN /\ Long(r.magnitude)
    BY <1>2, LongSaid
<1>3. CASE r.of = "speed" /\ r.negative \in BOOLEAN /\ Word(r.magnitude)
    <2>1. value = zdt_emm_read_speed_rpm(Answers(r))
        BY <1>3 DEF Readings
    <2> QED
        BY <1>3, <2>1, SpeedReply, NumberSaid
<1>4. CASE r.of = "temperature" /\ r.negative \in BOOLEAN /\ r.magnitude \in Octets
    <2>1. value = zdt_emm_read_temperature_c(Answers(r))
        BY <1>4 DEF Readings
    <2> QED
        BY <1>4, <2>1, TemperatureReply, NumberSaid
<1>5. CASE r.of \in {"version", "phase"} /\ Word(r.word) /\ Word(r.second)
    BY <1>5, VersionSaid, PhaseSaid
<1>6. CASE r.of \in {"status", "reached", "home_status", "io_status"} /\ r.flags \in Octets
    BY <1>6, FlagsSaid
<1>7. CASE r.of = "all_status" /\ r.home \in Octets /\ r.motor \in Octets
    <2>1. Answers(r)[CMD_READ.ALL_STATUS] = Reply(r)
        BY <1>7, AnswerIsReport, CodesAgree, CodesAreRead DEF MOTOR_CODE
    <2>2. value = zdt_emm_read_all_status(Answers(r))
        BY <1>7 DEF Readings
    <2>3. /\ value.home = zdt_emm_decode_home_status(r.home)
          /\ value.motor = zdt_emm_decode_status(r.motor)
        BY <1>7, <2>1, <2>2, AllFlagsReply DEF zdt_emm_read_all_status
    <2>4. r.of \notin WORDS /\ r.of \notin LONGS \cup {"speed", "temperature"}
        BY <1>7 DEF WORDS, LONGS
    <2> QED
        BY <1>7, <2>3, <2>4, HomeFlagsGiven, MotorFlagsGiven DEF Says
<1> QED
    BY <1>1, <1>2, <1>3, <1>4, <1>5, <1>6, <1>7, ReportFields

\* A report is no command.
LEMMA ReportsApart ==
    ASSUME NEW r \in Reports
    PROVE  r.of # "command"
BY DEF Reports, WORDS, LONGS

LEMMA CallMeans ==
    ASSUME NEW waits \in BOOLEAN, NEW ask, exchange' = CallOf(waits, ask),
           NEW f, outcome' = <<"command", f>>, Answered(CallOf(waits, ask), f)
    PROVE  SameMeaning'
<1>1. exchange'.of = "command" /\ exchange'.ask = ask /\ outcome'[2] = f
    BY DEF CallOf
<1>2. IF Allowed(exchange') THEN Understood(f, ask) ELSE f = Refused
    BY <1>1 DEF Answered
<1> QED
    BY <1>1, <1>2 DEF SameMeaning, Understood

\* The driver and the motor mean the same by every frame and every reply: the motor
\* takes from a command what the caller asked, an argument out of its range sends nothing,
\* and the readers return what was reported, with its sign.
THEOREM DriverAndMotorAgree == TalkSpec => []SameMeaning
<1>1. TalkInit => SameMeaning
    BY DEF TalkInit, Silence, SameMeaning
<1>2. SameMeaning /\ [TalkNext]_talkVars => SameMeaning'
    <2> SUFFICES ASSUME SameMeaning, [TalkNext]_talkVars
                 PROVE  SameMeaning'
        OBVIOUS
    <2>1. CASE Command
        <3>1. PICK ask \in Asks, waits \in BOOLEAN :
                 /\ ask.command \in AlwaysWaits => waits
                 /\ exchange' = [of |-> "command", waits |-> waits, ask |-> ask]
                 /\ outcome' = <<"command", IF waits THEN Waiting(ask) ELSE NotWaiting(ask)>>
            BY <2>1, Zenon DEF Command
        <3>2. Answered(CallOf(waits, ask), FrameOf(waits, ask))
            BY <3>1, CommandHeard
        <3> QED
            BY <3>1, <3>2, CallMeans DEF CallOf, FrameOf
    <2>2. CASE WrapperCall
        <3>1. PICK w \in Wrapped :
                 /\ exchange' = [of |-> "command", waits |-> TRUE, ask |-> w.ask]
                 /\ outcome' = <<"command", w.frame>>
            BY <2>2, Zenon DEF WrapperCall
        <3>2. Answered(CallOf(TRUE, w.ask), w.frame)
            BY WrapperHeard
        <3> QED
            BY <3>1, <3>2, CallMeans DEF CallOf
    <2>3. CASE Reading
        <3>1. PICK r \in Reports : /\ Fits(r)
                                   /\ exchange' = r
                                   /\ \E value \in Readings(r) : outcome' = <<r.of, value>>
            BY <2>3 DEF Reading
        <3>2. PICK value \in Readings(r) : outcome' = <<r.of, value>>
            BY <3>1
        <3>3. Says(r, value) /\ r.of # "command"
            BY <3>1, ReportHeard, ReportsApart
        <3>4. exchange' = r /\ outcome'[2] = value
            BY <3>1, <3>2
        <3> QED
            BY <3>3, <3>4, Zenon DEF SameMeaning
    <2>4. CASE EndExchange
        BY <2>4 DEF EndExchange, Silence, SameMeaning
    <2>5. CASE UNCHANGED talkVars
        BY <2>5, Zenon DEF talkVars, SameMeaning
    <2> QED
        BY <2>1, <2>2, <2>3, <2>4, <2>5 DEF TalkNext
<1> QED
    BY <1>1, <1>2, PTL DEF TalkSpec

================================================================================
