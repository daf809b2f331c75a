------------------------------- MODULE ImuFrames -------------------------------
(***************************************************************************)
(* The reports of the inertial unit: CopeSerial2Data assembles frames of 11 *)
(* bytes in the UART0 interrupt and publishes what they report;            *)
(* Stable30_Update_Gyro takes the turn rate in the main loop.               *)
(*                                                                          *)
(* The unit (external) sends one frame after the other; on the way a byte   *)
(* may be lost, added or changed.  ucRxCnt is the length of ucRxBuffer; the *)
(* scaling of a report to degrees or g is left out, its bytes stand for it. *)
(***************************************************************************)
EXTENDS Integers, Sequences

CONSTANTS
    Reports,        \* what the unit may send: a type and the eight data bytes
    ImuNoise,       \* the bytes a fault may leave on the line
    MaxImuFaults,   \* bound on the faults in two successive frames
    MaxUpdates      \* bound on g_imu_gyro_update_count: then no more gyro reports

Header == 90        \* 0x5A
GYRO == 170
ANGLE == 187
ACCEL == 204
QUAT == 221
REGISTER == 238
Types == {GYRO, ANGLE, ACCEL, QUAT, REGISTER}

Bytes == 0 .. 255

ASSUME ImuAssumption ==
    /\ Reports \subseteq [type : Types, data : [1 .. 8 -> Bytes]] /\ Reports # {}
    /\ ImuNoise \subseteq Bytes
    /\ MaxImuFaults \in Nat /\ MaxUpdates \in Nat

VARIABLES
    ucRxBuffer,
    published,                  \* stcGyro, stcAngle, stcAccel and stcQuat, by type
    g_imu_gyro_update_count,
    \* Stable30_Update_Gyro.
    updating,                   \* between its two reads
    gyro_last_update_count,
    rate,                       \* the rate last put into the filter, <<>> if none
    \* The unit and the line.
    report, sent,               \* the report on its way, bytes of it already sent
    changed, shifted,           \* bytes of it changed, and lost or added
    before                      \* what was wrong with the frame before

imuParser == <<ucRxBuffer, published, g_imu_gyro_update_count>>
gyroReader == <<updating, gyro_last_update_count, rate>>
imuLine == <<report, sent, changed, shifted, before>>
imuVars == <<imuParser, gyroReader, imuLine>>

\* A frame with no fault and no header byte but its first.
Clean == [changed |-> 0, shifted |-> 0, stray |-> FALSE]

ImuInit ==
    /\ ucRxBuffer = <<>>
    /\ published = [t \in Types \ {REGISTER} |-> <<>>]
    /\ g_imu_gyro_update_count = 0
    /\ updating = FALSE /\ gyro_last_update_count = 0 /\ rate = <<>>
    /\ report \in Reports /\ sent = 0
    /\ changed = 0 /\ shifted = 0 /\ before = Clean

--------------------------------------------------------------------------------
\* CopeSerial2Data.

\* Fault: the last data byte is left out of the sum.
SumShort(b) == (b[1] + b[2] + b[3] + b[4] + b[5] + b[6] + b[7] + b[8] + b[9]) % 256

\* The unsigned char sum of the first ten bytes.
Sum(b) == (b[1] + b[2] + b[3] + b[4] + b[5] + b[6] + b[7] + b[8] + b[9] + b[10]) % 256

\* Three words of a report are kept, of a quaternion four.
Kept(b) == SubSeq(b, 3, IF b[2] = QUAT THEN 10 ELSE 8)

\* A whole frame: it is published if its type is known and its sum right.
FrameDone(b) ==
    IF Sum(b) = b[11] /\ b[2] \in DOMAIN published
    THEN /\ published' = [published EXCEPT ![b[2]] = Kept(b)]
         /\ g_imu_gyro_update_count' = g_imu_gyro_update_count + (IF b[2] = GYRO THEN 1 ELSE 0)
    ELSE UNCHANGED <<published, g_imu_gyro_update_count>>

\* Fault: the header is looked at when the frame is complete.
CopeSerial2DataLateCheck(ucData) ==
    LET b == Append(ucRxBuffer, ucData) IN
    IF Len(b) < 11
    THEN /\ ucRxBuffer' = b
         /\ UNCHANGED <<published, g_imu_gyro_update_count>>
    ELSE /\ IF b[1] = Header THEN FrameDone(b) ELSE UNCHANGED <<published, g_imu_gyro_update_count>>
         /\ ucRxBuffer' = <<>>

CopeSerial2Data(ucData) ==
    LET b == Append(ucRxBuffer, ucData) IN
    IF b[1] # Header \/ Len(b) < 11
    THEN /\ ucRxBuffer' = IF b[1] # Header THEN <<>> ELSE b
         /\ UNCHANGED <<published, g_imu_gyro_update_count>>
    ELSE FrameDone(b) /\ ucRxBuffer' = <<>>

--------------------------------------------------------------------------------
\* The unit and the line.

\* The frame of a report.
Frame(r) ==
    LET b == <<Header, r.type>> \o r.data IN Append(b, Sum(b))

HeaderInside(r) == \E i \in 2 .. 11 : Frame(r)[i] = Header

\* The unit goes on to its next byte, and after the eleventh to a new report.
NextByte(nowChanged, nowShifted) ==
    IF sent = 10
    THEN /\ sent' = 0
         /\ report' \in {r \in Reports :
                r.type = GYRO => g_imu_gyro_update_count' < MaxUpdates}
         /\ before' = [changed |-> nowChanged, shifted |-> nowShifted,
                       stray |-> HeaderInside(report)]
         /\ changed' = 0 /\ shifted' = 0
    ELSE /\ sent' = sent + 1
         /\ changed' = nowChanged /\ shifted' = nowShifted
         /\ UNCHANGED <<report, before>>

MoreImuFaults == before.changed + before.shifted + changed + shifted < MaxImuFaults

ByteArrives ==
    /\ CopeSerial2Data(Frame(report)[sent + 1])
    /\ NextByte(changed, shifted)

ByteChanged ==
    /\ \E b \in ImuNoise \ {Frame(report)[sent + 1]} : CopeSerial2Data(b)
    /\ NextByte(changed + 1, shifted)

ByteLost == UNCHANGED imuParser /\ NextByte(changed, shifted + 1)

ByteAdded ==
    /\ \E b \in ImuNoise : CopeSerial2Data(b)
    /\ shifted' = shifted + 1
    /\ UNCHANGED <<report, sent, changed, before>>

UartInterrupt ==
    /\ ByteArrives \/ (MoreImuFaults /\ (ByteChanged \/ ByteLost \/ ByteAdded))
    /\ UNCHANGED gyroReader

--------------------------------------------------------------------------------
\* Stable30_Update_Gyro, with the interrupt between its two reads.

GyroZ == IF published[GYRO] = <<>> THEN <<0, 0>> ELSE SubSeq(published[GYRO], 5, 6)

ReadUpdateCount ==
    /\ ~updating
    /\ g_imu_gyro_update_count # gyro_last_update_count
    /\ gyro_last_update_count' = g_imu_gyro_update_count
    /\ updating' = TRUE
    /\ UNCHANGED <<rate, imuParser, imuLine>>

ReadRate ==
    /\ updating
    /\ rate' = GyroZ
    /\ updating' = FALSE
    /\ UNCHANGED <<gyro_last_update_count, imuParser, imuLine>>

\* Fault: the rate is read before the count.
Stable30_Update_GyroRateFirst ==
    \/ /\ ~updating /\ g_imu_gyro_update_count # gyro_last_update_count
       /\ rate' = GyroZ
       /\ updating' = TRUE
       /\ UNCHANGED <<gyro_last_update_count, imuParser, imuLine>>
    \/ /\ updating
       /\ gyro_last_update_count' = g_imu_gyro_update_count
       /\ updating' = FALSE
       /\ UNCHANGED <<rate, imuParser, imuLine>>

Stable30_Update_Gyro == ReadUpdateCount \/ ReadRate

ImuNext == UartInterrupt \/ Stable30_Update_Gyro

ImuSpec == ImuInit /\ [][ImuNext]_imuVars

--------------------------------------------------------------------------------

LastByte == sent = 10 /\ sent' = 0

\* The faults of this frame, this step's included.
ChangedByNow == IF LastByte THEN before'.changed ELSE changed'

ShiftedByNow == IF LastByte THEN before'.shifted ELSE shifted'

\* Whatever lost, added and changed bytes have left in its buffer, the parser is
\* in step again behind one whole frame that does not hold the header byte inside,
\* and publishes the next one, which may.  Behind a frame that does, it could be
\* out of step again, and for as long as that frame is repeated.
CleanReportPublished ==
    [][LastByte /\ before = Clean /\ ChangedByNow = 0 /\ ShiftedByNow = 0
            /\ report.type # REGISTER =>
          published'[report.type] = Kept(Frame(report))]_imuVars

\* Behind such a frame, a frame with one changed byte is not published, not under
\* another type either, and nothing else while it is on its way: only an unchanged
\* frame is, by its last byte.  The parser is in step behind the changed frame
\* too, unless that holds the header byte inside: with its first byte changed the
\* parser starts at the other one.
ChangedReportDropped ==
    [][before = Clean /\ ShiftedByNow = 0 /\ ChangedByNow <= 1 =>
          /\ published' # published =>
                /\ LastByte /\ ChangedByNow = 0
                /\ published' = [published EXCEPT ![report.type] = Kept(Frame(report))]
          /\ LastByte /\ (ChangedByNow = 0 \/ ~HeaderInside(report)) =>
                ucRxBuffer' = <<>>]_imuVars

\* The interrupt may publish between the two reads.  Then the newer rate is used
\* once more, but a sample whose count has been recorded is never one whose rate
\* has not been used.
NoRateSkipped ==
    ~updating /\ gyro_last_update_count = g_imu_gyro_update_count
              /\ gyro_last_update_count # 0
        => rate = GyroZ

================================================================================
