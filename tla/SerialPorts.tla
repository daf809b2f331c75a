------------------------------ MODULE SerialPorts ------------------------------
(***************************************************************************)
(* The three receiving ports for the model checker.  Their interrupts share *)
(* no state, so that a behaviour needs one of them at work; the others stay *)
(* as they were after reset.                                                *)
(***************************************************************************)
EXTENDS MaixCamFrames, ImuFrames, ZigbeeLine

VARIABLE port

portVars == <<port, vars, imuVars, zigbeeVars>>

\* Data words that hold nothing of a frame, a whole header in either place, the
\* beginnings of one, and the trailer's bytes.
ModelWords == {
    <<0, 0, 0, 0>>, <<17, 34, 51, 68>>, <<0, 17, 34, 51>>, <<17, 17, 34, 17>>,
    <<68, 0, 17, 34>>, <<17, 68, 85, 102>>, <<68, 68, 68, 68>>, <<68, 85, 102, 0>>}

\* Two gyro reports, one with a header byte among its data, an angle report, and a
\* register report.
ModelReports == {
    [type |-> GYRO, data |-> <<0, 0, 0, 0, 1, 0, 0, 0>>],
    [type |-> GYRO, data |-> <<0, 0, 90, 0, 2, 1, 0, 0>>],
    [type |-> ANGLE, data |-> <<1, 0, 0, 0, 0, 2, 0, 0>>],
    [type |-> REGISTER, data |-> <<0, 0, 0, 0, 0, 0, 0, 1>>]}

PortsInit ==
    /\ port \in {"camera", "imu", "zigbee"}
    /\ Init /\ ImuInit /\ ZigbeeInit
    /\ port # "camera" => payload = CHOOSE p \in Payloads : TRUE
    /\ port # "imu" => report = CHOOSE r \in Reports : TRUE

CameraPort == port = "camera" /\ Next /\ UNCHANGED <<port, imuVars, zigbeeVars>>

ImuPort == port = "imu" /\ ImuNext /\ UNCHANGED <<port, vars, zigbeeVars>>

ZigbeePort == port = "zigbee" /\ ZigbeeNext /\ UNCHANGED <<port, vars, imuVars>>

PortsSpec == PortsInit /\ [][CameraPort \/ ImuPort \/ ZigbeePort]_portVars

================================================================================
