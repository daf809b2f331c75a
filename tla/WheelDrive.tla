------------------------------- MODULE WheelDrive ------------------------------
(***************************************************************************)
(* The bridge under its two users.  The mode is chosen before the main loop *)
(* and never changes, so a run of the car has the speed loop or the angle   *)
(* hold behind the bridge, never both.                                      *)
(***************************************************************************)
EXTENDS SpeedLoop, AngleHold

VARIABLE Mode

\* Values for the model checker: a right wheel that needs more feedforward, and
\* readings near the target, far from it and on both sides of +-180 degrees.
ModelFeedforward == [s \in Sides |-> IF s = "left" THEN 401 ELSE 420]
ModelYaws == {-175, 0, 1, 145, 178}
ModelTargetYaws == {0, 150}

driveVars == <<Mode, speedVars, angleVars>>

speedOnly == <<Velocity_Target, PID_Integral, PID_Output, least, greatest>>
angleOnly == <<Yaw_Target, Yaw, Error, LastError, Integral, Output, Last_Direction, period>>

DriveInit == Mode \in {"Track", "AngleHold"} /\ SpeedInit /\ AngleInit

SpeedPeriod == Mode = "Track" /\ SpeedNext /\ UNCHANGED <<Mode, angleOnly>>

AnglePeriod == Mode = "AngleHold" /\ AngleNext /\ UNCHANGED <<Mode, speedOnly>>

DriveNext == SpeedPeriod \/ AnglePeriod

\* The control stage is never late (ControlOnTime of MainLoop), whatever the IMU reads.
DriveSpec == DriveInit /\ [][DriveNext]_driveVars /\ WF_driveVars(AnglePeriod)

\* The bridge refuses nothing it is commanded, and so never drives on with an earlier
\* value: in the speed loop each wheel turns forward with its last output, and the
\* angle hold turns the car on the spot within its limit.
NoCommandRefused ==
    IF Mode = "Track" THEN OutputDrivesWheels ELSE OutputTurnsCar

\* empty.c:172 and empty.c:862: within two degrees of its target the car is not
\* corrected, it stands.  Stated of a yaw that stays within them: the car stands from
\* some period on.  The code compares the output, not the angle, with the deadband, and
\* the integral, which an error of one degree still fills, takes the output out of it.
RestsWithinDeadband ==
    /\ Mode = "AngleHold"
    /\ <>[][Error' = Error]_Error
    /\ <>[](Magnitude(Error) <= ANGLE_DEADBAND)
    => <>[]~Turning

================================================================================
