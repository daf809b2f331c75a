---------------------------- MODULE MCStepMotorLink ----------------------------
(***************************************************************************)
(* The step motor for the model checker: a behaviour is one of the link,    *)
(* of the talk over it, or of the tilt platform that uses it.  The reply    *)
(* lengths are those of POSITION (0xFD), SYNC_START (0xFF), READ_ENCODER      *)
(* (0x31) and READ_POSITION (0x36).                                         *)
(***************************************************************************)
EXTENDS StepMotorLink, TiltPlatform

VARIABLE part

partVars == <<part, vars, talkVars, tiltVars>>

MCReplyLen == [c \in Codes |-> IF c = 54 THEN 8 ELSE IF c = 49 THEN 5 ELSE 4]

\* READ_ENCODER's two bytes, and a READ_POSITION's sign and magnitude, with the code
\* of POSITION where a move that has lost the bytes before it looks for its own.
MCReported == [c \in Reads |->
    IF c = 54 THEN {<<0, 0, 1, 253, 2>>, <<0, 255, 2, 107, 0>>} ELSE {<<253, 2>>}]

ModelSignedPulses == {0, 3200, -1, -70000}

\* To 30 degrees and a little, beyond the limit of one move, and back.
ModelTargets == {0, 3003, 12000, -3000}

PartsInit == part \in {"link", "talk", "tilt"} /\ Init /\ TalkInit /\ TiltInit

LinkPart == part = "link" /\ Next /\ UNCHANGED <<part, talkVars, tiltVars>>

TalkPart == part = "talk" /\ TalkNext /\ UNCHANGED <<part, vars, tiltVars>>

TiltPart == part = "tilt" /\ TiltNext /\ UNCHANGED <<part, vars, talkVars>>

PartsSpec ==
    PartsInit /\ [][LinkPart \/ TalkPart \/ TiltPart]_partVars /\ WF_vars(part = "link" /\ Progress)

\* The link alone.
LinkSpec == part = "link" /\ Init /\ TalkInit /\ TiltInit /\ [][LinkPart]_partVars

================================================================================
