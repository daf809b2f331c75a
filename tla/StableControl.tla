----------------------------- MODULE StableControl -----------------------------
(***************************************************************************)
(* What Run_Track_Stable30 is calculated from, for the model checker: the   *)
(* filter of the sensors, where the line is by the loop of                  *)
(* Stable30_Resolve_Position, and what becomes of the wheel targets.  They  *)
(* share no state; a behaviour is one of one of them.                       *)
(***************************************************************************)
EXTENDS ResolveLoop, StableTargets, TrackFilter

VARIABLE part

controlVars == <<part, resolveVars, targetVars, vars>>

\* Every previous position the program can hold, 0 and 10 .. 60, the values just
\* outside, and the largest byte.
ModelPrevious == {0, 9, 61, 255} \cup 10 .. 60

ModelErrors == {-25, -15, -5, 15, 25}
ModelRateErrors == {-40, 0, 40}

\* The others do not look at the position's variables: one start of them will do.
ControlInit ==
    /\ part \in {"filter", "position", "targets"}
    /\ Init /\ ResolveInit /\ TargetsInit
    /\ part # "position" => active_bits = {} /\ previous_position = 0

FilterPart == part = "filter" /\ Next /\ UNCHANGED <<part, resolveVars, targetVars>>

PositionPart == part = "position" /\ ResolveNext /\ UNCHANGED <<part, targetVars, vars>>

TargetsPart == part = "targets" /\ TargetsNext /\ UNCHANGED <<part, resolveVars, vars>>

ControlSpec ==
    /\ ControlInit /\ [][FilterPart \/ PositionPart \/ TargetsPart]_controlVars
    /\ WF_controlVars(TargetsPart)

================================================================================
