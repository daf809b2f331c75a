---------------------------------- MODULE Lap ----------------------------------
(***************************************************************************)
(* What a question promises of its lap, whatever the sensors report: it     *)
(* begins with the wheels off, drives or waits while it runs, and once its  *)
(* goal or its time limit has ended it the wheels stay off.  FastLap and    *)
(* StableLap implement it.                                                  *)
(***************************************************************************)

VARIABLES
    phase,    \* "ready", "running" or "ended"
    wheels    \* whether the wheels are "on" or "off" between control periods

lap == <<phase, wheels>>

Init == phase = "ready" /\ wheels = "off"

Begin == phase = "ready" /\ phase' = "running" /\ wheels' = "off"

Drive == phase = "running" /\ phase' = "running" /\ wheels' \in {"on", "off"}

End == phase = "running" /\ phase' = "ended" /\ wheels' = "off"

Next == Begin \/ Drive \/ End

Spec == Init /\ [][Next]_lap

================================================================================
