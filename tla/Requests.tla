-------------------------------- MODULE Requests --------------------------------
(***************************************************************************)
(* What a caller of the step motor may rely on, whatever happens to bytes   *)
(* and replies: one call waits at a time; it fails, or takes the answer to  *)
(* a frame of its function code; and an answer that a call has taken is     *)
(* gone, so that no later call takes it again.  He may not rely on more: a  *)
(* call may mistake a piece of the value that an earlier frame asked for.   *)
(* StepMotorLink implements it.                                             *)
(***************************************************************************)
EXTENDS Integers, Sequences

CONSTANTS
    Codes,     \* the function codes
    Twice,     \* those whose frames the motor answers a second time
    Valued     \* those answered by a value

VARIABLES
    asked,     \* the function codes of all frames
    waiting,   \* the frame of the call that waits for its answer, or 0
    due,       \* the frames whose answers may still be taken
    taken      \* the frame whose answer, or piece of one, the last call took, or 0

requests == <<asked, waiting, due, taken>>

Init ==
    /\ asked = <<>>
    /\ waiting = 0
    /\ due = {}
    /\ taken = 0

\* Answers may get lost, or be thrown away, at any time.
Frame(code) ==
    /\ waiting = 0
    /\ asked' = Append(asked, code)
    /\ due' \subseteq due \cup {Len(asked')}

\* A call that waits for its answer begins.
Ask(code) == Frame(code) /\ waiting' = Len(asked') /\ taken' = 0

\* A no_reply call.
Tell(code) == Frame(code) /\ UNCHANGED <<waiting, taken>>

\* The call returns an answer, to its own frame or to an earlier one.
Take ==
    /\ waiting # 0
    /\ waiting' = 0
    /\ taken' \in due
    /\ asked[taken'] = asked[waiting]
    /\ due' \subseteq due
    /\ taken' \in due' => asked[taken'] \in Twice
    /\ UNCHANGED asked

\* The call returns a piece of the value an earlier frame asked for.
Mistake ==
    /\ waiting # 0
    /\ waiting' = 0
    /\ taken' \in 1 .. waiting - 1
    /\ asked[taken'] \in Valued
    /\ due' \subseteq due
    /\ UNCHANGED asked

\* The call returns an error, of the line or, before anything was sent, of a
\* parameter.
Fail ==
    /\ waiting' = 0 /\ taken' = 0
    /\ due' \subseteq due
    /\ UNCHANGED asked

Lose == due' \subseteq due /\ UNCHANGED <<asked, waiting, taken>>

Next == (\E code \in Codes : Ask(code) \/ Tell(code)) \/ Take \/ Mistake \/ Fail \/ Lose

Spec == Init /\ [][Next]_requests

================================================================================
