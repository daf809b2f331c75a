----------------------------- MODULE StepMotorLink -----------------------------
(***************************************************************************)
(* The serial link to the step motor (STEP_MOTOR.c).  A call empties the    *)
(* receive register, sends a frame, and reads a reply of known length byte  *)
(* by byte with a timeout for each; a no_reply call sends its frame and     *)
(* returns.  The motor answers in its own time, also to frames whose sender *)
(* has given up or never waited, and, set to do so, a second time when a    *)
(* move has arrived.                                                        *)
(*                                                                          *)
(* A byte carries its value, which is all the driver sees, and for the      *)
(* properties the number of the frame it answers and its place in the       *)
(* reply.  The motor, the line and the receive register are external.       *)
(***************************************************************************)
EXTENDS Integers, Sequences, Functions

CONSTANTS
    Actions,       \* function codes answered by four bytes with a status
    Moves,         \* those that set the motor moving
    Broadcasts,    \* those sent to ZDT_EMM_BROADCAST_ADDR (SYNC_START)
    Reads,         \* function codes answered by a value
    Signed,        \* those whose value begins with its sign, 0 or 1
    ReplyLen,      \* length of each code's reply
    Addr,          \* STEP_MOTOR_ADDR
    Check,         \* ZDT_EMM_DEFAULT_CHECK
    StatusBytes,   \* what the motor answers at once with, of the ZDT_EMM_STATUS_ codes
    Reported,      \* by code, the values the motor may report to a read
    ReportsDone,   \* whether the motor reports the end of a move
    FifoDepth,     \* bytes the receive register holds
    MaxFrames      \* bound on the frames sent

Codes == Actions \cup Reads

ASSUME StepMotorAssumption ==
    /\ Codes \subseteq 0 .. 255 /\ Actions \cap Reads = {}
    /\ Moves \subseteq Actions /\ Broadcasts \subseteq Actions /\ Signed \subseteq Reads
    /\ ReplyLen \in [Codes -> 4 .. 8] /\ \A c \in Actions : ReplyLen[c] = 4
    /\ Addr \in 1 .. 255 /\ Check \in 0 .. 255
    /\ StatusBytes \subseteq {2, 18, 34, 226, 238}
    /\ \A c \in Reads :
          /\ Reported[c] \subseteq [1 .. ReplyLen[c] - 3 -> 0 .. 255]
          /\ c \in Signed => \A value \in Reported[c] : value[1] \in {0, 1}
    /\ ReportsDone \in BOOLEAN
    /\ FifoDepth \in Nat \ {0} /\ MaxFrames \in Nat

\* No ZDT_EMM_CMD_ code is the motor's address, the check byte or a status.  A
\* value may hold any byte, function codes too.
ASSUME CodeAssumption == Codes \cap ({Addr, Check, 159} \cup StatusBytes) = {}

VARIABLES
    pc,        \* what the driver is doing
    got,       \* reply[0 .. i - 1] of the last call
    result,    \* what the last call returned
    fifo,      \* the UART's receive register
    inbox,     \* frames the motor has not answered yet, by number
    wire,      \* bytes on the way to the UART
    moving,    \* the frame whose move the motor performs, 0 for none
    \* History variables.
    sent,      \* the function codes of all frames
    call,      \* the frame of the last call that waits for a reply
    open,      \* frames that were yet to be answered when that call began
    arrived    \* frames whose moves have been completed

driver == <<pc, got, result>>
motor == <<inbox, wire, moving, arrived>>
vars == <<driver, fifo, motor, sent, call, open>>

Init ==
    /\ pc = "idle"
    /\ got = <<>>
    /\ result = "none"
    /\ fifo = <<>>
    /\ inbox = <<>>
    /\ wire = <<>>
    /\ moving = 0
    /\ sent = <<>>
    /\ call = 0
    /\ open = {}
    /\ arrived = {}

Values(bytes) == [i \in DOMAIN bytes |-> bytes[i].value]

Owners(bytes) == {bytes[i].of : i \in DOMAIN bytes}

\* Frames whose answer, or report of arrival, has yet to reach the UART.
Unanswered == Owners(wire) \cup Range(inbox) \cup ({moving} \ {0})

--------------------------------------------------------------------------------
\* The driver.

\* Fault: the receive register is not emptied.
StartCallDirty(code) ==
    /\ pc = "idle" /\ Len(sent) < MaxFrames
    /\ pc' = "sending"
    /\ got' = <<>>
    /\ UNCHANGED fifo
    /\ sent' = Append(sent, code)
    /\ call' = Len(sent')
    /\ open' = Unanswered
    /\ UNCHANGED <<result, motor>>

\* Fault: the reply is read on where the last one ended.
StartCallStale(code) ==
    /\ pc = "idle" /\ Len(sent) < MaxFrames
    /\ pc' = "sending"
    /\ fifo' = <<>>
    /\ sent' = Append(sent, code)
    /\ call' = Len(sent')
    /\ open' = Unanswered
    /\ UNCHANGED <<got, result, motor>>

\* A call that waits for its reply, up to its first byte on the line.
StartCall(code) ==
    /\ pc = "idle" /\ Len(sent) < MaxFrames
    /\ pc' = "sending"
    /\ got' = <<>>
    /\ fifo' = <<>>
    /\ sent' = Append(sent, code)
    /\ call' = Len(sent')
    /\ open' = Unanswered
    /\ UNCHANGED <<result, motor>>

\* A no_reply call leaves the receive register as it is.
StartNoReply(code) ==
    /\ pc = "idle" /\ Len(sent) < MaxFrames
    /\ pc' = "writing"
    /\ sent' = Append(sent, code)
    /\ UNCHANGED <<got, result, fifo, motor, call, open>>

\* A parameter outside its range: nothing is sent.  A bad address or a null
\* pointer is noticed before the receive register is emptied, a bad speed,
\* direction, mode or sync flag after it.
RejectCall ==
    /\ pc = "idle"
    /\ result' = "BAD_PARAM"
    /\ got' = <<>>
    /\ call' = 0
    /\ fifo' \in {fifo, <<>>}
    /\ UNCHANGED <<pc, motor, sent, open>>

\* The end of StepMotor_Init.
zdt_emm_clear_rx ==
    /\ pc = "idle"
    /\ fifo' = <<>>
    /\ UNCHANGED <<driver, motor, sent, call, open>>

\* The last byte of the frame is out.
zdt_emm_send_frame ==
    /\ pc \in {"sending", "writing"}
    /\ pc' = IF pc = "sending" THEN "reading" ELSE "idle"
    /\ inbox' = Append(inbox, Len(sent))
    /\ UNCHANGED <<got, result, fifo, wire, moving, arrived, sent, call, open>>

zdt_emm_status_to_result(status) ==
    CASE status \in {2, 159} -> "OK"
      [] status \in {18, 34} -> "LIMITED"
      [] status = 226 -> "DEVICE_ERROR"
      [] status = 238 -> "FORMAT_ERROR"
      [] OTHER -> "BAD_FRAME"

\* Fault: the function code of the reply is not compared.
zdt_emm_wait_any_reply(reply, code) ==
    IF \/ reply[4] # Check
       \/ reply[1] # Addr /\ code \notin Broadcasts
    THEN "BAD_FRAME" ELSE zdt_emm_status_to_result(reply[3])

\* What a reply of four bytes to an action means.
zdt_emm_wait_reply(reply, code) ==
    IF \/ reply[4] # Check \/ reply[2] # code
       \/ reply[1] # Addr /\ code \notin Broadcasts
    THEN "BAD_FRAME" ELSE zdt_emm_status_to_result(reply[3])

\* What the reply to a read means, with the check of a value's sign.
zdt_emm_read_request(reply, code) ==
    IF \/ reply[1] # Addr \/ reply[2] # code \/ reply[Len(reply)] # Check
       \/ code \in Signed /\ reply[3] > 1
    THEN "BAD_FRAME" ELSE "OK"

Parsed(reply, code) ==
    IF code \in Actions THEN zdt_emm_wait_reply(reply, code)
                        ELSE zdt_emm_read_request(reply, code)

\* zdt_emm_read takes a byte, and after the last one the call returns.
zdt_emm_read ==
    /\ pc = "reading" /\ fifo # <<>>
    /\ got' = Append(got, Head(fifo))
    /\ fifo' = Tail(fifo)
    /\ IF Len(got') < ReplyLen[sent[call]]
       THEN UNCHANGED <<pc, result>>
       ELSE pc' = "idle" /\ result' = Parsed(Values(got'), sent[call])
    /\ UNCHANGED <<motor, sent, call, open>>

\* Fault: after a timeout the reply is awaited anew.
TimeoutRestart ==
    /\ pc = "reading" /\ fifo = <<>>
    /\ got' = <<>>
    /\ UNCHANGED <<pc, result, fifo, motor, sent, call, open>>

\* No byte within timeout_us: the call returns, the bytes read so far are gone.
Timeout ==
    /\ pc = "reading" /\ fifo = <<>>
    /\ pc' = "idle"
    /\ result' = "TIMEOUT"
    /\ UNCHANGED <<got, fifo, motor, sent, call, open>>

--------------------------------------------------------------------------------
\* The motor and the line.

ReplyTo(frame, body) ==
    [i \in 1 .. Len(body) + 3 |->
        [value |-> CASE i = 1 -> Addr
                     [] i = 2 -> sent[frame]
                     [] i = Len(body) + 3 -> Check
                     [] OTHER -> body[i - 2],
         of |-> frame,
         at |-> i]]

Bodies(code) == IF code \in Actions THEN [1 .. 1 -> StatusBytes] ELSE Reported[code]

\* The motor takes the next frame and answers it; one that says yes to a move
\* gives up the move before.
Answer ==
    /\ inbox # <<>>
    /\ inbox' = Tail(inbox)
    /\ LET frame == Head(inbox) IN
       \E body \in Bodies(sent[frame]) :
          /\ wire' = wire \o ReplyTo(frame, body)
          /\ moving' = IF sent[frame] \in Moves /\ body[1] = 2 THEN frame ELSE moving
    /\ UNCHANGED <<driver, fifo, arrived, sent, call, open>>

\* The frame was spoilt on its way, or the motor is off.
Ignore ==
    /\ inbox # <<>>
    /\ inbox' = Tail(inbox)
    /\ UNCHANGED <<driver, fifo, wire, moving, arrived, sent, call, open>>

\* The move is over, and reported if the motor is set to.
Arrive ==
    /\ moving # 0
    /\ moving' = 0
    /\ arrived' = arrived \cup {moving}
    /\ wire' = IF ReportsDone THEN wire \o ReplyTo(moving, <<159>>) ELSE wire
    /\ UNCHANGED <<driver, fifo, inbox, sent, call, open>>

\* A byte arrives.  The reading loop empties the register every microsecond;
\* while it does not run, bytes that find the register full are lost.
Deliver ==
    /\ wire # <<>>
    /\ wire' = Tail(wire)
    /\ pc = "reading" => Len(fifo) < FifoDepth
    /\ fifo' = IF Len(fifo) < FifoDepth THEN Append(fifo, Head(wire)) ELSE fifo
    /\ UNCHANGED <<driver, inbox, moving, arrived, sent, call, open>>

ActionCall == \E code \in Actions : StartCall(code)

ReadCall == \E code \in Reads : StartCall(code)

NoReplyCall == \E code \in Actions : StartNoReply(code)

Call == ActionCall \/ ReadCall \/ NoReplyCall \/ RejectCall \/ zdt_emm_clear_rx

Progress == zdt_emm_send_frame \/ zdt_emm_read \/ Timeout

Next == Call \/ Progress \/ Answer \/ Ignore \/ Arrive \/ Deliver

Spec == Init /\ [][Next]_vars

\* A call in progress goes on; nothing is assumed of the motor.
FairSpec == Spec /\ WF_vars(Progress)

--------------------------------------------------------------------------------

Bytes == [value : 0 .. 255, of : 1 .. MaxFrames, at : 1 .. 8]

TypeOK ==
    /\ pc \in {"idle", "sending", "writing", "reading"}
    /\ result \in {"none", "OK", "TIMEOUT", "BAD_FRAME", "BAD_PARAM", "LIMITED",
                   "DEVICE_ERROR", "FORMAT_ERROR"}
    /\ {fifo, wire, got} \subseteq Seq(Bytes)
    /\ Len(fifo) <= FifoDepth
    /\ sent \in Seq(Codes) /\ Len(sent) <= MaxFrames
    /\ call \in 0 .. Len(sent)
    /\ inbox \in Seq(1 .. Len(sent))
    /\ moving \in 0 .. Len(sent)
    /\ open \cup arrived \subseteq 1 .. Len(sent)
    /\ pc = "reading" => call # 0 /\ Len(got) < ReplyLen[sent[call]]
    /\ Len(got) <= 8

\* The last call has returned.
Returned == pc = "idle" /\ call # 0 /\ result # "none"

\* What a call takes for its answer, from the function code on, is the rest of
\* one reply to its own function code: to its own frame, or to one that was still
\* unanswered when the call began.  There is one exception: it may be misled by
\* the value in the late reply to an earlier read, if the value holds the call's
\* function code and the call came into the middle of that reply.  A late reply
\* to an action never misleads, and no call that began while no read was
\* unanswered is misled.
OnlyValuesMislead ==
    Returned /\ result \notin {"TIMEOUT", "BAD_FRAME"} =>
        LET frame == got[2].of
        IN  IF got[2].at = 2
            THEN /\ sent[frame] = sent[call]
                 /\ frame = call \/ frame \in open
                 /\ Owners(SubSeq(got, 2, Len(got))) = {frame}
            ELSE frame \in open /\ sent[frame] \in Reads

\* A call that begins on a quiet line reads its own answer whole, or times out,
\* whatever was left of earlier replies: garbage is never carried on.
QuietCallIsAnswered ==
    Returned /\ open = {} /\ result # "TIMEOUT" => Owners(got) = {call} /\ result # "BAD_FRAME"

\* "ZDT_EMM_RESULT_OK means that positioning is complete", of a move.
OkMeansArrived == Returned /\ result = "OK" /\ sent[call] \in Moves => call \in arrived

\* The link as its callers see it: the bytes a call can still read, and the
\* frames with an answer to come, or whose answer can still be read from its
\* function code on.  Taken is the frame whose answer, or piece of one, the last
\* call took.
Read == IF pc = "reading" THEN got ELSE <<>>

Coded(bytes) == {bytes[i].of : i \in {j \in DOMAIN bytes : bytes[j].at = 2}}

Due ==
    Coded(Read) \cup Coded(fifo) \cup Coded(wire) \cup Range(inbox)
        \cup (IF ReportsDone THEN {moving} \ {0} ELSE {})
        \cup (IF pc \in {"sending", "writing"} THEN {Len(sent)} ELSE {})

Calling == IF pc \in {"sending", "reading"} THEN call ELSE 0

Taken ==
    IF \/ pc \in {"sending", "reading"} \/ call = 0
       \/ result \in {"none", "TIMEOUT", "BAD_FRAME"}
    THEN 0 ELSE got[2].of

\* A move that is reported as done is answered twice.
AnsweredTwice == IF ReportsDone THEN Moves ELSE {}

Req == INSTANCE Requests WITH
        Twice <- AnsweredTwice, Valued <- Reads,
        asked <- sent, waiting <- Calling, due <- Due, taken <- Taken

\* No answer is taken by two calls, and none that was lost or thrown away:
\* over any number of calls, with late answers and frames nobody waited for,
\* the link keeps what Requests promises.  Only a move that is reported as
\* done may be answered to two calls, and only the value of an earlier read can
\* be mistaken for an answer.
RefinesRequests == Req!Spec

\* Every call returns, whatever the motor does.
CallsReturn == pc # "idle" ~> pc = "idle"

================================================================================
