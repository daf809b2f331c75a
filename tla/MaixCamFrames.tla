----------------------------- MODULE MaixCamFrames -----------------------------
(***************************************************************************)
(* The frames of the vision module: UART_3_INST_IRQHandler assembles them   *)
(* byte by byte, the display stage of main() clears maixcam_rx_ready.       *)
(*                                                                          *)
(* The camera (external) sends frame after frame as the comment above the   *)
(* handler describes them; on the way a byte may be lost or a byte may      *)
(* appear.  The 32-bit data word is the sequence of its four bytes, of      *)
(* which `shift` is the length.                                             *)
(***************************************************************************)
EXTENDS Integers, Sequences

CONSTANTS
    Payloads,       \* the camera's data words, of four bytes
    NoiseBytes,     \* the bytes that may appear on the line
    MaxFaults       \* bound on the faults in two successive frames

ASSUME MaixCamAssumption ==
    /\ Payloads \subseteq [1 .. 4 -> 0 .. 255] /\ Payloads # {}
    /\ NoiseBytes \subseteq 0 .. 255
    /\ MaxFaults \in Nat

VARIABLES
    state, buffer,                    \* statics of the handler
    maixcam_data, maixcam_rx_ready,
    \* The camera and the line.
    pos,            \* bytes of the current frame already sent
    payload,        \* its data word
    faults,         \* bytes lost from or added to the current frame
    faults_before,  \* the same of the frame before
    header_before   \* whether its data word held a whole header

parser == <<state, buffer, maixcam_data, maixcam_rx_ready>>
line == <<pos, payload, faults, faults_before, header_before>>
vars == <<parser, line>>

\* The fixed bytes, by the state that waits for them.
Expected == [s \in {0, 1, 2, 7, 8, 9} |->
                CASE s = 0 -> 17 [] s = 1 -> 34 [] s = 2 -> 51
                  [] s = 7 -> 68 [] s = 8 -> 85 [] s = 9 -> 102]

Init ==
    /\ state = 0
    /\ buffer = <<>>
    /\ maixcam_data = <<0, 0, 0, 0>>
    /\ maixcam_rx_ready = 0
    /\ pos = 0
    /\ payload \in Payloads
    /\ faults = 0
    /\ faults_before = 0
    /\ header_before = FALSE

--------------------------------------------------------------------------------
\* UART_3_INST_IRQHandler.

\* States 0 to 2.  The byte that breaks a header is not tried as its start.
HeaderByte(ch) ==
    /\ state \in 0 .. 2
    /\ state' = IF ch = Expected[state] THEN state + 1 ELSE 0
    /\ buffer' = IF state' = 3 THEN <<>> ELSE buffer
    /\ UNCHANGED <<maixcam_data, maixcam_rx_ready>>

\* States 3 to 6: whatever the byte is.
DataByte(ch) ==
    /\ state \in 3 .. 6
    /\ buffer' = Append(buffer, ch)
    /\ state' = state + 1
    /\ UNCHANGED <<maixcam_data, maixcam_rx_ready>>

\* Fault: the first trailer byte ends the frame, whatever it is.
TrailerByteUnchecked(ch) ==
    /\ state \in 7 .. 9
    /\ state' = 0
    /\ maixcam_data' = buffer
    /\ maixcam_rx_ready' = 1
    /\ UNCHANGED buffer

\* Fault: the parser is not set back once a frame is complete.
TrailerByteStuck(ch) ==
    /\ state \in 7 .. 9
    /\ state' = IF ch # Expected[state] THEN 0
                ELSE IF state = 9 THEN 9 ELSE state + 1
    /\ IF state = 9 /\ ch = Expected[9]
       THEN maixcam_data' = buffer /\ maixcam_rx_ready' = 1
       ELSE UNCHANGED <<maixcam_data, maixcam_rx_ready>>
    /\ UNCHANGED buffer

\* States 7 to 9; the last one publishes.
TrailerByte(ch) ==
    /\ state \in 7 .. 9
    /\ state' = IF ch = Expected[state] /\ state # 9 THEN state + 1 ELSE 0
    /\ IF state = 9 /\ ch = Expected[9]
       THEN maixcam_data' = buffer /\ maixcam_rx_ready' = 1
       ELSE UNCHANGED <<maixcam_data, maixcam_rx_ready>>
    /\ UNCHANGED buffer

Receive(ch) == HeaderByte(ch) \/ DataByte(ch) \/ TrailerByte(ch)

--------------------------------------------------------------------------------

\* The byte the camera sends at a position of its frame.
FrameByte(p) == IF p \in 3 .. 6 THEN payload[p - 2] ELSE Expected[p]

\* A data word that can be taken for the start of a frame.
HoldsHeader(word) ==
    \E i \in {1, 2} :
        word[i] = Expected[0] /\ word[i + 1] = Expected[1] /\ word[i + 2] = Expected[2]

\* The camera goes on to its next byte, and after the tenth to a new frame;
\* lost is the number of bytes, 0 or 1, the line swallows meanwhile.
Advance(lost) ==
    IF pos = 9
    THEN /\ pos' = 0
         /\ payload' \in Payloads
         /\ faults' = 0
         /\ faults_before' = faults + lost
         /\ header_before' = HoldsHeader(payload)
    ELSE /\ pos' = pos + 1
         /\ faults' = faults + lost
         /\ UNCHANGED <<payload, faults_before, header_before>>

Send == Receive(FrameByte(pos)) /\ Advance(0)

MoreFaults == faults + faults_before < MaxFaults

Lose == MoreFaults /\ Advance(1) /\ UNCHANGED parser

Noise ==
    /\ MoreFaults
    /\ \E ch \in NoiseBytes : Receive(ch)
    /\ faults' = faults + 1
    /\ UNCHANGED <<pos, payload, faults_before, header_before>>

\* The display stage clears the flag without having read the data.
ClearReady ==
    /\ maixcam_rx_ready = 1
    /\ maixcam_rx_ready' = 0
    /\ UNCHANGED <<state, buffer, maixcam_data, line>>

Next == Send \/ Lose \/ Noise \/ ClearReady

Spec == Init /\ [][Next]_vars

--------------------------------------------------------------------------------

TypeOK ==
    /\ state \in 0 .. 9
    /\ buffer \in Seq(0 .. 255) /\ Len(buffer) <= 4
    /\ state \in 3 .. 6 => Len(buffer) = state - 3
    /\ state \in 7 .. 9 => Len(buffer) = 4
    /\ maixcam_data \in Seq(0 .. 255) /\ Len(maixcam_data) = 4
    /\ maixcam_rx_ready \in {0, 1}
    /\ pos \in 0 .. 9
    /\ payload \in Payloads
    /\ faults \in Nat /\ faults_before \in Nat
    /\ header_before \in BOOLEAN

\* The last byte of the current frame arrives, and no byte of this frame or of
\* the one before has been lost or added.
SecondCleanFrame == pos = 9 /\ pos' = 0 /\ faults = 0 /\ faults_before = 0
                    /\ faults_before' = 0

\* The parser finds its way back: whatever state garbage has left it in, it
\* misses at most one clean frame, and the next one is published whole.  Only a
\* data word that holds a whole header can keep it out of step, and only until a
\* frame without one has passed.
CleanFrameDelivered ==
    [][SecondCleanFrame /\ ~header_before =>
          /\ maixcam_rx_ready' = 1
          /\ maixcam_data' = payload]_vars

\* With at most one byte lost or added in two frames, no data word appears that
\* the camera did not send, and none before its frame has come to the last byte:
\* the fixed bytes tell a shifted frame from a whole one without a checksum.
OnlySentDataPublished ==
    [][maixcam_data' # maixcam_data \/ maixcam_rx_ready' > maixcam_rx_ready =>
          /\ pos = 9
          /\ maixcam_data' = payload]_vars

================================================================================
