------------------------------ MODULE SerialProofs ------------------------------
(***************************************************************************)
(* Proofs about the three receiving ports, for all noise: MaixCamFrames for *)
(* all data words, ImuFrames for all reports, ZigbeeLine for every size of  *)
(* the buffer.                                                              *)
(***************************************************************************)
EXTENDS MaixCamFrames, ImuFrames, ZigbeeLine, SequenceTheorems, WellFoundedInduction,
        TLAPS

--------------------------------------------------------------------------------
\* The vision module.

\* The fixed bytes.
LEMMA FixedBytes ==
    /\ Expected[0] = 17 /\ Expected[1] = 34 /\ Expected[2] = 51
    /\ Expected[7] = 68 /\ Expected[8] = 85 /\ Expected[9] = 102
BY DEF Expected

\* The camera sends bytes.
LEMMA FrameByteType == TypeOK => FrameByte(pos) \in 0 .. 255
<1> SUFFICES ASSUME TypeOK PROVE FrameByte(pos) \in 0 .. 255
  OBVIOUS
<1>1. CASE pos \in 3 .. 6
  <2>1. pos - 2 \in 1 .. 4 /\ payload \in [1 .. 4 -> 0 .. 255]
    BY <1>1, MaixCamAssumption DEF TypeOK
  <2>2. payload[pos - 2] \in 0 .. 255
    BY <2>1
  <2> QED
    BY <1>1, <2>2 DEF FrameByte
<1>2. CASE pos \notin 3 .. 6
  <2>1. pos \in {0, 1, 2, 7, 8, 9}
    BY <1>2 DEF TypeOK
  <2> QED
    BY <1>2, <2>1, FixedBytes DEF FrameByte
<1> QED
  BY <1>1, <1>2

\* What the handler does with a byte keeps its own variables in type.
ParserType ==
    /\ state \in 0 .. 9
    /\ buffer \in Seq(0 .. 255) /\ Len(buffer) <= 4
    /\ state \in 3 .. 6 => Len(buffer) = state - 3
    /\ state \in 7 .. 9 => Len(buffer) = 4
    /\ maixcam_data \in Seq(0 .. 255) /\ Len(maixcam_data) = 4
    /\ maixcam_rx_ready \in {0, 1}

LEMMA ReceiveType ==
    ASSUME ParserType, NEW ch \in 0 .. 255, Receive(ch)
    PROVE  ParserType'
<1>1. CASE HeaderByte(ch)
  BY <1>1 DEF HeaderByte, ParserType
<1>2. CASE DataByte(ch)
  <2>1. buffer' \in Seq(0 .. 255) /\ Len(buffer') = Len(buffer) + 1
    BY <1>2 DEF DataByte, ParserType
  <2> QED
    BY <1>2, <2>1 DEF DataByte, ParserType
<1>3. CASE TrailerByte(ch)
  BY <1>3 DEF TrailerByte, ParserType
<1> QED
  BY <1>1, <1>2, <1>3 DEF Receive

LineType ==
    /\ pos \in 0 .. 9
    /\ payload \in Payloads
    /\ faults \in Nat /\ faults_before \in Nat
    /\ header_before \in BOOLEAN

LEMMA TypeParts == TypeOK <=> ParserType /\ LineType
BY DEF TypeOK, ParserType, LineType

LEMMA AdvanceType ==
    ASSUME LineType, NEW lost \in {0, 1}, Advance(lost)
    PROVE  LineType'
<1>1. CASE pos = 9
  <2>1. header_before' \in BOOLEAN
    BY <1>1 DEF Advance, HoldsHeader
  <2> QED
    BY <1>1, <2>1 DEF Advance, LineType
<1>2. CASE pos # 9
  BY <1>2 DEF Advance, LineType
<1> QED
  BY <1>1, <1>2

LEMMA TypeStep == TypeOK /\ [Next]_vars => TypeOK'
<1> SUFFICES ASSUME TypeOK, [Next]_vars PROVE TypeOK'
  OBVIOUS
<1>1. ParserType /\ LineType
  BY TypeParts
<1>2. CASE Send
  <2>1. FrameByte(pos) \in 0 .. 255 /\ Receive(FrameByte(pos)) /\ Advance(0)
    BY <1>2, FrameByteType DEF Send
  <2>2. ParserType' /\ LineType'
    BY <1>1, <2>1, ReceiveType, AdvanceType
  <2> QED
    BY <2>2 DEF TypeOK, ParserType, LineType
<1>3. CASE Lose
  <2>1. ParserType'
    BY <1>1, <1>3 DEF Lose, parser, ParserType
  <2>2. LineType'
    BY <1>1, <1>3, AdvanceType DEF Lose
  <2> QED
    BY <2>1, <2>2 DEF TypeOK, ParserType, LineType
<1>4. CASE Noise
  <2>1. PICK ch \in NoiseBytes : Receive(ch)
    BY <1>4 DEF Noise
  <2>2. ParserType'
    BY <1>1, <2>1, MaixCamAssumption, ReceiveType
  <2>3. LineType'
    BY <1>1, <1>4 DEF Noise, LineType
  <2> QED
    BY <2>2, <2>3 DEF TypeOK, ParserType, LineType
<1>5. CASE ClearReady
  BY <1>5 DEF ClearReady, line, TypeOK
<1>6. CASE UNCHANGED vars
  BY <1>6 DEF vars, parser, line, TypeOK
<1> QED
  BY <1>2, <1>3, <1>4, <1>5, <1>6 DEF Next

LEMMA InitType == Init => TypeOK
<1> SUFFICES ASSUME Init PROVE TypeOK
  OBVIOUS
<1>1. maixcam_data \in Seq(0 .. 255) /\ Len(maixcam_data) = 4
  BY DEF Init
<1>2. buffer \in Seq(0 .. 255) /\ Len(buffer) = 0
  BY DEF Init
<1>3. header_before \in BOOLEAN
  BY Zenon DEF Init
<1>4. /\ state = 0 /\ maixcam_rx_ready = 0 /\ pos = 0 /\ payload \in Payloads
      /\ faults = 0 /\ faults_before = 0
  BY DEF Init
<1> QED
  BY <1>1, <1>2, <1>3, <1>4 DEF TypeOK

\* Type correctness for all data words and any number of faults.
THEOREM TypeCorrect == Spec => []TypeOK
BY InitType, TypeStep, PTL DEF Spec

--------------------------------------------------------------------------------

\* The states an unbroken frame whose data word holds no header can have led the parser
\* to, from any state before it: the fixed bytes throw out what is out of step.
Reachable == [p \in 0 .. 9 |->
    CASE p = 0 -> 0 .. 9
      [] p = 1 -> {0, 1, 4, 5, 6, 7}
      [] p = 2 -> {0, 2, 5, 6, 7}
      [] p = 3 -> {0, 3, 6, 7}
      [] p = 4 -> {0, 1, 4, 7, 8}
      [] p = 5 -> {0, 1, 2, 5, 8, 9}
      [] p = 6 -> {0, 1, 2, 6, 9}
      [] p = 7 -> {0, 1, 2, 7}
      [] p = 8 -> {0, 8}
      [] p = 9 -> {0, 9}]

\* The data bytes collected so far are those of the current frame.
Collected ==
    /\ pos \in 4 .. 6 => \A i \in 1 .. (pos - 3) : buffer[i] = payload[i]
    /\ pos \in 7 .. 9 => \A i \in 1 .. 4 : buffer[i] = payload[i]

\* Within a data word, states 1 and 2 come of one and two bytes of a header.
HeaderBegun ==
    /\ state = 1 /\ pos \in 4 .. 7 => payload[pos - 3] = 17
    /\ state = 2 /\ pos \in 5 .. 7 => payload[pos - 4] = 17 /\ payload[pos - 3] = 34

\* After one unbroken frame without a header in its data word the parser waits for a
\* header; from there it stays in step for as long as the frames are unbroken.
CameraInStep ==
    /\ faults = 0 /\ ~HoldsHeader(payload) => state \in Reachable[pos] /\ HeaderBegun
    /\ faults = 0 /\ faults_before = 0 /\ ~header_before => state = pos /\ Collected

CameraInv == TypeOK /\ CameraInStep

LEMMA ReachableValues ==
    /\ Reachable[0] = 0 .. 9
    /\ Reachable[1] = {0, 1, 4, 5, 6, 7}
    /\ Reachable[2] = {0, 2, 5, 6, 7}
    /\ Reachable[3] = {0, 3, 6, 7}
    /\ Reachable[4] = {0, 1, 4, 7, 8}
    /\ Reachable[5] = {0, 1, 2, 5, 8, 9}
    /\ Reachable[6] = {0, 1, 2, 6, 9}
    /\ Reachable[7] = {0, 1, 2, 7}
    /\ Reachable[8] = {0, 8}
    /\ Reachable[9] = {0, 9}
BY DEF Reachable

\* What a byte does to the state alone.
LEMMA ReceiveState ==
    ASSUME TypeOK, NEW ch, Receive(ch)
    PROVE  /\ state = 0 => state' = IF ch = 17 THEN 1 ELSE 0
           /\ state = 1 => state' = IF ch = 34 THEN 2 ELSE 0
           /\ state = 2 => state' = IF ch = 51 THEN 3 ELSE 0
           /\ state \in 3 .. 6 => state' = state + 1
           /\ state = 7 => state' = IF ch = 68 THEN 8 ELSE 0
           /\ state = 8 => state' = IF ch = 85 THEN 9 ELSE 0
           /\ state = 9 => state' = 0
BY FixedBytes DEF Receive, HeaderByte, DataByte, TrailerByte, TypeOK

\* The bytes of a frame, by position.
LEMMA SentBytes ==
    ASSUME TypeOK
    PROVE  /\ pos = 0 => FrameByte(pos) = 17
           /\ pos = 1 => FrameByte(pos) = 34
           /\ pos = 2 => FrameByte(pos) = 51
           /\ pos \in 3 .. 6 => FrameByte(pos) = payload[pos - 2]
           /\ pos = 7 => FrameByte(pos) = 68
           /\ pos = 8 => FrameByte(pos) = 85
           /\ pos = 9 => FrameByte(pos) = 102
BY FixedBytes DEF FrameByte

\* A byte received in step is the next one of the frame's data word, or none of it.
LEMMA CollectStep ==
    ASSUME TypeOK, Collected, state = pos, pos \in 3 .. 8, Receive(FrameByte(pos)), pos' = pos + 1,
           payload' = payload
    PROVE  Collected'
<1>1. CASE pos \in 3 .. 6
  <2>1. FrameByte(pos) = payload[pos - 2]
    BY <1>1 DEF FrameByte
  <2>2. buffer' = Append(buffer, FrameByte(pos)) /\ Len(buffer) = pos - 3
        /\ buffer \in Seq(0 .. 255)
    BY <1>1 DEF Receive, HeaderByte, DataByte, TrailerByte, TypeOK
  <2>3. \A i \in 1 .. (pos - 3) : buffer'[i] = payload[i]
    BY <1>1, <2>2 DEF Collected
  <2>4. buffer'[pos - 2] = payload[pos - 2]
    BY <1>1, <2>1, <2>2
  <2>5. \A i \in 1 .. (pos - 2) : buffer'[i] = payload[i]
    BY <1>1, <2>3, <2>4
  <2> QED
    BY <1>1, <2>5 DEF Collected
<1>2. CASE pos \in 7 .. 8
  <2>1. buffer' = buffer
    BY <1>2 DEF Receive, HeaderByte, DataByte, TrailerByte
  <2> QED
    BY <1>2, <2>1 DEF Collected
<1> QED
  BY <1>1, <1>2

\* A whole data word is what the handler has collected at the last byte.
LEMMA BufferIsPayload ==
    ASSUME TypeOK, Collected, state = 9, pos = 9
    PROVE  buffer = payload
<1>1. buffer \in Seq(0 .. 255) /\ Len(buffer) = 4
      /\ payload \in [1 .. 4 -> 0 .. 255]
  BY MaixCamAssumption DEF TypeOK
<1>2. \A i \in 1 .. 4 : buffer[i] = payload[i]
  BY DEF Collected
<1>3. buffer \in [1 .. 4 -> 0 .. 255]
  BY <1>1, LenProperties
<1> QED
  BY <1>1, <1>2, <1>3

\* One byte of an unbroken frame, within the frame.
LEMMA WordByte ==
    ASSUME TypeOK, ~HoldsHeader(payload), state \in Reachable[pos], HeaderBegun,
           Receive(FrameByte(pos)), pos # 9, pos' = pos + 1, payload' = payload
    PROVE  state' \in Reachable[pos'] /\ HeaderBegun'
<1> DEFINE ch == FrameByte(pos)
           p1 == payload[1]
           p2 == payload[2]
           p3 == payload[3]
           p4 == payload[4]
<1>1. state \in 0 .. 9 /\ pos \in 0 .. 8
  BY DEF TypeOK
<1>2. /\ state = 0 => state' = IF ch = 17 THEN 1 ELSE 0
      /\ state = 1 => state' = IF ch = 34 THEN 2 ELSE 0
      /\ state = 2 => state' = IF ch = 51 THEN 3 ELSE 0
      /\ state \in 3 .. 6 => state' = state + 1
      /\ state = 7 => state' = IF ch = 68 THEN 8 ELSE 0
      /\ state = 8 => state' = IF ch = 85 THEN 9 ELSE 0
      /\ state = 9 => state' = 0
  BY ReceiveState
<1>3. /\ pos = 0 => ch = 17
      /\ pos = 1 => ch = 34
      /\ pos = 2 => ch = 51
      /\ pos = 3 => ch = p1
      /\ pos = 4 => ch = p2
      /\ pos = 5 => ch = p3
      /\ pos = 6 => ch = p4
      /\ pos = 7 => ch = 68
      /\ pos = 8 => ch = 85
  BY SentBytes
<1>4. ~(p1 = 17 /\ p2 = 34 /\ p3 = 51) /\ ~(p2 = 17 /\ p3 = 34 /\ p4 = 51)
  BY FixedBytes DEF HoldsHeader
<1> HIDE DEF ch
<1>5. /\ pos = 4 /\ state = 1 => p1 = 17
      /\ pos = 5 /\ state = 1 => p2 = 17
      /\ pos = 5 /\ state = 2 => p1 = 17 /\ p2 = 34
      /\ pos = 6 /\ state = 1 => p3 = 17
      /\ pos = 6 /\ state = 2 => p2 = 17 /\ p3 = 34
  BY DEF HeaderBegun
<1> HIDE DEF p1, p2, p3, p4
<1>6. state' \in Reachable[pos + 1]
  BY <1>1, <1>2, <1>3, <1>4, <1>5, ReachableValues
<1>7. /\ pos = 3 /\ state' = 1 => p1 = 17
      /\ pos = 4 /\ state' = 1 => p2 = 17
      /\ pos = 4 /\ state' = 2 => p1 = 17 /\ p2 = 34
      /\ pos = 5 /\ state' = 1 => p3 = 17
      /\ pos = 5 /\ state' = 2 => p2 = 17 /\ p3 = 34
      /\ pos = 6 /\ state' = 1 => p4 = 17
      /\ pos = 6 /\ state' = 2 => p3 = 17 /\ p4 = 34
  BY <1>1, <1>2, <1>3, <1>5, ReachableValues
<1> QED
  BY <1>1, <1>6, <1>7 DEF HeaderBegun, p1, p2, p3, p4

LEMMA SendStaysInStep ==
    ASSUME CameraInv, Send
    PROVE  CameraInStep'
<1> DEFINE ch == FrameByte(pos)
<1>1. TypeOK /\ CameraInStep /\ Receive(ch) /\ Advance(0)
  BY DEF CameraInv, Send
<1>2. state \in 0 .. 9 /\ pos \in 0 .. 9 /\ faults \in Nat /\ faults_before \in Nat
  BY <1>1 DEF TypeOK
<1>3. CASE pos = 9
  <2>1. /\ pos' = 0 /\ faults' = 0 /\ faults_before' = faults
        /\ header_before' = HoldsHeader(payload)
    BY <1>1, <1>2, <1>3 DEF Advance
  <2>2. faults = 0 /\ ~HoldsHeader(payload) => state' = 0
    <3>1. faults = 0 /\ ~HoldsHeader(payload) => state = 0 \/ state = 9
      BY <1>1, <1>3, ReachableValues DEF CameraInStep
    <3>2. ch = 102
      BY <1>1, <1>3, SentBytes
    <3> QED
      BY <1>1, <3>1, <3>2, ReceiveState
  <2>3. state' \in 0 .. 9
    BY TypeStep DEF CameraInv, Next, TypeOK
  <2> QED
    BY <2>1, <2>2, <2>3, ReachableValues DEF CameraInStep, HeaderBegun, Collected
<1>4. CASE pos # 9
  <2>1. /\ pos' = pos + 1 /\ faults' = faults
        /\ UNCHANGED <<payload, faults_before, header_before>>
    BY <1>1, <1>2, <1>4 DEF Advance
  <2>2. ASSUME faults = 0, ~HoldsHeader(payload)
        PROVE  state' \in Reachable[pos'] /\ HeaderBegun'
    BY <1>1, <1>4, <2>1, <2>2, WordByte DEF CameraInStep
  <2>3. HoldsHeader(payload)' = HoldsHeader(payload)
    BY <2>1 DEF HoldsHeader
  <2>4. ASSUME faults = 0, faults_before = 0, ~header_before PROVE state' = pos' /\ Collected'
    <3>1. state = pos /\ Collected
      BY <1>1, <2>4 DEF CameraInStep
    <3>2. state' = pos'
      BY <1>1, <1>2, <1>4, <2>1, <3>1, SentBytes, ReceiveState
    <3>3. CASE pos \in 3 .. 8
      BY <1>1, <2>1, <3>1, <3>2, <3>3, CollectStep
    <3>4. CASE pos \in 0 .. 2
      BY <2>1, <3>2, <3>4 DEF Collected
    <3> QED
      BY <1>2, <1>4, <3>3, <3>4
  <2> HIDE DEF ch
  <2> QED
    BY <2>1, <2>2, <2>3, <2>4 DEF CameraInStep
<1> QED
  BY <1>3, <1>4

\* A lost byte counts against the frame it belongs to.
LEMMA LoseStaysInStep == CameraInv /\ Lose => CameraInStep'
<1> SUFFICES ASSUME CameraInv, Lose PROVE CameraInStep'
  OBVIOUS
<1>1. TypeOK /\ Advance(1) /\ state' = state
  BY DEF CameraInv, Lose, parser
<1>2. CASE pos = 9
  BY <1>1, <1>2, ReachableValues DEF Advance, CameraInStep, HeaderBegun, TypeOK
<1>3. CASE pos # 9
  BY <1>1, <1>3 DEF Advance, CameraInStep, TypeOK
<1> QED
  BY <1>2, <1>3

LEMMA CameraStep == CameraInv /\ [Next]_vars => CameraInv'
<1> SUFFICES ASSUME CameraInv, [Next]_vars PROVE CameraInv'
  OBVIOUS
<1>1. TypeOK'
  BY TypeStep DEF CameraInv
<1>2. CASE Send
  BY <1>1, <1>2, SendStaysInStep DEF CameraInv
<1>3. CASE Lose
  BY <1>1, <1>3, LoseStaysInStep DEF CameraInv
<1>4. CASE Noise
  <2>1. faults' # 0
    BY <1>4 DEF Noise, CameraInv, TypeOK
  <2> QED
    BY <1>1, <2>1 DEF CameraInv, CameraInStep
<1>5. CASE ClearReady
  BY <1>1, <1>5 DEF ClearReady, line, CameraInv, CameraInStep, HeaderBegun, Collected, HoldsHeader
<1>6. CASE UNCHANGED vars
  BY <1>1, <1>6
  DEF vars, parser, line, CameraInv, CameraInStep, HeaderBegun, Collected, HoldsHeader
<1> QED
  BY <1>2, <1>3, <1>4, <1>5, <1>6 DEF Next

\* In step at the last byte, the parser publishes the camera's data word.
LEMMA PublishStep ==
    ASSUME CameraInv, [Next]_vars, SecondCleanFrame, ~header_before
    PROVE  maixcam_rx_ready' = 1 /\ maixcam_data' = payload
<1>1. TypeOK /\ CameraInStep /\ pos = 9 /\ pos' = 0 /\ faults = 0 /\ faults_before = 0
      /\ faults_before' = 0
  BY DEF CameraInv, SecondCleanFrame
<1>2. Send
  <2>1. ~Lose
    BY <1>1 DEF Lose, Advance
  <2>2. ~Noise /\ ~ClearReady /\ ~UNCHANGED vars
    BY <1>1 DEF Noise, ClearReady, vars, line
  <2> QED
    BY <2>1, <2>2 DEF Next
<1>3. state = 9 /\ FrameByte(pos) = 102 /\ Collected
  BY <1>1, FixedBytes DEF CameraInStep, FrameByte
<1>4. maixcam_data' = buffer /\ maixcam_rx_ready' = 1
  BY <1>2, <1>3, FixedBytes DEF Send, Receive, HeaderByte, DataByte, TrailerByte
<1>5. buffer = payload
  BY <1>1, <1>3, BufferIsPayload
<1> QED
  BY <1>4, <1>5

\* Of two unbroken frames in a row the second is delivered by UART_3_INST_IRQHandler,
\* whatever came before them and whatever it holds itself, unless the first one's data
\* word holds a whole header.
THEOREM CleanFrameAlwaysDelivered == Spec => CleanFrameDelivered
<1>1. Init => CameraInv
  <2> SUFFICES ASSUME Init PROVE CameraInv
    OBVIOUS
  <2> QED
    BY InitType, ReachableValues DEF Init, CameraInv, CameraInStep, HeaderBegun, Collected
<1>2. CameraInv /\ [Next]_vars =>
        [SecondCleanFrame /\ ~header_before =>
            maixcam_rx_ready' = 1 /\ maixcam_data' = payload]_vars
  BY PublishStep
<1> QED
  BY <1>1, <1>2, CameraStep, PTL DEF Spec, CleanFrameDelivered

--------------------------------------------------------------------------------
\* One fault in two frames publishes nothing the camera did not send.

\* Where the parser can be before the byte at a position, when this frame and the one
\* before are unbroken, when this one has a fault, and when the one before had.  State 9,
\* from which a data word is published, occurs in front of the byte 102 at position 9 only.
Unbroken == [p \in 0 .. 9 |->
    CASE p = 0 -> {0, 6, 7}
      [] p = 1 -> {0, 1, 7}
      [] p = 2 -> {0, 2}
      [] p = 3 -> {0, 3}
      [] p = 4 -> {0, 1, 4}
      [] p = 5 -> {0, 1, 2, 5}
      [] p = 6 -> {0, 1, 2, 3, 6}
      [] p = 7 -> {0, 1, 2, 3, 4, 7}
      [] p = 8 -> {0, 4, 5, 8}
      [] p = 9 -> {0, 5, 6, 9}]

Broken == [p \in 0 .. 9 |->
    CASE p = 0 -> {0, 1, 7, 8}
      [] p = 1 -> {0, 1, 2, 6, 7, 8}
      [] p = 2 -> {0, 1, 2, 3, 7}
      [] p \in 3 .. 8 -> 0 .. p + 1
      [] p = 9 -> {0, 1, 4, 5, 6, 7, 8, 9}]

Mended == [p \in 0 .. 9 |->
    CASE p = 0 -> {0, 5, 6, 7, 9}
      [] p = 1 -> {0, 1, 6, 7}
      [] p = 2 -> {0, 2, 7}
      [] p \in 3 .. 9 -> Unbroken[p]]

LEMMA UnbrokenValues ==
    /\ Unbroken[0] = {0, 6, 7}
    /\ Unbroken[1] = {0, 1, 7}
    /\ Unbroken[2] = {0, 2}
    /\ Unbroken[3] = {0, 3}
    /\ Unbroken[4] = {0, 1, 4}
    /\ Unbroken[5] = {0, 1, 2, 5}
    /\ Unbroken[6] = {0, 1, 2, 3, 6}
    /\ Unbroken[7] = {0, 1, 2, 3, 4, 7}
    /\ Unbroken[8] = {0, 4, 5, 8}
    /\ Unbroken[9] = {0, 5, 6, 9}
BY DEF Unbroken

LEMMA BrokenValues ==
    /\ Broken[0] = {0, 1, 7, 8}
    /\ Broken[1] = {0, 1, 2, 6, 7, 8}
    /\ Broken[2] = {0, 1, 2, 3, 7}
    /\ Broken[3] = 0 .. 4
    /\ Broken[4] = 0 .. 5
    /\ Broken[5] = 0 .. 6
    /\ Broken[6] = 0 .. 7
    /\ Broken[7] = 0 .. 8
    /\ Broken[8] = 0 .. 9
    /\ Broken[9] = {0, 1, 4, 5, 6, 7, 8, 9}
BY DEF Broken

LEMMA MendedValues ==
    /\ Mended[0] = {0, 5, 6, 7, 9}
    /\ Mended[1] = {0, 1, 6, 7}
    /\ Mended[2] = {0, 2, 7}
    /\ Mended[3] = {0, 3}
    /\ Mended[4] = {0, 1, 4}
    /\ Mended[5] = {0, 1, 2, 5}
    /\ Mended[6] = {0, 1, 2, 3, 6}
    /\ Mended[7] = {0, 1, 2, 3, 4, 7}
    /\ Mended[8] = {0, 4, 5, 8}
    /\ Mended[9] = {0, 5, 6, 9}
BY UnbrokenValues DEF Mended

\* With one fault in two frames; a parser in the state of the frame's position has
\* collected the bytes of this frame, however it came there.
OneFault ==
    /\ faults + faults_before <= 1
    /\ faults = 0 /\ faults_before = 0 => state \in Unbroken[pos]
    /\ faults = 1 => state \in Broken[pos]
    /\ faults_before = 1 => state \in Mended[pos]
    /\ state = pos => Collected

LEMMA SendKeepsStates ==
    ASSUME TypeOK, OneFault, Send
    PROVE  OneFault'
<1> DEFINE ch == FrameByte(pos)
<1>1. Receive(ch) /\ Advance(0)
  BY DEF Send
<1>2. state \in 0 .. 9 /\ pos \in 0 .. 9 /\ faults \in Nat /\ faults_before \in Nat
  BY DEF TypeOK
<1>3. /\ pos = 0 => ch = 17
      /\ pos = 1 => ch = 34
      /\ pos = 2 => ch = 51
      /\ pos \in 3 .. 6 => ch = payload[pos - 2]
      /\ pos = 7 => ch = 68
      /\ pos = 8 => ch = 85
      /\ pos = 9 => ch = 102
  BY SentBytes
<1> HIDE DEF ch
<1>4. /\ state = 0 => state' = IF ch = 17 THEN 1 ELSE 0
      /\ state = 1 => state' = IF ch = 34 THEN 2 ELSE 0
      /\ state = 2 => state' = IF ch = 51 THEN 3 ELSE 0
      /\ state \in 3 .. 6 => state' = state + 1
      /\ state = 7 => state' = IF ch = 68 THEN 8 ELSE 0
      /\ state = 8 => state' = IF ch = 85 THEN 9 ELSE 0
      /\ state = 9 => state' = 0
  BY <1>1, ReceiveState
<1>5. CASE pos = 9
  <2>1. pos' = 0 /\ faults' = 0 /\ faults_before' = faults
    BY <1>1, <1>2, <1>5 DEF Advance
  <2>2. state \in 0 .. 9
    BY <1>2
  <2>3. faults = 0 => state' \in Unbroken[0]
    BY <1>2, <1>3, <1>4, <1>5, UnbrokenValues, MendedValues DEF OneFault
  <2>4. faults = 1 => state' \in Mended[0]
    BY <1>2, <1>3, <1>4, <1>5, BrokenValues, MendedValues DEF OneFault
  <2>5. Collected'
    BY <2>1 DEF Collected
  <2> QED
    BY <1>2, <2>1, <2>3, <2>4, <2>5 DEF OneFault
<1>6. CASE pos # 9
  <2>1. pos' = pos + 1 /\ faults' = faults /\ UNCHANGED <<payload, faults_before>>
    BY <1>1, <1>2, <1>6 DEF Advance
  <2>2. faults = 0 /\ faults_before = 0 => state' \in Unbroken[pos + 1]
    BY <1>2, <1>3, <1>4, <1>6, UnbrokenValues DEF OneFault
  <2>3. faults = 1 => state' \in Broken[pos + 1]
    BY <1>2, <1>3, <1>4, <1>6, BrokenValues DEF OneFault
  <2>4. faults_before = 1 => state' \in Mended[pos + 1]
    BY <1>2, <1>3, <1>4, <1>6, MendedValues DEF OneFault
  <2>5. ASSUME state' = pos' PROVE Collected'
    <3>1. CASE pos \in 3 .. 8
      <4>1. state = pos
        BY <1>2, <1>4, <2>1, <2>5, <3>1
      <4> QED
        BY <1>1, <1>2, <1>3, <2>1, <3>1, <4>1, CollectStep DEF OneFault, ch
    <3>2. CASE pos \in 0 .. 2
      BY <2>1, <3>2 DEF Collected
    <3> QED
      BY <1>2, <1>6, <3>1, <3>2
  <2> QED
    BY <2>1, <2>2, <2>3, <2>4, <2>5 DEF OneFault
<1> QED
  BY <1>5, <1>6

\* A byte lost or added makes this frame a broken one.
LEMMA FaultKeepsStates ==
    ASSUME TypeOK, OneFault, MaxFaults <= 1, Lose \/ Noise
    PROVE  OneFault'
<1>1. MaxFaults \in Nat /\ faults \in Nat /\ faults_before \in Nat
      /\ state \in 0 .. 9 /\ pos \in 0 .. 9
  BY MaixCamAssumption DEF TypeOK
<1>2. faults = 0 /\ faults_before = 0 /\ state \in Unbroken[pos]
  BY <1>1 DEF Lose, Noise, MoreFaults, OneFault
<1>3. CASE Lose
  <2>1. Advance(1) /\ state' = state /\ buffer' = buffer
    BY <1>3 DEF Lose, parser
  <2>2. CASE pos = 9
    <3>1. pos' = 0 /\ faults' = 0 /\ faults_before' = 1
      BY <1>2, <2>1, <2>2 DEF Advance
    <3>2. state' \in Mended[0]
      BY <1>2, <2>1, <2>2, UnbrokenValues, MendedValues
    <3> QED
      BY <3>1, <3>2 DEF OneFault, Collected
  <2>3. CASE pos # 9
    <3>1. pos' = pos + 1 /\ faults' = 1 /\ faults_before' = 0
      BY <1>2, <2>1, <2>3 DEF Advance
    <3>2. state' \in Broken[pos'] /\ (state' = pos' => pos' \in 0 .. 3)
      BY <1>1, <1>2, <2>1, <2>3, <3>1, UnbrokenValues, BrokenValues
    <3> QED
      BY <3>1, <3>2 DEF OneFault, Collected
  <2> QED
    BY <2>2, <2>3
<1>4. CASE Noise
  <2>1. PICK ch \in NoiseBytes : Receive(ch)
    BY <1>4 DEF Noise
  <2>2. pos' = pos /\ faults' = 1 /\ faults_before' = 0 /\ payload' = payload
    BY <1>2, <1>4 DEF Noise
  <2>3. state' \in Broken[pos] /\ (state' = pos => pos \in 0 .. 3)
    BY <1>1, <1>2, <2>1, ReceiveState, UnbrokenValues, BrokenValues
  <2> QED
    BY <2>2, <2>3 DEF OneFault, Collected
<1> QED
  BY <1>3, <1>4

LEMMA OneFaultStep ==
    ASSUME MaxFaults <= 1
    PROVE  TypeOK /\ OneFault /\ [Next]_vars => OneFault'
<1> SUFFICES ASSUME TypeOK, OneFault, [Next]_vars PROVE OneFault'
  OBVIOUS
<1>1. CASE ClearReady
  BY <1>1 DEF ClearReady, line, OneFault, Collected
<1>2. CASE UNCHANGED vars
  BY <1>2 DEF vars, parser, line, OneFault, Collected
<1> QED
  BY <1>1, <1>2, SendKeepsStates, FaultKeepsStates DEF Next

\* What a byte publishes is the data word of the frame it ends.
LEMMA OnlySentStep ==
    ASSUME TypeOK, OneFault, MaxFaults <= 1, [Next]_vars,
           maixcam_data' # maixcam_data \/ maixcam_rx_ready' > maixcam_rx_ready
    PROVE  pos = 9 /\ maixcam_data' = payload
<1>1. state \in 0 .. 9 /\ pos \in 0 .. 9 /\ faults \in Nat /\ faults_before \in Nat
      /\ MaxFaults \in Nat
  BY MaixCamAssumption DEF TypeOK
<1>2. Send \/ Noise
  <2>1. ~Lose /\ ~UNCHANGED vars
    BY DEF Lose, vars, parser, TypeOK
  <2>2. ~ClearReady
    BY DEF ClearReady, TypeOK
  <2> QED
    BY <2>1, <2>2 DEF Next
<1>3. ASSUME NEW ch, Receive(ch) PROVE state = 9 /\ ch = 102 /\ maixcam_data' = buffer
  BY <1>3, FixedBytes DEF Receive, HeaderByte, DataByte, TrailerByte, TypeOK
<1>4. pos = 9
  <2>1. CASE Noise
    <3>1. state = 9 /\ faults = 0 /\ faults_before = 0
      BY <1>1, <1>3, <2>1 DEF Noise, MoreFaults
    <3> QED
      BY <1>1, <3>1, UnbrokenValues DEF OneFault
  <2>2. CASE Send
    <3>1. state = 9 /\ FrameByte(pos) = 102
      BY <1>3, <2>2 DEF Send
    <3>2. pos \notin {0, 8}
      BY <3>1, SentBytes
    <3> QED
      BY <1>1, <3>1, <3>2, UnbrokenValues, BrokenValues, MendedValues DEF OneFault
  <2> QED
    BY <1>2, <2>1, <2>2
<1>5. state = 9 /\ maixcam_data' = buffer
  BY <1>2, <1>3 DEF Send, Noise
<1>6. buffer = payload
  BY <1>4, <1>5, BufferIsPayload DEF OneFault
<1> QED
  BY <1>4, <1>5, <1>6

\* One byte lost or added in two frames never makes UART_3_INST_IRQHandler publish a data
\* word the camera did not send, or publish one early, for all data words, those that hold
\* any of the fixed bytes included, and all noise.
THEOREM OnlySentAlwaysPublished ==
    ASSUME MaxFaults <= 1
    PROVE  Spec => OnlySentDataPublished
<1>1. Init => OneFault
  BY UnbrokenValues DEF Init, OneFault, Collected
<1>2. TypeOK /\ OneFault /\ [Next]_vars =>
        [maixcam_data' # maixcam_data \/ maixcam_rx_ready' > maixcam_rx_ready =>
            /\ pos = 9
            /\ maixcam_data' = payload]_vars
  BY OnlySentStep
<1> QED
  BY <1>1, <1>2, InitType, TypeStep, OneFaultStep, PTL DEF Spec, OnlySentDataPublished

--------------------------------------------------------------------------------
\* The inertial unit.

Published == Types \ {REGISTER}

LineTypes ==
    /\ report \in Reports /\ sent \in 0 .. 10 /\ changed \in Nat /\ shifted \in Nat
    /\ before \in [changed : Nat, shifted : Nat, stray : BOOLEAN]

CountTypes ==
    /\ published = [t \in Published |-> published[t]]
    /\ g_imu_gyro_update_count \in Nat
    /\ gyro_last_update_count \in 0 .. g_imu_gyro_update_count
    /\ updating \in BOOLEAN

--------------------------------------------------------------------------------
\* The gyro's reader.

\* A byte publishes nothing, or one report, and counts it if it is of the gyro.
LEMMA BytePublishes ==
    ASSUME CountTypes, NEW ucData, CopeSerial2Data(ucData)
    PROVE  /\ published' = [t \in Published |-> published'[t]]
           /\ \/ /\ published'[GYRO] = published[GYRO]
                 /\ g_imu_gyro_update_count' = g_imu_gyro_update_count
              \/ g_imu_gyro_update_count' = g_imu_gyro_update_count + 1
<1>1. CASE UNCHANGED <<published, g_imu_gyro_update_count>>
    BY <1>1 DEF CountTypes
<1>2. ASSUME NEW b, FrameDone(b)
      PROVE  /\ published' = [t \in Published |-> published'[t]]
             /\ \/ /\ published'[GYRO] = published[GYRO]
                   /\ g_imu_gyro_update_count' = g_imu_gyro_update_count
                \/ g_imu_gyro_update_count' = g_imu_gyro_update_count + 1
    <2>1. CASE Sum(b) = b[11] /\ b[2] \in DOMAIN published
        <3>1. published' = [published EXCEPT ![b[2]] = Kept(b)]
            BY <1>2, <2>1 DEF FrameDone
        <3>2. published' = [t \in Published |-> published'[t]]
            BY <3>1 DEF CountTypes
        <3>3. CASE b[2] = GYRO
            <4>1. g_imu_gyro_update_count' = g_imu_gyro_update_count + 1
                BY <1>2, <2>1, <3>3 DEF FrameDone
            <4> QED
                BY <3>2, <4>1
        <3>4. CASE b[2] # GYRO
            <4>1. g_imu_gyro_update_count' = g_imu_gyro_update_count + 0
                BY <1>2, <2>1, <3>4 DEF FrameDone
            <4>2. GYRO \in Published
                BY DEF Published, Types, GYRO, REGISTER
            <4>3. published'[GYRO] = published[GYRO]
                BY <3>1, <3>4, <4>2 DEF CountTypes
            <4> QED
                BY <3>2, <4>1, <4>3 DEF CountTypes
        <3> QED
            BY <3>3, <3>4
    <2>2. CASE ~(Sum(b) = b[11] /\ b[2] \in DOMAIN published)
        BY <1>1, <1>2, <2>2 DEF FrameDone
    <2> QED
        BY <2>1, <2>2
<1> QED
    BY <1>1, <1>2 DEF CopeSerial2Data

ReaderInv == CountTypes /\ NoRateSkipped

LEMMA ReaderByte ==
    ASSUME ReaderInv, UNCHANGED gyroReader, NEW ucData, CopeSerial2Data(ucData)
    PROVE  ReaderInv'
<1>1. /\ gyro_last_update_count' = gyro_last_update_count /\ updating' = updating
      /\ rate' = rate
    BY DEF gyroReader
<1>2. CASE /\ published'[GYRO] = published[GYRO]
           /\ g_imu_gyro_update_count' = g_imu_gyro_update_count
    <2>1. GyroZ' = GyroZ
        BY <1>2 DEF GyroZ
    <2> QED
        BY <1>1, <1>2, <2>1, BytePublishes DEF ReaderInv, CountTypes, NoRateSkipped
<1>3. CASE g_imu_gyro_update_count' = g_imu_gyro_update_count + 1
    <2>1. gyro_last_update_count' # g_imu_gyro_update_count'
        BY <1>1, <1>3 DEF ReaderInv, CountTypes
    <2>2. /\ g_imu_gyro_update_count' \in Nat
          /\ gyro_last_update_count' \in 0 .. g_imu_gyro_update_count'
        BY <1>1, <1>3 DEF ReaderInv, CountTypes
    <2>3. updating' \in BOOLEAN
        BY <1>1 DEF ReaderInv, CountTypes
    <2>4. CountTypes'
        BY <2>2, <2>3, BytePublishes DEF ReaderInv, CountTypes
    <2> QED
        BY <2>1, <2>4 DEF ReaderInv, NoRateSkipped
<1> QED
    BY <1>2, <1>3, BytePublishes DEF ReaderInv

LEMMA ReaderStep == ReaderInv /\ [ImuNext]_imuVars => ReaderInv'
<1> SUFFICES ASSUME ReaderInv, [ImuNext]_imuVars PROVE ReaderInv'
    OBVIOUS
<1>1. CASE UNCHANGED <<published, g_imu_gyro_update_count, gyroReader>>
    BY <1>1 DEF gyroReader, ReaderInv, CountTypes, NoRateSkipped, GyroZ
<1>2. CASE UartInterrupt
    <2>1. ASSUME NEW ucData, CopeSerial2Data(ucData) PROVE ReaderInv'
        BY <1>2, <2>1, ReaderByte DEF UartInterrupt
    <2>2. CASE ByteLost
        BY <1>1, <1>2, <2>2 DEF UartInterrupt, ByteLost, imuParser
    <2> QED
        BY <1>2, <2>1, <2>2 DEF UartInterrupt, ByteArrives, ByteChanged, ByteAdded
<1>3. CASE ReadUpdateCount
    <2>1. CountTypes'
        BY <1>3 DEF ReadUpdateCount, imuParser, ReaderInv, CountTypes
    <2>2. updating'
        BY <1>3 DEF ReadUpdateCount
    <2> QED
        BY <2>1, <2>2 DEF ReaderInv, NoRateSkipped
<1>4. CASE ReadRate
    <2>1. CountTypes'
        BY <1>4 DEF ReadRate, imuParser, ReaderInv, CountTypes
    <2>2. rate' = GyroZ'
        BY <1>4 DEF ReadRate, imuParser, GyroZ
    <2> QED
        BY <2>1, <2>2 DEF ReaderInv, NoRateSkipped
<1>5. CASE UNCHANGED imuVars
    BY <1>1, <1>5 DEF imuVars, imuParser
<1> QED
    BY <1>2, <1>3, <1>4, <1>5 DEF ImuNext, Stable30_Update_Gyro

\* A sample whose count the main loop has recorded is never one whose rate it has not
\* used, wherever the interrupt publishes another one and however many it publishes.
THEOREM NoRateEverSkipped == ImuSpec => []NoRateSkipped
<1>1. ImuInit => ReaderInv
    <2> SUFFICES ASSUME ImuInit PROVE ReaderInv
        OBVIOUS
    <2>1. published = [t \in Published |-> published[t]]
        BY DEF ImuInit, Published
    <2>2. g_imu_gyro_update_count = 0 /\ gyro_last_update_count = 0 /\ updating = FALSE
        BY DEF ImuInit
    <2>3. g_imu_gyro_update_count \in Nat
          /\ gyro_last_update_count \in 0 .. g_imu_gyro_update_count
        BY <2>2
    <2>4. updating \in BOOLEAN
        BY <2>2
    <2> QED
        BY <2>1, <2>2, <2>3, <2>4 DEF ReaderInv, CountTypes, NoRateSkipped
<1>2. ReaderInv => NoRateSkipped
    BY DEF ReaderInv
<1> QED
    BY <1>1, <1>2, ReaderStep, PTL DEF ImuSpec

--------------------------------------------------------------------------------
\* The parser.

\* The buffer holds the front of the frame on its way.
InStep ==
    /\ Len(ucRxBuffer) = sent
    /\ \A i \in 1 .. sent : ucRxBuffer[i] = Frame(report)[i]

\* What an unbroken frame with one header byte can have left of anything before it: a
\* buffer that is out of step is longer than the part of the frame already sent, and
\* overflows before it.
OnTheWay == ucRxBuffer = <<>> \/ Len(ucRxBuffer) > sent \/ InStep

ParserInv ==
    /\ LineTypes
    /\ published = [t \in Published |-> published[t]]
    /\ ucRxBuffer \in Seq(Bytes) /\ Len(ucRxBuffer) <= 10
    /\ changed = 0 /\ shifted = 0 =>
          /\ ~HeaderInside(report) => OnTheWay
          /\ before = Clean => InStep

LEMMA SumOfTen ==
    ASSUME NEW b, \A i \in 1 .. 10 : b[i] \in Bytes
    PROVE  Sum(b) \in Bytes
<1>1. \A x \in Int : x % 256 \in Bytes
    BY DEF Bytes
<1>2. /\ b[1] \in Int /\ b[2] \in Int /\ b[3] \in Int /\ b[4] \in Int /\ b[5] \in Int
      /\ b[6] \in Int /\ b[7] \in Int /\ b[8] \in Int /\ b[9] \in Int /\ b[10] \in Int
    BY DEF Bytes
<1>3. b[1] + b[2] + b[3] + b[4] + b[5] + b[6] + b[7] + b[8] + b[9] + b[10] \in Int
    BY <1>2
<1> QED
    BY <1>1, <1>3 DEF Sum

LEMMA SumOfSame ==
    ASSUME NEW b, NEW c, \A i \in 1 .. 10 : b[i] = c[i]
    PROVE  Sum(b) = Sum(c)
<1>1. /\ b[1] = c[1] /\ b[2] = c[2] /\ b[3] = c[3] /\ b[4] = c[4] /\ b[5] = c[5]
      /\ b[6] = c[6] /\ b[7] = c[7] /\ b[8] = c[8] /\ b[9] = c[9] /\ b[10] = c[10]
    OBVIOUS
<1> QED
    BY <1>1 DEF Sum

LEMMA RangeOfEight ==
    ASSUME NEW n \in Nat, 1 .. n = 1 .. 8
    PROVE  n = 8
<1>1. \A i : i \in 1 .. n <=> i \in 1 .. 8
    BY Zenon
<1>2. n >= 8
    BY <1>1
<1>3. n <= 8
    BY <1>1, <1>2
<1> QED
    BY <1>2, <1>3

LEMMA EightBytes ==
    ASSUME NEW d \in [1 .. 8 -> Bytes]
    PROVE  d \in Seq(Bytes) /\ Len(d) = 8
<1>1. 8 \in Nat
    OBVIOUS
<1>2. d \in Seq(Bytes)
    BY <1>1, SeqDef, Zenon
<1> DEFINE n == Len(d)
<1>3. n \in Nat /\ d \in [1 .. n -> Bytes]
    BY <1>2, LenProperties
<1> HIDE DEF n
<1>4. 1 .. n = 1 .. 8
    BY <1>3, Zenon
<1>5. n = 8
    BY <1>3, <1>4, RangeOfEight
<1> QED
    BY <1>2, <1>5 DEF n

LEMMA FrameBytes ==
    ASSUME NEW r \in Reports
    PROVE  /\ Frame(r) \in Seq(Bytes) /\ Len(Frame(r)) = 11
           /\ \A i \in 1 .. 11 : Frame(r)[i] \in Bytes
           /\ Frame(r)[1] = Header /\ Frame(r)[2] = r.type
           /\ \A b : (\A i \in 1 .. 10 : b[i] = Frame(r)[i]) => Sum(b) = Frame(r)[11]
<1> DEFINE h == <<Header, r.type>>
           front == h \o r.data
<1>1. r.type \in Bytes /\ r.data \in [1 .. 8 -> Bytes]
    <2>1. r \in [type : Types, data : [1 .. 8 -> Bytes]]
        BY ImuAssumption
    <2>2. Types \subseteq Bytes
        BY DEF Types, Bytes, GYRO, ANGLE, ACCEL, QUAT, REGISTER
    <2> QED
        BY <2>1, <2>2
<1>2. r.data \in Seq(Bytes) /\ Len(r.data) = 8
    BY <1>1, EightBytes
<1>3. h \in Seq(Bytes) /\ Len(h) = 2 /\ h[1] = Header /\ h[2] = r.type
    <2>1. Header \in Bytes
        BY DEF Header, Bytes
    <2> QED
        BY <1>1, <2>1
<1> HIDE DEF h
<1>4. /\ front \in Seq(Bytes) /\ Len(front) = 10
      /\ front[1] = Header /\ front[2] = r.type
    <2>1. /\ front \in Seq(Bytes)
          /\ Len(front) = Len(h) + Len(r.data)
          /\ \A i \in 1 .. Len(h) + Len(r.data) :
                front[i] = IF i <= Len(h) THEN h[i] ELSE r.data[i - Len(h)]
        BY <1>2, <1>3, ConcatProperties
    <2> HIDE DEF front
    <2> QED
        BY <1>2, <1>3, <2>1
<1>5. Frame(r) = Append(front, Sum(front))
    BY DEF Frame, h
<1> HIDE DEF front
<1>6. \A i \in 1 .. 10 : front[i] \in Bytes
    BY <1>4, ElementOfSeq
<1>7. Sum(front) \in Bytes
    BY <1>6, SumOfTen
<1>8. /\ \A i \in 1 .. 10 : Frame(r)[i] = front[i]
      /\ Frame(r)[11] = Sum(front)
    <2>1. /\ \A i \in 1 .. Len(front) : Append(front, Sum(front))[i] = front[i]
          /\ Append(front, Sum(front))[Len(front) + 1] = Sum(front)
        <3> DEFINE e == Sum(front)
        <3>1. e \in Bytes /\ front \in Seq(Bytes)
            BY <1>4, <1>7
        <3> HIDE DEF e
        <3>2. /\ \A i \in 1 .. Len(front) : Append(front, e)[i] = front[i]
              /\ Append(front, e)[Len(front) + 1] = e
            BY <3>1, AppendProperties
        <3> QED
            BY <3>2 DEF e
    <2>2. Len(front) = 10 /\ Len(front) + 1 = 11
        BY <1>4
    <2>3. Frame(r)[11] = Sum(front)
        BY <1>5, <2>1, <2>2, Zenon
    <2>4. ASSUME NEW i \in 1 .. 10 PROVE Frame(r)[i] = front[i]
        <3>1. i \in 1 .. Len(front)
            BY <2>2
        <3> QED
            BY <1>5, <2>1, <3>1, Zenon
    <2> QED
        BY <2>3, <2>4
<1>9. Frame(r) \in Seq(Bytes) /\ Len(Frame(r)) = 11
    <2> DEFINE e == Sum(front)
    <2>1. e \in Bytes /\ front \in Seq(Bytes) /\ Len(front) = 10
        BY <1>4, <1>7
    <2> HIDE DEF e
    <2>2. Append(front, e) \in Seq(Bytes) /\ Len(Append(front, e)) = Len(front) + 1
        BY <2>1, AppendProperties
    <2> QED
        BY <1>5, <2>1, <2>2 DEF e
<1>10. ASSUME NEW b, \A i \in 1 .. 10 : b[i] = Frame(r)[i]
      PROVE  Sum(b) = Frame(r)[11]
    <2>1. \A i \in 1 .. 10 : b[i] = front[i]
        BY <1>8, <1>10
    <2> QED
        BY <1>8, <2>1, SumOfSame
<1> QED
    BY <1>4, <1>6, <1>7, <1>8, <1>9, <1>10

With(c) == Append(ucRxBuffer, c)

\* What a byte does to the buffer.
LEMMA ByteStored ==
    ASSUME ucRxBuffer \in Seq(Bytes), Len(ucRxBuffer) <= 10, NEW c \in Bytes,
           CopeSerial2Data(c)
    PROVE  /\ ucRxBuffer' \in Seq(Bytes) /\ Len(ucRxBuffer') <= 10
           /\ ucRxBuffer' = <<>> \/ (ucRxBuffer' = With(c) /\ Len(With(c)) < 11)
           /\ ucRxBuffer = <<>> /\ c # Header => ucRxBuffer' = <<>>
           /\ With(c)[1] = Header /\ Len(With(c)) < 11 => ucRxBuffer' = With(c)
           /\ Len(ucRxBuffer) = 10 => ucRxBuffer' = <<>>
<1> DEFINE b == With(c)
<1>1. /\ b \in Seq(Bytes) /\ Len(b) = Len(ucRxBuffer) + 1 /\ Len(ucRxBuffer) \in Nat
      /\ b[Len(ucRxBuffer) + 1] = c
    BY AppendProperties, LenProperties DEF With
<1>2. <<>> \in Seq(Bytes) /\ Len(<<>>) = 0
    BY EmptySeq
<1>3. CASE b[1] # Header \/ Len(b) < 11
    <2>1. ucRxBuffer' = IF b[1] # Header THEN <<>> ELSE b
        BY <1>3 DEF CopeSerial2Data, With
    <2>2. ucRxBuffer = <<>> => b[1] = c
        BY <1>1, <1>2
    <2> QED
        BY <1>1, <1>2, <1>3, <2>1, <2>2
<1>4. CASE ~(b[1] # Header \/ Len(b) < 11)
    <2>1. ucRxBuffer' = <<>>
        BY <1>4 DEF CopeSerial2Data, With
    <2>2. ucRxBuffer = <<>> => b[1] = c
        BY <1>1, <1>2
    <2> QED
        BY <1>1, <1>2, <1>4, <2>1, <2>2
<1> QED
    BY <1>3, <1>4

\* The buffer holds the front of the frame and its next byte.
InStepNext ==
    /\ Len(ucRxBuffer') = sent + 1
    /\ \A i \in 1 .. sent + 1 : ucRxBuffer'[i] = Frame(report)[i]

\* What the next byte of an unbroken frame does to the buffer.
LEMMA CleanByte ==
    ASSUME ParserInv, changed = 0, shifted = 0, ~HeaderInside(report) \/ InStep,
           CopeSerial2Data(Frame(report)[sent + 1])
    PROVE  /\ sent < 10 => \/ ucRxBuffer' = <<>>
                            \/ Len(ucRxBuffer') > sent + 1
                            \/ InStepNext
           /\ sent < 10 /\ InStep => InStepNext
           /\ sent = 10 => ucRxBuffer' = <<>>
<1> DEFINE f == Frame(report)[sent + 1]
<1>1. /\ report \in Reports /\ sent \in 0 .. 10
      /\ ucRxBuffer \in Seq(Bytes) /\ Len(ucRxBuffer) <= 10 /\ Len(ucRxBuffer) \in Nat
    BY LenProperties DEF ParserInv, LineTypes
<1>2. f \in Bytes /\ (sent = 0 => f = Header) /\ (~InStep /\ sent # 0 => f # Header)
    <2>1. sent + 1 \in 1 .. 11 /\ (sent # 0 => sent + 1 \in 2 .. 11)
        BY <1>1
    <2>2. sent = 0 => sent + 1 = 1
        OBVIOUS
    <2> QED
        BY <1>1, <2>1, <2>2, FrameBytes DEF HeaderInside
<1> HIDE DEF f
<1>3. /\ Len(With(f)) = Len(ucRxBuffer) + 1
      /\ \A i \in 1 .. Len(ucRxBuffer) : With(f)[i] = ucRxBuffer[i]
      /\ With(f)[Len(ucRxBuffer) + 1] = f
    BY <1>1, <1>2, AppendProperties DEF With
<1>4. /\ ucRxBuffer' \in Seq(Bytes) /\ Len(ucRxBuffer') <= 10
      /\ ucRxBuffer' = <<>> \/ (ucRxBuffer' = With(f) /\ Len(With(f)) < 11)
      /\ ucRxBuffer = <<>> /\ f # Header => ucRxBuffer' = <<>>
      /\ With(f)[1] = Header /\ Len(With(f)) < 11 => ucRxBuffer' = With(f)
      /\ Len(ucRxBuffer) = 10 => ucRxBuffer' = <<>>
    BY <1>1, <1>2, ByteStored DEF f
<1>5. CASE InStep
    <2>1. Len(ucRxBuffer) = sent /\ \A i \in 1 .. sent : ucRxBuffer[i] = Frame(report)[i]
        BY <1>5 DEF InStep
    <2>2. Len(With(f)) = sent + 1
        BY <1>3, <2>1
    <2>3. \A i \in 1 .. sent + 1 : With(f)[i] = Frame(report)[i]
        <3> SUFFICES ASSUME NEW i \in 1 .. sent + 1 PROVE With(f)[i] = Frame(report)[i]
            OBVIOUS
        <3>1. CASE i = sent + 1
            BY <1>3, <2>1, <3>1 DEF f
        <3>2. CASE i # sent + 1
            <4>1. i \in 1 .. sent
                BY <1>1, <3>2
            <4> QED
                BY <1>3, <2>1, <4>1
        <3> QED
            BY <3>1, <3>2
    <2>4. With(f)[1] = Header
        <3>1. 1 \in 1 .. sent + 1
            BY <1>1
        <3> QED
            BY <1>1, <2>3, <3>1, FrameBytes
    <2>5. sent < 10 => InStepNext
        <3> SUFFICES ASSUME sent < 10 PROVE InStepNext
            OBVIOUS
        <3>1. ucRxBuffer' = With(f)
            BY <1>1, <1>4, <2>2, <2>4
        <3> QED
            BY <2>2, <2>3, <3>1 DEF InStepNext
    <2>6. sent = 10 => ucRxBuffer' = <<>>
        BY <1>4, <2>1
    <2> QED
        BY <1>1, <2>5, <2>6
<1>6. CASE ~InStep /\ ucRxBuffer = <<>>
    <2>1. sent # 0
        <3> SUFFICES ASSUME sent = 0 PROVE InStep
            BY <1>6
        <3> QED
            BY <1>6, EmptySeq DEF InStep
    <2> QED
        BY <1>2, <1>4, <1>6, <2>1
<1>7. CASE ~InStep /\ Len(ucRxBuffer) > sent
    <2>1. sent < 10
        BY <1>1, <1>7
    <2>2. ucRxBuffer' = <<>> \/ Len(ucRxBuffer') > sent + 1
        BY <1>1, <1>3, <1>4, <1>7
    <2> QED
        BY <1>7, <2>1, <2>2
<1>8. OnTheWay
    BY DEF ParserInv, OnTheWay
<1> QED
    BY <1>5, <1>6, <1>7, <1>8 DEF OnTheWay

\* At the start of a frame the buffer is in step if it is empty, out of step if not.
LEMMA StartOfFrame ==
    ASSUME ucRxBuffer' \in Seq(Bytes), sent' = 0
    PROVE  OnTheWay' /\ (ucRxBuffer' = <<>> => InStep')
<1>1. ucRxBuffer' = <<>> \/ Len(ucRxBuffer') > 0
    BY EmptySeq
<1>2. ucRxBuffer' = <<>> => InStep'
    BY EmptySeq DEF InStep
<1> QED
    BY <1>1, <1>2 DEF OnTheWay

LEMMA NextByteTypes ==
    ASSUME LineTypes, NEW c \in Nat, NEW s \in Nat, NextByte(c, s)
    PROVE  LineTypes'
<1>1. CASE sent = 10
    <2>1. report' \in Reports /\ sent' = 0 /\ changed' = 0 /\ shifted' = 0
        BY <1>1 DEF NextByte
    <2>2. before' = [changed |-> c, shifted |-> s, stray |-> HeaderInside(report)]
        BY <1>1 DEF NextByte
    <2>3. HeaderInside(report) \in BOOLEAN
        BY DEF HeaderInside
    <2>4. before' \in [changed : Nat, shifted : Nat, stray : BOOLEAN]
        BY <2>2, <2>3
    <2> QED
        BY <2>1, <2>4 DEF LineTypes
<1>2. CASE sent # 10
    <2>1. sent' = sent + 1 /\ changed' = c /\ shifted' = s /\ report' = report /\ before' = before
        BY <1>2 DEF NextByte
    <2> QED
        BY <1>2, <2>1 DEF LineTypes
<1> QED
    BY <1>1, <1>2

LEMMA PublishedShape ==
    ASSUME published = [t \in Published |-> published[t]], NEW c, CopeSerial2Data(c)
    PROVE  published' = [t \in Published |-> published'[t]]
<1>1. ASSUME NEW b, FrameDone(b) PROVE published' = [t \in Published |-> published'[t]]
    <2>1. \/ published' = published
          \/ published' = [published EXCEPT ![b[2]] = Kept(b)]
        BY <1>1 DEF FrameDone
    <2> QED
        BY <2>1
<1> QED
    BY <1>1 DEF CopeSerial2Data

LEMMA ParserByte ==
    ASSUME ParserInv, NEW c \in Bytes, CopeSerial2Data(c)
    PROVE  /\ published' = [t \in Published |-> published'[t]]
           /\ ucRxBuffer' \in Seq(Bytes) /\ Len(ucRxBuffer') <= 10
BY PublishedShape, ByteStored DEF ParserInv

\* A step that leaves a fault in the frame, or ends a frame that has one.
LEMMA FaultyStep ==
    ASSUME ParserInv, LineTypes',
           published' = [t \in Published |-> published'[t]],
           ucRxBuffer' \in Seq(Bytes), Len(ucRxBuffer') <= 10,
           \/ changed' + shifted' # 0
           \/ sent' = 0 /\ before' # Clean
    PROVE  ParserInv'
<1>1. CASE changed' + shifted' # 0
    <2>1. ~(changed' = 0 /\ shifted' = 0)
        BY <1>1
    <2> QED
        BY <2>1 DEF ParserInv
<1>2. CASE sent' = 0 /\ before' # Clean
    BY <1>2, StartOfFrame DEF ParserInv
<1> QED
    BY <1>1, <1>2

LEMMA ParserByteArrives == ParserInv /\ ByteArrives => ParserInv'
<1> SUFFICES ASSUME ParserInv, ByteArrives PROVE ParserInv'
    OBVIOUS
<1> DEFINE f == Frame(report)[sent + 1]
<1>1. LineTypes /\ changed \in Nat /\ shifted \in Nat /\ sent \in 0 .. 10
    BY DEF ParserInv, LineTypes
<1>2. CopeSerial2Data(f) /\ NextByte(changed, shifted)
    BY DEF ByteArrives
<1>3. f \in Bytes
    <2>1. report \in Reports /\ sent + 1 \in 1 .. 11
        BY <1>1 DEF LineTypes
    <2> QED
        BY <2>1, FrameBytes
<1>4. LineTypes'
    BY <1>1, <1>2, NextByteTypes
<1>5. /\ published' = [t \in Published |-> published'[t]]
      /\ ucRxBuffer' \in Seq(Bytes) /\ Len(ucRxBuffer') <= 10
    BY <1>2, <1>3, ParserByte
<1>6. CASE sent = 10
    <2>1. /\ sent' = 0
          /\ before' = [changed |-> changed, shifted |-> shifted, stray |-> HeaderInside(report)]
        BY <1>2, <1>6 DEF NextByte
    <2>2. ASSUME before' = Clean PROVE InStep'
        <3>1. changed = 0 /\ shifted = 0 /\ HeaderInside(report) = FALSE
            BY <2>1, <2>2 DEF Clean
        <3>2. ucRxBuffer' = <<>>
            BY <1>2, <1>6, <3>1, CleanByte
        <3> QED
            BY <1>5, <2>1, <3>2, StartOfFrame
    <2> QED
        BY <1>4, <1>5, <2>1, <2>2, StartOfFrame DEF ParserInv
<1>7. CASE sent # 10
    <2>1. /\ sent' = sent + 1 /\ changed' = changed /\ shifted' = shifted
          /\ report' = report /\ before' = before
        BY <1>2, <1>7 DEF NextByte
    <2>2. ASSUME changed = 0, shifted = 0
          PROVE  (~HeaderInside(report) => OnTheWay') /\ (before = Clean => InStep')
        <3>1. sent < 10
            BY <1>1, <1>7
        <3>2. InStepNext <=> InStep'
            BY <2>1 DEF InStep, InStepNext
        <3>3. /\ ~HeaderInside(report) =>
                    ucRxBuffer' = <<>> \/ Len(ucRxBuffer') > sent + 1 \/ InStepNext
              /\ InStep => InStepNext
            BY <1>2, <2>2, <3>1, CleanByte
        <3>4. before = Clean => InStep
            BY <2>2 DEF ParserInv
        <3> QED
            BY <2>1, <3>2, <3>3, <3>4 DEF OnTheWay
    <2>3. HeaderInside(report)' = HeaderInside(report)
        BY <2>1 DEF HeaderInside
    <2> QED
        BY <1>4, <1>5, <2>1, <2>2, <2>3 DEF ParserInv
<1> QED
    BY <1>6, <1>7

LEMMA ParserFaults ==
    ASSUME ParserInv, ByteChanged \/ ByteLost \/ ByteAdded
    PROVE  ParserInv'
<1>1. LineTypes /\ changed \in Nat /\ shifted \in Nat /\ sent \in 0 .. 10
    BY DEF ParserInv, LineTypes
<1>2. CASE ByteChanged
    <2>1. PICK c \in Bytes : CopeSerial2Data(c)
        BY <1>2, ImuAssumption DEF ByteChanged
    <2>2. NextByte(changed + 1, shifted)
        BY <1>2 DEF ByteChanged
    <2>3. LineTypes'
        BY <1>1, <2>2, NextByteTypes
    <2>4. changed' + shifted' # 0 \/ (sent' = 0 /\ before' # Clean)
        <3>1. CASE sent = 10
            BY <1>1, <2>2, <3>1 DEF NextByte, Clean
        <3>2. CASE sent # 10
            BY <1>1, <2>2, <3>2 DEF NextByte
        <3> QED
            BY <3>1, <3>2
    <2> QED
        BY <2>1, <2>3, <2>4, ParserByte, FaultyStep
<1>3. CASE ByteLost
    <2>1. NextByte(changed, shifted + 1)
        BY <1>3 DEF ByteLost
    <2>2. LineTypes'
        BY <1>1, <2>1, NextByteTypes
    <2>3. changed' + shifted' # 0 \/ (sent' = 0 /\ before' # Clean)
        <3>1. CASE sent = 10
            BY <1>1, <2>1, <3>1 DEF NextByte, Clean
        <3>2. CASE sent # 10
            BY <1>1, <2>1, <3>2 DEF NextByte
        <3> QED
            BY <3>1, <3>2
    <2>4. /\ published' = [t \in Published |-> published'[t]]
          /\ ucRxBuffer' \in Seq(Bytes) /\ Len(ucRxBuffer') <= 10
        BY <1>3 DEF ByteLost, imuParser, ParserInv
    <2> QED
        BY <2>2, <2>3, <2>4, FaultyStep
<1>4. CASE ByteAdded
    <2>1. PICK c \in Bytes : CopeSerial2Data(c)
        BY <1>4, ImuAssumption DEF ByteAdded
    <2>2. /\ shifted' = shifted + 1
          /\ report' = report /\ sent' = sent /\ changed' = changed /\ before' = before
        BY <1>4 DEF ByteAdded
    <2>3. LineTypes'
        BY <1>1, <2>2 DEF LineTypes
    <2>4. changed' + shifted' # 0
        BY <1>1, <2>2
    <2> QED
        BY <2>1, <2>3, <2>4, ParserByte, FaultyStep
<1> QED
    BY <1>2, <1>3, <1>4

LEMMA ParserStep == ParserInv /\ [ImuNext]_imuVars => ParserInv'
<1> SUFFICES ASSUME ParserInv, [ImuNext]_imuVars PROVE ParserInv'
    OBVIOUS
<1>1. CASE UartInterrupt
    BY <1>1, ParserByteArrives, ParserFaults DEF UartInterrupt
<1>2. CASE UNCHANGED <<imuParser, imuLine>>
    BY <1>2 DEF imuParser, imuLine, ParserInv, LineTypes, OnTheWay, InStep, HeaderInside
<1>3. CASE Stable30_Update_Gyro
    BY <1>2, <1>3 DEF Stable30_Update_Gyro, ReadUpdateCount, ReadRate
<1>4. CASE UNCHANGED imuVars
    BY <1>2, <1>4 DEF imuVars
<1> QED
    BY <1>1, <1>3, <1>4 DEF ImuNext

LEMMA ParserInit == ImuInit => ParserInv
<1> SUFFICES ASSUME ImuInit PROVE ParserInv
    OBVIOUS
<1>1. ucRxBuffer = <<>> /\ sent = 0 /\ changed = 0 /\ shifted = 0 /\ before = Clean
      /\ report \in Reports
    BY DEF ImuInit
<1>2. LineTypes
    BY <1>1 DEF LineTypes, Clean
<1>3. published = [t \in Published |-> published[t]]
    BY DEF ImuInit, Published
<1>4. ucRxBuffer \in Seq(Bytes) /\ Len(ucRxBuffer) = 0
    BY <1>1, EmptySeq
<1>5. InStep
    BY <1>1, <1>4 DEF InStep
<1> QED
    BY <1>2, <1>3, <1>4, <1>5 DEF ParserInv, OnTheWay

\* The last byte of an unbroken frame behind an unbroken one completes it in the buffer.
LEMMA LastCleanByte ==
    ASSUME ParserInv, ByteArrives, sent = 10, changed = 0, shifted = 0,
           before = Clean, report.type # REGISTER
    PROVE  published'[report.type] = Kept(Frame(report))
<1> DEFINE f == Frame(report)
<1>1. /\ report \in Reports
      /\ ucRxBuffer \in Seq(Bytes) /\ Len(ucRxBuffer) = 10
      /\ \A i \in 1 .. 10 : ucRxBuffer[i] = f[i]
    BY DEF ParserInv, LineTypes, InStep
<1>2. f \in Seq(Bytes) /\ Len(f) = 11 /\ f[11] \in Bytes /\ f[1] = Header /\ f[2] = report.type
    BY <1>1, FrameBytes
<1>3. Sum(f) = f[11]
    BY <1>1, FrameBytes
<1> HIDE DEF f
<1>4. With(f[11]) = f
    <2> DEFINE e == f[11]
    <2>1. e \in Bytes
        BY <1>2
    <2> HIDE DEF e
    <2>2. /\ With(e) \in Seq(Bytes) /\ Len(With(e)) = 11
          /\ \A i \in 1 .. 10 : With(e)[i] = ucRxBuffer[i]
          /\ With(e)[11] = e
        <3>1. /\ With(e) \in Seq(Bytes) /\ Len(With(e)) = Len(ucRxBuffer) + 1
              /\ \A i \in 1 .. Len(ucRxBuffer) : With(e)[i] = ucRxBuffer[i]
              /\ With(e)[Len(ucRxBuffer) + 1] = e
            <4>1. ucRxBuffer \in Seq(Bytes)
                BY <1>1
            <4> QED
                BY <2>1, <4>1, AppendProperties DEF With
        <3>2. Len(ucRxBuffer) = 10 /\ Len(ucRxBuffer) + 1 = 11
            BY <1>1
        <3> QED
            BY <3>1, <3>2, Zenon
    <2>3. \A i \in 1 .. Len(With(e)) : With(e)[i] = f[i]
        <3> SUFFICES ASSUME NEW i \in 1 .. 11 PROVE With(e)[i] = f[i]
            BY <2>2
        <3>1. i \in 1 .. 10 \/ i = 11
            OBVIOUS
        <3> QED
            BY <1>1, <2>2, <3>1 DEF e
    <2>4. With(e) = f
        BY <1>2, <2>2, <2>3, SeqEqual
    <2> QED
        BY <2>4 DEF e
<1>5. CopeSerial2Data(f[11])
    BY DEF ByteArrives, f
<1>6. Append(ucRxBuffer, f[11]) = f
    BY <1>4 DEF With
<1>7. report.type \in Published
    <2>1. report.type \in Types
        BY <1>1, ImuAssumption
    <2> QED
        BY <2>1 DEF Published
<1>8. f[2] \in DOMAIN published
    BY <1>2, <1>7 DEF ParserInv
<1>9. published' = [published EXCEPT ![report.type] = Kept(f)]
    BY <1>2, <1>3, <1>5, <1>6, <1>8 DEF CopeSerial2Data, FrameDone
<1> QED
    BY <1>2, <1>7, <1>8, <1>9 DEF f

\* After any mixture of lost, added and changed bytes one whole frame without a header
\* byte inside brings the parser of the IMU in step: the whole frame behind it is
\* published, whatever that holds.  For all reports, all noise and any number of faults.
THEOREM CleanReportAlwaysPublished == ImuSpec => CleanReportPublished
<1>1. ParserInv /\ [ImuNext]_imuVars =>
        [LastByte /\ before = Clean /\ ChangedByNow = 0 /\ ShiftedByNow = 0
                /\ report.type # REGISTER =>
              published'[report.type] = Kept(Frame(report))]_imuVars
    <2> SUFFICES ASSUME ParserInv, ImuNext, LastByte, before = Clean,
                        before'.changed = 0, before'.shifted = 0, report.type # REGISTER
                 PROVE  published'[report.type] = Kept(Frame(report))
        BY DEF imuVars, ChangedByNow, ShiftedByNow
    <2>1. sent = 10 /\ sent' = 0 /\ changed \in Nat /\ shifted \in Nat
        BY DEF LastByte, ParserInv, LineTypes
    <2>2. UartInterrupt
        BY <2>1 DEF ImuNext, Stable30_Update_Gyro, ReadUpdateCount, ReadRate, imuLine
    <2>3. ~ByteAdded
        BY <2>1 DEF ByteAdded
    <2>4. ~ByteLost /\ ~ByteChanged
        BY <2>1 DEF ByteLost, ByteChanged, NextByte
    <2>5. ByteArrives
        BY <2>2, <2>3, <2>4 DEF UartInterrupt
    <2>6. changed = 0 /\ shifted = 0
        BY <2>1, <2>5 DEF ByteArrives, NextByte
    <2> QED
        BY <2>1, <2>5, <2>6, LastCleanByte
<1> QED
    BY <1>1, ParserInit, ParserStep, PTL DEF ImuSpec, CleanReportPublished

--------------------------------------------------------------------------------
\* A frame with one changed byte.

\* The first byte was changed, and what is buffered began behind it, at a header byte
\* inside; or the buffer holds the front of the frame but for one byte behind the header.
OneWrong ==
    \/ /\ Len(ucRxBuffer) < sent
       /\ HeaderInside(report) \/ ucRxBuffer = <<>>
    \/ /\ Len(ucRxBuffer) = sent
       /\ ucRxBuffer[1] = Header
       /\ \E k \in 2 .. sent :
             /\ ucRxBuffer[k] # Frame(report)[k]
             /\ \A i \in 1 .. sent : i # k => ucRxBuffer[i] = Frame(report)[i]

ChangedInv == before = Clean /\ shifted = 0 /\ changed = 1 => OneWrong

\* Two bytes differ by less than 256.
LEMMA ResiduesDiffer ==
    ASSUME NEW x \in Int, NEW y \in Int, x # y, x - y < 256, y - x < 256
    PROVE  x % 256 # y % 256
BY Z3

LEMMA SumOfOneWrong ==
    ASSUME NEW b, NEW c, NEW k \in 1 .. 10,
           \A i \in 1 .. 10 : b[i] \in Bytes /\ c[i] \in Bytes,
           b[k] # c[k], \A i \in 1 .. 10 : i # k => b[i] = c[i]
    PROVE  Sum(b) # Sum(c)
<1> DEFINE T(s) == s[1] + s[2] + s[3] + s[4] + s[5] + s[6] + s[7] + s[8] + s[9] + s[10]
<1>1. /\ b[1] \in Int /\ b[2] \in Int /\ b[3] \in Int /\ b[4] \in Int /\ b[5] \in Int
      /\ b[6] \in Int /\ b[7] \in Int /\ b[8] \in Int /\ b[9] \in Int /\ b[10] \in Int
      /\ c[1] \in Int /\ c[2] \in Int /\ c[3] \in Int /\ c[4] \in Int /\ c[5] \in Int
      /\ c[6] \in Int /\ c[7] \in Int /\ c[8] \in Int /\ c[9] \in Int /\ c[10] \in Int
    <2>0. \A x \in Bytes : x \in Int
        BY DEF Bytes
    <2>1. \A i \in 1 .. 10 : b[i] \in Int /\ c[i] \in Int
        BY <2>0, Zenon
    <2> QED
        BY <2>1
<1>2. /\ k # 1 => b[1] = c[1]
      /\ k # 2 => b[2] = c[2]
      /\ k # 3 => b[3] = c[3]
      /\ k # 4 => b[4] = c[4]
      /\ k # 5 => b[5] = c[5]
      /\ k # 6 => b[6] = c[6]
      /\ k # 7 => b[7] = c[7]
      /\ k # 8 => b[8] = c[8]
      /\ k # 9 => b[9] = c[9]
      /\ k # 10 => b[10] = c[10]
    OBVIOUS
<1>3. T(b) \in Int /\ T(c) \in Int
    BY <1>1
<1>4. T(b) - T(c) = b[k] - c[k]
    BY <1>1, <1>2
<1>5. b[k] \in 0 .. 255 /\ c[k] \in 0 .. 255
    BY DEF Bytes
<1> DEFINE x == T(b)
           y == T(c)
           p == b[k]
           q == c[k]
<1>6. /\ x \in Int /\ y \in Int /\ x - y = p - q
      /\ p \in 0 .. 255 /\ q \in 0 .. 255 /\ p # q
    BY <1>3, <1>4, <1>5
<1> HIDE DEF T, x, y, p, q
<1>7. x # y /\ x - y < 256 /\ y - x < 256
    BY <1>6
<1>8. x % 256 # y % 256
    BY <1>6, <1>7, ResiduesDiffer
<1> QED
    BY <1>8 DEF Sum, T, x, y

\* What the buffer is with the next byte.
LEMMA WithFact ==
    ASSUME ucRxBuffer \in Seq(Bytes), NEW c \in Bytes
    PROVE  /\ Len(ucRxBuffer) \in Nat
           /\ With(c) \in Seq(Bytes)
           /\ Len(With(c)) = Len(ucRxBuffer) + 1
           /\ \A i \in 1 .. Len(ucRxBuffer) : With(c)[i] = ucRxBuffer[i]
           /\ With(c)[Len(ucRxBuffer) + 1] = c
BY AppendProperties, LenProperties DEF With

\* Only a byte that completes a frame with the right sum publishes it.
LEMMA PublishingByte ==
    ASSUME NEW c, CopeSerial2Data(c), published' # published
    PROVE  /\ ~(Len(With(c)) < 11) /\ With(c)[1] = Header
           /\ Sum(With(c)) = With(c)[11]
           /\ With(c)[2] \in DOMAIN published
           /\ published' = [published EXCEPT ![With(c)[2]] = Kept(With(c))]
BY DEF CopeSerial2Data, FrameDone, With

\* A byte behind an unbroken front of the frame: the right one continues it, a wrong
\* one leaves the buffer empty or with one wrong byte.
LEMMA WrongByte ==
    ASSUME ParserInv, InStep, sent < 10, NEW c \in Bytes, c # Frame(report)[sent + 1],
           CopeSerial2Data(c), sent' = sent + 1, report' = report
    PROVE  OneWrong'
<1>1. /\ report \in Reports /\ sent \in 0 .. 10
      /\ ucRxBuffer \in Seq(Bytes) /\ Len(ucRxBuffer) = sent
      /\ \A i \in 1 .. sent : ucRxBuffer[i] = Frame(report)[i]
    BY DEF ParserInv, LineTypes, InStep
<1>2. /\ With(c) \in Seq(Bytes) /\ Len(With(c)) = sent + 1
      /\ \A i \in 1 .. sent : With(c)[i] = Frame(report)[i]
      /\ With(c)[sent + 1] = c
    BY <1>1, WithFact
<1>3. Frame(report)[1] = Header
    BY <1>1, FrameBytes
<1>4. /\ ucRxBuffer = <<>> /\ c # Header => ucRxBuffer' = <<>>
      /\ With(c)[1] = Header /\ Len(With(c)) < 11 => ucRxBuffer' = With(c)
    BY <1>1, ByteStored
<1>5. CASE sent = 0
    <2>1. c # Header /\ ucRxBuffer = <<>>
        BY <1>1, <1>3, <1>5, EmptySeq
    <2> QED
        BY <1>4, <1>5, <2>1, EmptySeq DEF OneWrong
<1>6. CASE sent # 0
    <2>1. 1 \in 1 .. sent
        BY <1>1, <1>6
    <2>2. With(c)[1] = Header
        BY <1>2, <1>3, <2>1
    <2>3. ucRxBuffer' = With(c)
        BY <1>1, <1>2, <1>4, <2>2
    <2> DEFINE k == sent + 1
    <2>4. k \in 2 .. sent' /\ With(c)[k] # Frame(report)[k]
        BY <1>1, <1>2, <1>6
    <2>5. \A i \in 1 .. sent' : i # k => With(c)[i] = Frame(report)[i]
        BY <1>1, <1>2
    <2>6. Len(With(c)) = sent'
        BY <1>2
    <2> HIDE DEF k
    <2> QED
        BY <2>2, <2>3, <2>4, <2>5, <2>6 DEF OneWrong
<1> QED
    BY <1>5, <1>6

\* The right bytes behind the wrong one do not mend the frame.
LEMMA WrongStays ==
    ASSUME ParserInv, OneWrong, sent < 10,
           CopeSerial2Data(Frame(report)[sent + 1]), sent' = sent + 1, report' = report
    PROVE  OneWrong'
<1> DEFINE c == Frame(report)[sent + 1]
<1>1. report \in Reports /\ sent \in 0 .. 10 /\ ucRxBuffer \in Seq(Bytes)
      /\ Len(ucRxBuffer) <= 10
    BY DEF ParserInv, LineTypes
<1>2. c \in Bytes
    BY <1>1, FrameBytes
<1>3. sent >= 1 /\ ~HeaderInside(report) => c # Header
    <2>1. sent >= 1 => sent + 1 \in 2 .. 11
        BY <1>1
    <2> QED
        BY <2>1 DEF HeaderInside
<1>7. HeaderInside(report)' = HeaderInside(report)
    BY DEF HeaderInside
<1> HIDE DEF c
<1>4. /\ ucRxBuffer = <<>> /\ c # Header => ucRxBuffer' = <<>>
      /\ With(c)[1] = Header /\ Len(With(c)) < 11 => ucRxBuffer' = With(c)
    BY <1>1, <1>2, ByteStored DEF c
<1>5. CASE Len(ucRxBuffer) < sent /\ (HeaderInside(report) \/ ucRxBuffer = <<>>)
    <2>1. Len(ucRxBuffer) \in Nat /\ Len(With(c)) = Len(ucRxBuffer) + 1
        BY <1>1, <1>2, WithFact
    <2>2. ucRxBuffer' = <<>> \/ ucRxBuffer' = With(c)
        BY <1>1, <1>2, ByteStored DEF c
    <2>3. Len(ucRxBuffer') < sent'
        BY <1>1, <1>5, <2>1, <2>2, EmptySeq
    <2>4. ~HeaderInside(report) => ucRxBuffer' = <<>>
        BY <1>1, <1>3, <1>4, <1>5, <2>1
    <2> QED
        BY <1>7, <2>3, <2>4 DEF OneWrong
<1>6. ASSUME Len(ucRxBuffer) = sent, ucRxBuffer[1] = Header, NEW k \in 2 .. sent,
             ucRxBuffer[k] # Frame(report)[k],
             \A i \in 1 .. sent : i # k => ucRxBuffer[i] = Frame(report)[i]
      PROVE  OneWrong'
    <2>1. /\ Len(With(c)) = sent + 1
          /\ \A i \in 1 .. sent : With(c)[i] = ucRxBuffer[i]
          /\ With(c)[sent + 1] = c
        BY <1>1, <1>2, <1>6, WithFact
    <2>2. k \in 1 .. sent /\ 1 \in 1 .. sent /\ k \in 2 .. sent'
        BY <1>1, <1>6
    <2>3. With(c)[1] = Header /\ With(c)[k] # Frame(report)[k]
        BY <1>6, <2>1, <2>2
    <2>4. ucRxBuffer' = With(c)
        BY <1>1, <1>4, <2>1, <2>3
    <2>5. ASSUME NEW i \in 1 .. sent', i # k PROVE With(c)[i] = Frame(report)[i]
        <3>1. i \in 1 .. sent \/ i = sent + 1
            BY <1>1
        <3> QED
            BY <1>6, <2>1, <2>5, <3>1 DEF c
    <2> QED
        BY <2>1, <2>2, <2>3, <2>4, <2>5 DEF OneWrong
<1> QED
    BY <1>5, <1>6 DEF OneWrong

LEMMA ChangedStep == ParserInv /\ ChangedInv /\ [ImuNext]_imuVars => ChangedInv'
<1> SUFFICES ASSUME ParserInv, ChangedInv, [ImuNext]_imuVars,
                    before' = Clean, shifted' = 0, changed' = 1
             PROVE  OneWrong'
    BY DEF ChangedInv, Clean
<1>0. report \in Reports /\ sent \in 0 .. 10 /\ changed \in Nat /\ shifted \in Nat
    BY DEF ParserInv, LineTypes
<1>1. CASE UNCHANGED <<ucRxBuffer, imuLine>>
    BY <1>1 DEF imuLine, ChangedInv, OneWrong, HeaderInside
<1>2. CASE ByteArrives
    <2>1. CopeSerial2Data(Frame(report)[sent + 1]) /\ NextByte(changed, shifted)
        BY <1>2 DEF ByteArrives
    <2>2. sent # 10
        BY <2>1 DEF NextByte
    <2>3. /\ sent' = sent + 1 /\ report' = report
          /\ changed = 1 /\ shifted = 0 /\ before = Clean
        BY <2>1, <2>2 DEF NextByte
    <2>4. sent < 10
        BY <1>0, <2>2
    <2> QED
        BY <2>1, <2>3, <2>4, WrongStays DEF ChangedInv
<1>3. CASE ByteChanged
    <2>1. NextByte(changed + 1, shifted)
        BY <1>3 DEF ByteChanged
    <2>2. PICK c \in Bytes : c # Frame(report)[sent + 1] /\ CopeSerial2Data(c)
        BY <1>3, ImuAssumption DEF ByteChanged
    <2>3. sent # 10
        BY <2>1 DEF NextByte
    <2>4. /\ sent' = sent + 1 /\ report' = report
          /\ changed + 1 = 1 /\ shifted = 0 /\ before = Clean
        BY <2>1, <2>3 DEF NextByte
    <2>5. sent < 10 /\ changed = 0
        BY <1>0, <2>3, <2>4
    <2>6. InStep
        BY <2>4, <2>5 DEF ParserInv
    <2> QED
        BY <2>2, <2>4, <2>5, <2>6, WrongByte
<1>4. CASE ByteLost
    <2>1. NextByte(changed, shifted + 1)
        BY <1>4 DEF ByteLost
    <2>2. CASE sent = 10
        BY <2>1, <2>2 DEF NextByte
    <2>3. CASE sent # 10
        BY <1>0, <2>1, <2>3 DEF NextByte
    <2> QED
        BY <2>2, <2>3
<1>5. CASE ByteAdded
    BY <1>0, <1>5 DEF ByteAdded
<1>6. CASE Stable30_Update_Gyro
    BY <1>1, <1>6 DEF Stable30_Update_Gyro, ReadUpdateCount, ReadRate, imuParser
<1>7. CASE UNCHANGED imuVars
    BY <1>1, <1>7 DEF imuVars, imuParser
<1> QED
    BY <1>2, <1>3, <1>4, <1>5, <1>6, <1>7 DEF ImuNext, UartInterrupt

\* The right byte publishes behind an unbroken front only, and then the report.
LEMMA RightBytePublishes ==
    ASSUME ParserInv, ChangedInv, ByteArrives, published' # published,
           before = Clean, shifted = 0, ChangedByNow <= 1
    PROVE  /\ LastByte /\ ChangedByNow = 0
           /\ published' = [published EXCEPT ![report.type] = Kept(Frame(report))]
<1> DEFINE c == Frame(report)[sent + 1]
<1>0. /\ report \in Reports /\ sent \in 0 .. 10 /\ changed \in Nat
      /\ ucRxBuffer \in Seq(Bytes)
    BY DEF ParserInv, LineTypes
<1>1. CopeSerial2Data(c) /\ NextByte(changed, 0)
    BY DEF ByteArrives
<1>2. c \in Bytes
    BY <1>0, FrameBytes
<1>3. /\ ~(Len(With(c)) < 11) /\ With(c)[1] = Header
      /\ Sum(With(c)) = With(c)[11]
      /\ published' = [published EXCEPT ![With(c)[2]] = Kept(With(c))]
    BY <1>1, PublishingByte
<1>4. /\ Len(With(c)) = Len(ucRxBuffer) + 1
      /\ \A i \in 1 .. Len(ucRxBuffer) : With(c)[i] = ucRxBuffer[i]
      /\ With(c)[Len(ucRxBuffer) + 1] = c
    BY <1>0, <1>2, WithFact
<1> HIDE DEF c
<1>5. Len(ucRxBuffer) = 10
    <2> DEFINE n == Len(ucRxBuffer)
               m == Len(With(c))
    <2>1. n \in Nat /\ n <= 10 /\ m = n + 1 /\ ~(m < 11)
        BY <1>0, <1>3, <1>4, LenProperties DEF ParserInv
    <2> HIDE DEF n, m
    <2>2. n = 10
        BY <2>1
    <2> QED
        BY <2>2 DEF n
<1>6. changed = 0 \/ changed = 1
    <2>1. sent = 10 => before'.changed = changed /\ sent' = 0
        BY <1>0, <1>1 DEF NextByte
    <2>2. sent # 10 => changed' = changed /\ sent' # 0
        BY <1>0, <1>1 DEF NextByte
    <2> QED
        BY <1>0, <2>1, <2>2 DEF ChangedByNow, LastByte
<1>7. sent = 10
    <2>1. CASE changed = 0
        BY <1>5, <2>1 DEF ParserInv, InStep
    <2>2. CASE changed = 1
        BY <1>0, <1>5, <2>2 DEF ChangedInv, OneWrong
    <2> QED
        BY <1>6, <2>1, <2>2
<1>8. With(c)[11] = c /\ \A i \in 1 .. 10 : With(c)[i] = ucRxBuffer[i]
    BY <1>4, <1>5
<1>9. changed = 0
    <2> SUFFICES ASSUME changed = 1 PROVE FALSE
        BY <1>6
    <2>1. PICK k \in 2 .. 10 :
             /\ ucRxBuffer[k] # Frame(report)[k]
             /\ \A i \in 1 .. 10 : i # k => ucRxBuffer[i] = Frame(report)[i]
        BY <1>5, <1>7 DEF ChangedInv, OneWrong
    <2>2. k \in 1 .. 10 /\ With(c)[k] # Frame(report)[k]
          /\ \A i \in 1 .. 10 : i # k => With(c)[i] = Frame(report)[i]
        BY <1>8, <2>1
    <2>3. \A i \in 1 .. 10 : With(c)[i] \in Bytes /\ Frame(report)[i] \in Bytes
        <3> TAKE i \in 1 .. 10
        <3>1. With(c) \in Seq(Bytes) /\ Len(With(c)) = 11
            BY <1>0, <1>2, <1>4, <1>5, WithFact
        <3>2. With(c)[i] \in Bytes
            <4>1. i \in 1 .. Len(With(c))
                BY <3>1
            <4> QED
                BY <3>1, <4>1, ElementOfSeq, Zenon
        <3>3. Frame(report)[i] \in Bytes
            BY <1>0, FrameBytes
        <3> QED
            BY <3>2, <3>3
    <2>4. Sum(With(c)) # Sum(Frame(report))
        BY <2>2, <2>3, SumOfOneWrong
    <2>5. Sum(Frame(report)) = Frame(report)[11]
        BY <1>0, FrameBytes
    <2> QED
        BY <1>3, <1>7, <1>8, <2>4, <2>5 DEF c
<1>10. sent' = 0 /\ before'.changed = 0
    BY <1>1, <1>7, <1>9 DEF NextByte
<1>11. With(c) = Frame(report)
    <2>1. Len(Frame(report)) = 11 /\ Frame(report) \in Seq(Bytes)
        BY <1>0, FrameBytes
    <2>2. With(c) \in Seq(Bytes) /\ Len(With(c)) = 11
        BY <1>0, <1>2, <1>4, <1>5, WithFact
    <2>3. \A i \in 1 .. 10 : With(c)[i] = Frame(report)[i]
        BY <1>7, <1>8, <1>9 DEF ParserInv, InStep
    <2>4. With(c)[11] = Frame(report)[11]
        BY <1>7, <1>8 DEF c
    <2>5. \A i \in 1 .. Len(With(c)) : With(c)[i] = Frame(report)[i]
        BY <2>2, <2>3, <2>4
    <2> QED
        BY <2>1, <2>2, <2>5, SeqEqual
<1>12. Frame(report)[2] = report.type
    BY <1>0, FrameBytes
<1> QED
    BY <1>3, <1>7, <1>10, <1>11, <1>12 DEF LastByte, ChangedByNow

\* A wrong byte never publishes: in the middle of the frame it is too early, at its end
\* the sum is wrong.
LEMMA ChangedByteSilent ==
    ASSUME ParserInv, ByteChanged, before = Clean, shifted = 0, ChangedByNow <= 1
    PROVE  published' = published /\ changed = 0
<1>0. /\ report \in Reports /\ sent \in 0 .. 10 /\ changed \in Nat
      /\ ucRxBuffer \in Seq(Bytes)
    BY DEF ParserInv, LineTypes
<1>1. NextByte(changed + 1, 0)
    BY DEF ByteChanged
<1>2. PICK c \in Bytes : c # Frame(report)[sent + 1] /\ CopeSerial2Data(c)
    BY ImuAssumption DEF ByteChanged
<1>3. changed = 0
    <2>1. sent = 10 => before'.changed = changed + 1 /\ sent' = 0
        BY <1>0, <1>1 DEF NextByte
    <2>2. sent # 10 => changed' = changed + 1 /\ sent' # 0
        BY <1>0, <1>1 DEF NextByte
    <2> QED
        BY <1>0, <2>1, <2>2 DEF ChangedByNow, LastByte
<1>4. Len(ucRxBuffer) = sent /\ \A i \in 1 .. sent : ucRxBuffer[i] = Frame(report)[i]
    BY <1>3 DEF ParserInv, InStep
<1>5. SUFFICES ASSUME published' # published PROVE FALSE
    BY <1>3
<1>6. ~(Len(With(c)) < 11) /\ Sum(With(c)) = With(c)[11]
    BY <1>2, <1>5, PublishingByte
<1>7. /\ Len(With(c)) = sent + 1
      /\ \A i \in 1 .. sent : With(c)[i] = Frame(report)[i]
      /\ With(c)[sent + 1] = c
    BY <1>0, <1>4, WithFact
<1>8. sent = 10
    BY <1>0, <1>6, <1>7
<1>9. Sum(With(c)) = Frame(report)[11]
    BY <1>0, <1>7, <1>8, FrameBytes
<1>10. With(c)[11] = c /\ c # Frame(report)[11]
    <2>1. sent + 1 = 11
        BY <1>8
    <2> QED
        BY <1>2, <1>7, <2>1
<1> QED
    BY <1>6, <1>9, <1>10

\* Behind a frame of which at most one byte was changed the buffer is empty, if the frame
\* does not hold the header byte inside or no byte was changed.
LEMMA StaysInStep ==
    ASSUME ParserInv, ChangedInv, ByteArrives \/ ByteChanged, LastByte, before = Clean,
           shifted = 0, ChangedByNow <= 1, ChangedByNow = 0 \/ ~HeaderInside(report)
    PROVE  ucRxBuffer' = <<>>
<1>0. /\ report \in Reports /\ sent = 10 /\ sent' = 0 /\ changed \in Nat
      /\ ucRxBuffer \in Seq(Bytes) /\ Len(ucRxBuffer) <= 10
    BY DEF ParserInv, LineTypes, LastByte
<1>1. PICK c \in Bytes : CopeSerial2Data(c) /\ (ByteArrives => c = Frame(report)[11])
    <2>1. CASE ByteArrives
        <3>1. CopeSerial2Data(Frame(report)[11])
            BY <1>0, <2>1 DEF ByteArrives
        <3>2. Frame(report)[11] \in Bytes
            BY <1>0, FrameBytes
        <3> QED
            BY <3>1, <3>2
    <2>2. CASE ByteChanged /\ ~ByteArrives
        BY <2>2, ImuAssumption DEF ByteChanged
    <2> QED
        BY <2>1, <2>2
<1>2. CASE changed = 0
    <2>1. Len(ucRxBuffer) = 10
        BY <1>0, <1>2 DEF ParserInv, InStep
    <2> QED
        BY <1>0, <1>1, <2>1, ByteStored
<1>3. CASE changed # 0
    <2>1. ~ByteChanged
        BY <1>3, ChangedByteSilent
    <2>2. ByteArrives
        BY <2>1
    <2>3. changed = 1 /\ ChangedByNow = 1
        <3>1. before'.changed = changed
            BY <1>0, <2>2 DEF ByteArrives, NextByte
        <3> QED
            BY <1>0, <1>3, <3>1 DEF ChangedByNow
    <2>4. ~HeaderInside(report) /\ c # Header
        <3>1. ~HeaderInside(report)
            BY <2>3
        <3>2. 11 \in 2 .. 11
            OBVIOUS
        <3> QED
            BY <1>1, <2>2, <3>1, <3>2, Zenon DEF HeaderInside
    <2>5. ucRxBuffer = <<>> \/ Len(ucRxBuffer) = 10
        BY <1>0, <2>3, <2>4 DEF ChangedInv, OneWrong
    <2> QED
        BY <1>0, <1>1, <2>4, <2>5, ByteStored
<1> QED
    BY <1>2, <1>3

\* One changed byte in a frame behind a clean one: CopeSerial2Data publishes nothing of
\* it, since the header, the sum or the length stops it; and it is in step with the next
\* frame, unless this one holds a header byte inside.  For all reports and all values of
\* the changed byte.
THEOREM ChangedReportAlwaysDropped == ImuSpec => ChangedReportDropped
<1>1. ParserInv /\ ChangedInv /\ [ImuNext]_imuVars =>
        [before = Clean /\ ShiftedByNow = 0 /\ ChangedByNow <= 1 =>
              /\ published' # published =>
                    /\ LastByte /\ ChangedByNow = 0
                    /\ published' = [published EXCEPT ![report.type] = Kept(Frame(report))]
              /\ LastByte /\ (ChangedByNow = 0 \/ ~HeaderInside(report)) =>
                    ucRxBuffer' = <<>>]_imuVars
    <2> SUFFICES ASSUME ParserInv, ChangedInv, ImuNext, before = Clean,
                        ShiftedByNow = 0, ChangedByNow <= 1
                 PROVE  /\ published' # published =>
                              /\ LastByte /\ ChangedByNow = 0
                              /\ published' = [published EXCEPT
                                                  ![report.type] = Kept(Frame(report))]
                        /\ LastByte /\ (ChangedByNow = 0 \/ ~HeaderInside(report)) =>
                              ucRxBuffer' = <<>>
        BY DEF imuVars
    <2>0. sent \in 0 .. 10 /\ shifted \in Nat
        BY DEF ParserInv, LineTypes
    <2>1. CASE Stable30_Update_Gyro
        <3>1. published' = published /\ sent' = sent
            BY <2>1 DEF Stable30_Update_Gyro, ReadUpdateCount, ReadRate, imuParser, imuLine
        <3>2. ~LastByte
            BY <3>1 DEF LastByte
        <3> QED
            BY <3>1, <3>2
    <2>2. CASE ByteAdded
        <3>1. sent' = sent /\ shifted' = shifted + 1
            BY <2>2 DEF ByteAdded
        <3>2. ~LastByte
            BY <3>1 DEF LastByte
        <3> QED
            BY <2>0, <3>1, <3>2 DEF ShiftedByNow
    <2>3. CASE ByteLost
        <3>1. NextByte(changed, shifted + 1)
            BY <2>3 DEF ByteLost
        <3>2. sent = 10 => before'.shifted = shifted + 1
            BY <3>1 DEF NextByte
        <3>3. sent # 10 => shifted' = shifted + 1 /\ ~LastByte
            BY <3>1 DEF NextByte, LastByte
        <3>4. sent = 10 => LastByte
            BY <3>1 DEF NextByte, LastByte
        <3> QED
            BY <2>0, <3>2, <3>3, <3>4 DEF ShiftedByNow
    <2>4. CASE ByteArrives \/ ByteChanged
        <3>1. shifted = 0
            <4>1. sent = 10 => before'.shifted = shifted /\ LastByte
                BY <2>4 DEF ByteArrives, ByteChanged, NextByte, LastByte
            <4>2. sent # 10 => shifted' = shifted /\ ~LastByte
                BY <2>4 DEF ByteArrives, ByteChanged, NextByte, LastByte
            <4> QED
                BY <4>1, <4>2 DEF ShiftedByNow
        <3> QED
            BY <2>4, <3>1, RightBytePublishes, ChangedByteSilent, StaysInStep
    <2> QED
        BY <2>1, <2>2, <2>3, <2>4 DEF ImuNext, UartInterrupt
<1>2. ImuInit => ChangedInv
    BY DEF ImuInit, ChangedInv
<1> QED
    BY <1>1, <1>2, ParserInit, ParserStep, ChangedStep, PTL DEF ImuSpec, ChangedReportDropped

--------------------------------------------------------------------------------
\* The lines of the radio.

LessThan == {p \in Nat \X Nat : p[1] < p[2]}

LEMMA LessThanWellFounded == IsWellFoundedOn(LessThan, Nat)
BY NatLessThanWellFounded DEF LessThan, OpToRel

LEMMA LeastNumber ==
    ASSUME NEW T \in SUBSET Nat, T # {}
    PROVE  \E n \in T : \A m \in T : n <= m
<1>1. PICK n \in T : \A m \in T : <<m, n>> \notin LessThan
    BY LessThanWellFounded, WFMin
<1>2. ASSUME NEW m \in T PROVE n <= m
    <2>1. m \in Nat /\ n \in Nat
        OBVIOUS
    <2>2. <<m, n>> \notin LessThan
        BY <1>1
    <2> QED
        BY <2>1, <2>2 DEF LessThan
<1> QED
    BY <1>2

\* n characters from position i on are digits, and the one behind them is none.
NumberAt(s, i, n) ==
    /\ \A k \in i .. i + n - 1 : k <= Len(s) /\ s[k] = "d"
    /\ i + n <= Len(s) => s[i + n] # "d"

\* There is a longest number at every position, of no digits if need be.
LEMMA DigitsFact ==
    ASSUME NEW s, Len(s) \in Nat, NEW i \in Nat \ {0}
    PROVE  Digits(s, i) \in 0 .. Len(s) /\ NumberAt(s, i, Digits(s, i))
<1> DEFINE T == {n \in Nat : i + n > Len(s) \/ s[i + n] # "d"}
<1>1. Len(s) \in T
    OBVIOUS
<1>2. PICK n \in T : \A m \in T : n <= m
    BY <1>1, LeastNumber
<1>3. n \in 0 .. Len(s)
    BY <1>1, <1>2
<1>4. ASSUME NEW k \in i .. i + n - 1 PROVE k <= Len(s) /\ s[k] = "d"
    <2>1. k - i \in Nat /\ ~(n <= k - i) /\ i + (k - i) = k
        BY <1>3
    <2>2. k - i \notin T
        BY <1>2, <2>1
    <2> QED
        BY <2>1, <2>2
<1>5. NumberAt(s, i, n)
    BY <1>3, <1>4 DEF NumberAt
<1>6. \E m \in 0 .. Len(s) : NumberAt(s, i, m)
    BY <1>3, <1>5
<1>7. Digits(s, i) = CHOOSE m \in 0 .. Len(s) : NumberAt(s, i, m)
    BY DEF Digits, NumberAt
<1> QED
    BY <1>6, <1>7

\* s is the front of t.
FrontOf(s, t) ==
    /\ Len(s) \in Nat /\ Len(t) \in Nat /\ Len(s) <= Len(t)
    /\ \A k \in 1 .. Len(s) : s[k] = t[k]

\* In the front of a line a number has no more digits than in the line, and fewer only
\* if the front ends with it.
LEMMA CutNumber ==
    ASSUME NEW s, NEW t, FrontOf(s, t), NEW i \in Nat \ {0}
    PROVE  /\ Digits(s, i) \in Nat /\ Digits(t, i) \in Nat
           /\ Digits(s, i) <= Digits(t, i)
           /\ Digits(s, i) < Digits(t, i) => i + Digits(s, i) > Len(s) /\ Len(s) < Len(t)
<1> DEFINE n == Digits(s, i)
           m == Digits(t, i)
<1>1. /\ n \in 0 .. Len(s) /\ NumberAt(s, i, n)
      /\ m \in 0 .. Len(t) /\ NumberAt(t, i, m)
    BY DigitsFact DEF FrontOf
<1> HIDE DEF n, m
<1>2. /\ n \in Nat /\ m \in Nat /\ Len(s) \in Nat /\ Len(t) \in Nat /\ Len(s) <= Len(t)
    BY <1>1 DEF FrontOf
<1>3. n <= m
    <2> SUFFICES ASSUME m < n PROVE FALSE
        BY <1>2
    <2>1. i + m \in i .. i + n - 1
        BY <1>2
    <2>2. i + m <= Len(s) /\ s[i + m] = "d"
        BY <1>1, <2>1 DEF NumberAt
    <2>3. i + m \in 1 .. Len(s) /\ i + m <= Len(t)
        BY <1>2, <2>2
    <2>4. t[i + m] = "d"
        BY <2>2, <2>3 DEF FrontOf
    <2> QED
        BY <1>1, <2>3, <2>4 DEF NumberAt
<1>4. n < m => i + n > Len(s) /\ Len(s) < Len(t)
    <2> SUFFICES ASSUME n < m PROVE i + n > Len(s) /\ Len(s) < Len(t)
        OBVIOUS
    <2>1. i + n \in i .. i + m - 1
        BY <1>2
    <2>2. i + n <= Len(t) /\ t[i + n] = "d"
        BY <1>1, <2>1 DEF NumberAt
    <2>3. ~(i + n <= Len(s))
        <3> SUFFICES ASSUME i + n <= Len(s) PROVE FALSE
            OBVIOUS
        <3>1. i + n \in 1 .. Len(s)
            BY <1>2
        <3>2. s[i + n] = "d"
            BY <2>2, <3>1 DEF FrontOf
        <3> QED
            BY <1>1, <3>2 DEF NumberAt
    <2> QED
        BY <1>2, <2>2, <2>3
<1> QED
    BY <1>2, <1>3, <1>4 DEF n, m

\* The values v read from s are those w read from the whole line t, the last one perhaps
\* cut short where s ends.
CutShort(v, w, s, t) ==
    /\ Len(v) \in 0 .. 3 /\ Len(w) \in 0 .. 3 /\ Len(v) <= Len(w)
    /\ \A i \in 1 .. Len(v) :
          v[i] = w[i] \/ (v[i] < w[i] /\ Len(s) < Len(t) /\ i = Len(v))

\* The separator of the numbers.
Comma(s, i) == i <= Len(s) /\ s[i] = ","

LEMMA CommaFront ==
    ASSUME NEW s, NEW t, FrontOf(s, t), NEW i \in Nat \ {0}, Comma(s, i)
    PROVE  Comma(t, i) /\ i <= Len(s)
<1> DEFINE c == ","
<1>1. i <= Len(s)
    BY Zenon DEF Comma
<1>2. s[i] = c
    BY Zenon DEF Comma
<1> HIDE DEF c
<1>3. i \in 1 .. Len(s) /\ i <= Len(t)
    BY <1>1 DEF FrontOf
<1>4. i <= Len(t) /\ t[i] = c
    BY <1>2, <1>3 DEF FrontOf
<1> QED
    BY <1>1, <1>4, Zenon DEF Comma, c

LEMMA ScannedFront ==
    ASSUME NEW s, NEW t, FrontOf(s, t)
    PROVE  CutShort(Scanned(s), Scanned(t), s, t)
<1> DEFINE s1 == Digits(s, 1)
           s2 == Digits(s, s1 + 2)
           s3 == Digits(s, s1 + s2 + 3)
           t1 == Digits(t, 1)
           t2 == Digits(t, t1 + 2)
           t3 == Digits(t, t1 + t2 + 3)
           commaS(i) == Comma(s, i)
           commaT(i) == Comma(t, i)
<1>1. /\ Scanned(s) = IF s1 = 0 THEN <<>>
                      ELSE IF ~commaS(s1 + 1) \/ s2 = 0 THEN <<s1>>
                      ELSE IF ~commaS(s1 + s2 + 2) \/ s3 = 0 THEN <<s1, s2>>
                      ELSE <<s1, s2, s3>>
      /\ Scanned(t) = IF t1 = 0 THEN <<>>
                      ELSE IF ~commaT(t1 + 1) \/ t2 = 0 THEN <<t1>>
                      ELSE IF ~commaT(t1 + t2 + 2) \/ t3 = 0 THEN <<t1, t2>>
                      ELSE <<t1, t2, t3>>
    BY DEF Scanned, Comma
<1>2. Len(s) \in Nat /\ Len(t) \in Nat /\ Len(s) <= Len(t)
    BY DEF FrontOf
<1>3. /\ s1 \in Nat /\ t1 \in Nat /\ s1 <= t1
      /\ s1 < t1 => s1 + 1 > Len(s) /\ Len(s) < Len(t)
    BY CutNumber
<1>4. s1 = t1 => /\ s2 \in Nat /\ t2 \in Nat /\ s2 <= t2
                 /\ s2 < t2 => s1 + 2 + s2 > Len(s) /\ Len(s) < Len(t)
    <2> DEFINE i == s1 + 2
    <2>1. i \in Nat \ {0}
        BY <1>3
    <2> HIDE DEF i
    <2>2. /\ Digits(s, i) \in Nat /\ Digits(t, i) \in Nat /\ Digits(s, i) <= Digits(t, i)
          /\ Digits(s, i) < Digits(t, i) => i + Digits(s, i) > Len(s) /\ Len(s) < Len(t)
        BY <2>1, CutNumber
    <2> QED
        BY <2>2 DEF i
<1>5. s1 = t1 /\ s2 = t2 /\ s2 \in Nat =>
          /\ s3 \in Nat /\ t3 \in Nat /\ s3 <= t3
          /\ s3 < t3 => Len(s) < Len(t)
    <2> DEFINE i == s1 + s2 + 3
    <2>1. s2 \in Nat => i \in Nat \ {0}
        BY <1>3
    <2> HIDE DEF i
    <2>2. s2 \in Nat =>
             /\ Digits(s, i) \in Nat /\ Digits(t, i) \in Nat /\ Digits(s, i) <= Digits(t, i)
             /\ Digits(s, i) < Digits(t, i) => Len(s) < Len(t)
        BY <2>1, CutNumber
    <2> QED
        BY <2>2 DEF i
<1>6. \A i \in Nat \ {0} : commaS(i) => commaT(i) /\ i <= Len(s)
    BY CommaFront
<1> HIDE DEF commaS, commaT
<1> HIDE DEF s1, s2, s3, t1, t2, t3
<1>7. commaS(s1 + 1) => s1 = t1 /\ commaT(s1 + 1)
    BY <1>2, <1>3, <1>6
<1>8. s1 = t1 /\ commaS(s1 + s2 + 2) => s2 = t2 /\ commaT(s1 + s2 + 2)
    BY <1>2, <1>3, <1>4, <1>6
<1>9. CASE s1 = 0
    BY <1>1, <1>9 DEF CutShort
<1>10. CASE s1 # 0 /\ (~commaS(s1 + 1) \/ s2 = 0)
    <2>1. Scanned(s) = <<s1>> /\ t1 # 0
        BY <1>1, <1>3, <1>10
    <2>2. Len(Scanned(t)) \in 1 .. 3 /\ Scanned(t)[1] = t1
        BY <1>1, <2>1
    <2>3. s1 = t1 \/ (s1 < t1 /\ Len(s) < Len(t))
        BY <1>3
    <2> QED
        BY <2>1, <2>2, <2>3 DEF CutShort
<1>11. CASE s1 # 0 /\ commaS(s1 + 1) /\ s2 # 0 /\ (~commaS(s1 + s2 + 2) \/ s3 = 0)
    <2>1. Scanned(s) = <<s1, s2>> /\ s1 = t1 /\ commaT(t1 + 1)
        BY <1>1, <1>7, <1>11
    <2>2. t2 # 0 /\ (s2 = t2 \/ (s2 < t2 /\ Len(s) < Len(t)))
        BY <1>4, <1>11, <2>1
    <2>3. Len(Scanned(t)) \in 2 .. 3 /\ Scanned(t)[1] = t1 /\ Scanned(t)[2] = t2
        BY <1>1, <1>11, <2>1, <2>2
    <2> QED
        BY <2>1, <2>2, <2>3 DEF CutShort
<1>12. CASE s1 # 0 /\ commaS(s1 + 1) /\ s2 # 0 /\ commaS(s1 + s2 + 2) /\ s3 # 0
    <2>1. Scanned(s) = <<s1, s2, s3>> /\ s1 = t1 /\ commaT(t1 + 1)
        BY <1>1, <1>7, <1>12
    <2>2. s2 = t2 /\ t2 # 0 /\ s2 \in Nat /\ commaT(t1 + t2 + 2)
        BY <1>4, <1>8, <1>12, <2>1
    <2>3. t3 # 0 /\ (s3 = t3 \/ (s3 < t3 /\ Len(s) < Len(t)))
        BY <1>5, <1>12, <2>1, <2>2
    <2>4. Scanned(t) = <<t1, t2, t3>>
        BY <1>1, <1>12, <2>1, <2>2, <2>3
    <2> QED
        BY <2>1, <2>2, <2>3, <2>4 DEF CutShort
<1> QED
    BY <1>9, <1>10, <1>11, <1>12

Characters == {"d", ",", "x"}

\* The buffer is the line, or as much of its front as fits.
LineInv ==
    /\ text \in Seq(Characters) /\ rx_buf \in Seq(Characters)
    /\ FrontOf(rx_buf, text)
    /\ Len(rx_buf) = IF Len(text) < BufferSize THEN Len(text) ELSE BufferSize - 1

LEMMA LineInit == ZigbeeInit => LineInv
<1> SUFFICES ASSUME ZigbeeInit PROVE LineInv
    OBVIOUS
<1>1. rx_buf = <<>> /\ text = <<>> /\ <<>> \in Seq(Characters) /\ Len(<<>>) = 0
    BY EmptySeq DEF ZigbeeInit
<1> QED
    BY <1>1, ZigbeeAssumption DEF LineInv, FrontOf

LEMMA LineStep == LineInv /\ [ZigbeeNext]_zigbeeVars => LineInv'
<1> SUFFICES ASSUME LineInv, [ZigbeeNext]_zigbeeVars PROVE LineInv'
    OBVIOUS
<1>1. CASE EndOfLine
    <2>1. rx_buf' = <<>> /\ text' = <<>> /\ <<>> \in Seq(Characters) /\ Len(<<>>) = 0
        BY <1>1, EmptySeq DEF EndOfLine
    <2> QED
        BY <2>1, ZigbeeAssumption DEF LineInv, FrontOf
<1>2. ASSUME NEW ch \in Characters, Store(ch), text' = Append(text, ch) PROVE LineInv'
    <2> DEFINE n == Len(rx_buf)
               m == Len(text)
    <2>1. /\ text \in Seq(Characters) /\ rx_buf \in Seq(Characters)
          /\ n \in Nat /\ m \in Nat /\ n <= m
          /\ n = IF m < BufferSize THEN m ELSE BufferSize - 1
          /\ \A k \in 1 .. n : rx_buf[k] = text[k]
        BY DEF LineInv, FrontOf
    <2>2. /\ text' \in Seq(Characters) /\ Len(text') = m + 1
          /\ \A k \in 1 .. m : text'[k] = text[k]
          /\ text'[m + 1] = ch
        BY <1>2, <2>1, AppendProperties
    <2>3. CASE n < BufferSize - 1
        <3>1. /\ rx_buf' \in Seq(Characters) /\ Len(rx_buf') = n + 1
              /\ \A k \in 1 .. n : rx_buf'[k] = rx_buf[k]
              /\ rx_buf'[n + 1] = ch
            BY <1>2, <2>1, <2>3, AppendProperties DEF Store
        <3> HIDE DEF n, m
        <3>2. n = m /\ m + 1 < BufferSize
            BY <2>1, <2>3, ZigbeeAssumption
        <3>3. \A k \in 1 .. n + 1 : rx_buf'[k] = text'[k]
            BY <2>1, <2>2, <3>1, <3>2
        <3> QED
            BY <2>1, <2>2, <3>1, <3>2, <3>3 DEF LineInv, FrontOf
    <2>4. CASE ~(n < BufferSize - 1)
        <3>1. rx_buf' = rx_buf
            BY <1>2, <2>4 DEF Store
        <3>2. Len(rx_buf') = n
            BY <3>1
        <3> HIDE DEF n, m
        <3>3. /\ ~(m + 1 < BufferSize) /\ n = BufferSize - 1 /\ n <= m + 1
            BY <2>1, <2>4, ZigbeeAssumption
        <3>4. \A k \in 1 .. n : rx_buf'[k] = text'[k]
            BY <2>1, <2>2, <3>1
        <3> QED
            BY <2>1, <2>2, <3>1, <3>2, <3>3, <3>4 DEF LineInv, FrontOf
    <2> QED
        BY <2>3, <2>4
<1>3. CASE Character
    BY <1>2, <1>3 DEF Character, Characters
<1>4. CASE UNCHANGED zigbeeVars
    BY <1>4 DEF zigbeeVars, LineInv, FrontOf
<1> QED
    BY <1>1, <1>3, <1>4 DEF ZigbeeNext

\* For every size of the buffer and every line, a line that is too long loses the end of
\* one number and those behind it, and nothing else: UART_1_INST_IRQHandler drops what does
\* not fit, and sscanf reads from the front.
THEOREM OverlongLineAlwaysCutsOne == ZigbeeSpec => OverlongLineCutsOneNumber
<1>1. LineInv /\ [ZigbeeNext]_zigbeeVars =>
        [\A i \in 1 .. 3 : zigbee_data'[i] # zigbee_data[i] =>
            LET whole == Scanned(text) IN
            /\ i <= Len(whole)
            /\ \/ zigbee_data'[i] = whole[i]
               \/ /\ zigbee_data'[i] < whole[i]
                  /\ Len(text) >= BufferSize
                  /\ \A j \in i + 1 .. 3 : zigbee_data'[j] = zigbee_data[j]]_zigbeeVars
    <2> DEFINE v == Scanned(rx_buf)
               w == Scanned(text)
    <2> SUFFICES ASSUME LineInv, ZigbeeNext, NEW i \in 1 .. 3,
                        zigbee_data'[i] # zigbee_data[i]
                 PROVE  /\ i <= Len(w)
                        /\ \/ zigbee_data'[i] = w[i]
                           \/ /\ zigbee_data'[i] < w[i]
                              /\ Len(text) >= BufferSize
                              /\ \A j \in i + 1 .. 3 : zigbee_data'[j] = zigbee_data[j]
        BY DEF zigbeeVars
    <2>1. zigbee_data' = [k \in 1 .. 3 |-> IF k <= Len(v) THEN v[k] ELSE zigbee_data[k]]
        BY DEF ZigbeeNext, Character, EndOfLine
    <2>2. CutShort(v, w, rx_buf, text)
        BY ScannedFront DEF LineInv
    <2> HIDE DEF v, w
    <2>3. \A k \in 1 .. 3 : zigbee_data'[k] = IF k <= Len(v) THEN v[k] ELSE zigbee_data[k]
        BY <2>1
    <2>4. i <= Len(v) /\ zigbee_data'[i] = v[i]
        BY <2>3
    <2>5. i \in 1 .. Len(v) /\ i <= Len(w) /\ Len(v) \in 0 .. 3
        BY <2>2, <2>4 DEF CutShort
    <2>6. v[i] = w[i] \/ (v[i] < w[i] /\ Len(rx_buf) < Len(text) /\ i = Len(v))
        BY <2>2, <2>5 DEF CutShort
    <2>7. Len(rx_buf) < Len(text) => Len(text) >= BufferSize
        BY ZigbeeAssumption DEF LineInv, FrontOf
    <2>8. i = Len(v) => \A j \in i + 1 .. 3 : zigbee_data'[j] = zigbee_data[j]
        BY <2>3
    <2> QED
        BY <2>4, <2>5, <2>6, <2>7, <2>8
<1> QED
    BY <1>1, LineInit, LineStep, PTL DEF ZigbeeSpec, OverlongLineCutsOneNumber

================================================================================
