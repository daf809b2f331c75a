------------------------------ MODULE ZigbeeLine -------------------------------
(***************************************************************************)
(* The lines of the Zigbee radio: UART_1_INST_IRQHandler gathers characters *)
(* and reads up to three numbers from each line.  A number is as many       *)
(* digits "d"; sscanf (external) takes fields from the front of the line    *)
(* until one does not fit the format.                                       *)
(***************************************************************************)
EXTENDS Integers, Sequences

CONSTANTS
    BufferSize,     \* sizeof rx_buf
    MaxLine         \* bound on the characters of a line

ASSUME ZigbeeAssumption == BufferSize \in Nat \ {0} /\ MaxLine \in Nat

VARIABLES
    rx_buf, zigbee_data,
    text            \* history: all characters of the line so far, but '\r'

zigbeeVars == <<rx_buf, zigbee_data, text>>

ZigbeeInit ==
    /\ rx_buf = <<>>
    /\ zigbee_data = <<0, 0, 0>>
    /\ text = <<>>

--------------------------------------------------------------------------------

\* The length of the number that starts at position i.
Digits(s, i) ==
    CHOOSE n \in 0 .. Len(s) :
        /\ \A k \in i .. i + n - 1 : k <= Len(s) /\ s[k] = "d"
        /\ i + n <= Len(s) => s[i + n] # "d"

\* sscanf with "%f,%f,%f": the values of the fields it takes, at most three.
Scanned(s) ==
    LET first == Digits(s, 1)
        second == Digits(s, first + 2)
        third == Digits(s, first + second + 3)
        comma(i) == i <= Len(s) /\ s[i] = ","
    IN  IF first = 0 THEN <<>>
        ELSE IF ~comma(first + 1) \/ second = 0 THEN <<first>>
        ELSE IF ~comma(first + second + 2) \/ third = 0 THEN <<first, second>>
        ELSE <<first, second, third>>

EndOfLine ==
    /\ zigbee_data' = LET v == Scanned(rx_buf) IN
                      [i \in 1 .. 3 |-> IF i <= Len(v) THEN v[i] ELSE zigbee_data[i]]
    /\ rx_buf' = <<>>
    /\ text' = <<>>

\* Fault: a full buffer starts over.
StoreWrapping(ch) ==
    rx_buf' = IF Len(rx_buf) < BufferSize - 1 THEN Append(rx_buf, ch) ELSE <<ch>>

\* What does not fit is dropped, the rest of the line with it.
Store(ch) ==
    rx_buf' = IF Len(rx_buf) < BufferSize - 1 THEN Append(rx_buf, ch) ELSE rx_buf

Character ==
    /\ Len(text) < MaxLine
    /\ \E ch \in {"d", ",", "x"} : Store(ch) /\ text' = Append(text, ch)
    /\ UNCHANGED zigbee_data

\* '\r' is skipped.
ZigbeeNext == EndOfLine \/ Character

ZigbeeSpec == ZigbeeInit /\ [][ZigbeeNext]_zigbeeVars

--------------------------------------------------------------------------------

\* A line longer than the buffer is read as if it ended there.  At most its last
\* number comes out cut short, and only there: no number is made up of the rest of
\* the line, none moves to another field, and no line fills in for the one before.
OverlongLineCutsOneNumber ==
    [][\A i \in 1 .. 3 : zigbee_data'[i] # zigbee_data[i] =>
          LET whole == Scanned(text) IN
          /\ i <= Len(whole)
          /\ \/ zigbee_data'[i] = whole[i]
             \/ /\ zigbee_data'[i] < whole[i]
                /\ Len(text) >= BufferSize
                /\ \A j \in i + 1 .. 3 : zigbee_data'[j] = zigbee_data[j]]_zigbeeVars

================================================================================
