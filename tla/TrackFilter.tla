------------------------------ MODULE TrackFilter ------------------------------
(***************************************************************************)
(* The hysteresis filter of the 30 s mode.  Track_Update1ms counts each     *)
(* channel up on an active raw sample and down on an inactive one, within   *)
(* 0 .. CountMax; the channel's stable bit is set at OnCount, cleared at    *)
(* OffCount and held in between.  Track_ResetStable clears everything at    *)
(* any moment.                                                              *)
(***************************************************************************)
EXTENDS Integers

CONSTANTS
    Channel,    \* the sensor channels, 6 in the code
    CountMax,   \* TRACK_FILTER_COUNT_MAX
    OnCount,    \* TRACK_FILTER_ON_COUNT
    OffCount    \* TRACK_FILTER_OFF_COUNT

ASSUME FilterAssumption ==
    /\ CountMax \in Nat /\ OnCount \in Nat /\ OffCount \in Nat
    /\ OffCount < OnCount /\ OnCount <= CountMax

VARIABLES
    g_track_filter_count,   \* per channel
    g_track_stable_bits,    \* the channels whose bit is set
    \* History variables.
    on_run,       \* per channel, active raw samples since the last inactive one
    off_run,      \* per channel, inactive ones since the last active one
    held_for      \* per channel, samples since its stable bit last changed

history == <<on_run, off_run, held_for>>
vars == <<g_track_filter_count, g_track_stable_bits, history>>

Init ==
    /\ g_track_filter_count = [c \in Channel |-> 0]
    /\ g_track_stable_bits = {}
    /\ on_run = [c \in Channel |-> 0]
    /\ off_run = [c \in Channel |-> 0]
    /\ held_for = [c \in Channel |-> 0]

\* One step towards a bound, at most to it.
Up(n) == IF n < CountMax THEN n + 1 ELSE n
Down(n) == IF n > 0 THEN n - 1 ELSE n

\* One channel's counter after a raw sample, saturating at both ends.
NextCount(c, raw_bits) ==
    IF c \in raw_bits THEN Up(g_track_filter_count[c])
                      ELSE Down(g_track_filter_count[c])

\* Fault: set only above OnCount.
NextBitLate(c, count) ==
    count > OnCount \/ (c \in g_track_stable_bits /\ count > OffCount)

\* Fault: still held at OffCount.
NextBitSticky(c, count) ==
    count >= OnCount \/ (c \in g_track_stable_bits /\ count >= OffCount)

\* Fault: one threshold for both directions.
NextBitPlain(c, count) == count >= OnCount

\* The channel's stable bit is set, cleared or held by the new counter value.
NextBit(c, count) ==
    count >= OnCount \/ (c \in g_track_stable_bits /\ count > OffCount)

\* History; rows and ages beyond CountMax are not told apart.
Record(raw_bits) ==
    /\ on_run' = [c \in Channel |-> IF c \in raw_bits THEN Up(on_run[c]) ELSE 0]
    /\ off_run' = [c \in Channel |-> IF c \in raw_bits THEN 0 ELSE Up(off_run[c])]
    /\ held_for' =
           [c \in Channel |->
               IF c \in g_track_stable_bits' <=> c \in g_track_stable_bits
               THEN Up(held_for[c]) ELSE 0]

Track_Update1ms(raw_bits) ==
    /\ g_track_filter_count' = [c \in Channel |-> NextCount(c, raw_bits)]
    /\ g_track_stable_bits' =
           {c \in Channel : NextBit(c, g_track_filter_count'[c])}
    /\ Record(raw_bits)

\* Called when a lap starts; the rows start again with it.
Track_ResetStable ==
    /\ g_track_filter_count' = [c \in Channel |-> 0]
    /\ g_track_stable_bits' = {}
    /\ on_run' = [c \in Channel |-> 0]
    /\ off_run' = [c \in Channel |-> 0]
    /\ held_for' = [c \in Channel |-> 0]

Next ==
    \/ \E raw_bits \in SUBSET Channel : Track_Update1ms(raw_bits)
    \/ Track_ResetStable

Spec == Init /\ [][Next]_vars

--------------------------------------------------------------------------------

TypeOK ==
    /\ g_track_filter_count \in [Channel -> 0 .. CountMax]
    /\ g_track_stable_bits \subseteq Channel
    /\ on_run \in [Channel -> 0 .. CountMax]
    /\ off_run \in [Channel -> 0 .. CountMax]
    /\ held_for \in [Channel -> 0 .. CountMax]

\* The two halves of the state never contradict each other: a set bit has more
\* than OffCount behind it and a clear one less than OnCount, after any mixture
\* of samples and resets.
BitsMatchCounts ==
    \A c \in Channel :
        IF c \in g_track_stable_bits
        THEN g_track_filter_count[c] > OffCount
        ELSE g_track_filter_count[c] < OnCount

\* A channel seen active OnCount times in a row is reported, and one seen
\* inactive CountMax - OffCount times is dropped, whatever came before: the
\* filter delays a line and a gap by no more.
SteadySignalIsReported ==
    \A c \in Channel :
        /\ on_run[c] >= OnCount => c \in g_track_stable_bits
        /\ off_run[c] >= CountMax - OffCount => c \notin g_track_stable_bits

\* No chatter: once a stable bit has changed, it takes at least
\* OnCount - OffCount samples to change it back, whatever the raw signal does.
NoChatter ==
    [][(\E raw_bits \in SUBSET Channel : Track_Update1ms(raw_bits)) =>
          \A c \in Channel :
              ~(c \in g_track_stable_bits' <=> c \in g_track_stable_bits)
                  => held_for[c] + 1 >= OnCount - OffCount]_vars

================================================================================
