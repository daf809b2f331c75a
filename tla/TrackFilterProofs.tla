--------------------------- MODULE TrackFilterProofs ---------------------------
(***************************************************************************)
(* The filter's guarantees for every set of channels and every choice of    *)
(* the three thresholds that FilterAssumption allows.                       *)
(***************************************************************************)
EXTENDS TrackFilter, TLAPS

(* The type invariant: counters stay within 0 .. CountMax.                  *)
THEOREM TypeCorrect == Spec => []TypeOK
<1>1. Init => TypeOK
  BY FilterAssumption DEF Init, TypeOK
<1>2. TypeOK /\ [Next]_vars => TypeOK'
  <2> SUFFICES ASSUME TypeOK, [Next]_vars PROVE TypeOK'
    OBVIOUS
  <2>1. ASSUME NEW raw_bits \in SUBSET Channel, Track_Update1ms(raw_bits)
        PROVE  TypeOK'
    <3>1. g_track_filter_count' \in [Channel -> 0 .. CountMax]
      BY <2>1, FilterAssumption
         DEF TypeOK, Track_Update1ms, NextCount, Up, Down
    <3>2. g_track_stable_bits' \subseteq Channel
      BY <2>1 DEF Track_Update1ms
    <3>3. /\ on_run' \in [Channel -> 0 .. CountMax]
          /\ off_run' \in [Channel -> 0 .. CountMax]
          /\ held_for' \in [Channel -> 0 .. CountMax]
      BY <2>1, FilterAssumption DEF TypeOK, Track_Update1ms, Record, Up
    <3> QED
      BY <3>1, <3>2, <3>3 DEF TypeOK
  <2>2. CASE Track_ResetStable
    BY <2>2, FilterAssumption DEF TypeOK, Track_ResetStable
  <2>3. CASE UNCHANGED vars
    BY <2>3 DEF TypeOK, vars, history
  <2> QED
    BY <2>1, <2>2, <2>3 DEF Next
<1> QED
  BY <1>1, <1>2, PTL DEF Spec

--------------------------------------------------------------------------------

(* What a row of equal raw samples says about the counter.                  *)
RunsMatchCounts ==
    \A c \in Channel :
        /\ g_track_filter_count[c] >= on_run[c]
        /\ g_track_filter_count[c] <= CountMax - off_run[c]

(* What the age of a stable bit says about the counter: it was at least at  *)
(* OnCount when the bit was set, at most at OffCount when it was cleared.   *)
AgesMatchCounts ==
    \A c \in Channel :
        IF c \in g_track_stable_bits
        THEN g_track_filter_count[c] >= OnCount - held_for[c]
        ELSE g_track_filter_count[c] <= OffCount + held_for[c]

(* The inductive invariant behind the four guarantees.                      *)
FilterInv ==
    /\ TypeOK
    /\ BitsMatchCounts
    /\ RunsMatchCounts
    /\ AgesMatchCounts

(* A sample disturbs each channel on its own: the counter moves by one, and *)
(* the row and the age move with it.                                        *)
LEMMA UpdateKeepsFilterInv ==
    ASSUME FilterInv, NEW raw_bits \in SUBSET Channel,
           Track_Update1ms(raw_bits), TypeOK'
    PROVE  FilterInv'
<1> SUFFICES ASSUME NEW c \in Channel
             PROVE  /\ BitsMatchCounts!(c)'
                    /\ RunsMatchCounts!(c)'
                    /\ AgesMatchCounts!(c)'
  BY DEF FilterInv, BitsMatchCounts, RunsMatchCounts, AgesMatchCounts
<1>1. {g_track_filter_count[c], on_run[c], off_run[c], held_for[c]}
         \subseteq 0 .. CountMax
  BY DEF FilterInv, TypeOK
<1>2. g_track_filter_count'[c] = IF c \in raw_bits THEN Up(g_track_filter_count[c])
                                 ELSE Down(g_track_filter_count[c])
  BY DEF Track_Update1ms, NextCount
<1>3. c \in g_track_stable_bits' <=>
         \/ g_track_filter_count'[c] >= OnCount
         \/ c \in g_track_stable_bits /\ g_track_filter_count'[c] > OffCount
  BY DEF Track_Update1ms, NextBit
<1>4. BitsMatchCounts!(c)'
  BY <1>1, <1>2, <1>3, FilterAssumption DEF Up, Down
<1>5. RunsMatchCounts!(c)'
  <2>1. RunsMatchCounts!(c)
    BY DEF FilterInv, RunsMatchCounts
  <2>2. /\ on_run'[c] = IF c \in raw_bits THEN Up(on_run[c]) ELSE 0
        /\ off_run'[c] = IF c \in raw_bits THEN 0 ELSE Up(off_run[c])
    BY DEF Track_Update1ms, Record
  <2> QED
    BY <1>1, <1>2, <2>1, <2>2, FilterAssumption DEF Up, Down
<1>6. AgesMatchCounts!(c)'
  <2>1. AgesMatchCounts!(c) /\ BitsMatchCounts!(c)
    BY DEF FilterInv, AgesMatchCounts, BitsMatchCounts
  <2>2. held_for'[c] = IF c \in g_track_stable_bits' <=> c \in g_track_stable_bits
                       THEN Up(held_for[c]) ELSE 0
    BY DEF Track_Update1ms, Record
  <2> QED
    BY <1>1, <1>2, <1>3, <2>1, <2>2, FilterAssumption DEF Up, Down
<1> QED
  BY <1>4, <1>5, <1>6

LEMMA FilterInvInductive == Spec => []FilterInv
<1>1. Init => FilterInv
  BY FilterAssumption
     DEF Init, FilterInv, TypeOK, BitsMatchCounts, RunsMatchCounts, AgesMatchCounts
<1>2. FilterInv /\ TypeOK' /\ [Next]_vars => FilterInv'
  <2> SUFFICES ASSUME FilterInv, TypeOK', [Next]_vars PROVE FilterInv'
    OBVIOUS
  <2>1. ASSUME NEW raw_bits \in SUBSET Channel, Track_Update1ms(raw_bits)
        PROVE  FilterInv'
    BY <2>1, UpdateKeepsFilterInv
  <2>2. CASE Track_ResetStable
    BY <2>2, FilterAssumption
       DEF Track_ResetStable, FilterInv, BitsMatchCounts, RunsMatchCounts,
           AgesMatchCounts
  <2>3. CASE UNCHANGED vars
    BY <2>3 DEF vars, history, FilterInv, BitsMatchCounts, RunsMatchCounts,
                AgesMatchCounts
  <2> QED
    BY <2>1, <2>2, <2>3 DEF Next
<1> QED
  BY <1>1, <1>2, TypeCorrect, PTL DEF Spec

(* After any mixture of samples and resets, a set bit has more than OffCount *)
(* behind it and a clear one less than OnCount.                              *)
THEOREM BitsMatchCountsAlways == Spec => []BitsMatchCounts
<1>1. FilterInv => BitsMatchCounts
  BY DEF FilterInv
<1> QED
  BY <1>1, FilterInvInductive, PTL

(* The filter delays a line by at most OnCount samples, and a gap by at most *)
(* CountMax - OffCount.                                                      *)
THEOREM DelayBounded == Spec => []SteadySignalIsReported
<1>1. FilterInv => SteadySignalIsReported
  <2> SUFFICES ASSUME FilterInv, NEW c \in Channel
               PROVE  /\ on_run[c] >= OnCount => c \in g_track_stable_bits
                      /\ off_run[c] >= CountMax - OffCount => c \notin g_track_stable_bits
    BY DEF SteadySignalIsReported
  <2>1. g_track_filter_count[c] \in Int /\ on_run[c] \in Int /\ off_run[c] \in Int
    BY FilterAssumption DEF FilterInv, TypeOK
  <2> QED
    BY <2>1, FilterAssumption DEF FilterInv, RunsMatchCounts, BitsMatchCounts
<1> QED
  BY <1>1, FilterInvInductive, PTL

(* A stable bit that has just changed cannot change back within              *)
(* OnCount - OffCount samples: the 30 s mode never sees the line chatter.    *)
THEOREM NoChatterEver == Spec => NoChatter
<1>1. FilterInv /\ [Next]_vars =>
        [(\E raw_bits \in SUBSET Channel : Track_Update1ms(raw_bits)) =>
            \A c \in Channel :
                ~(c \in g_track_stable_bits' <=> c \in g_track_stable_bits)
                    => held_for[c] + 1 >= OnCount - OffCount]_vars
  <2> SUFFICES ASSUME FilterInv, NEW raw_bits \in SUBSET Channel,
                      Track_Update1ms(raw_bits), NEW c \in Channel,
                      ~(c \in g_track_stable_bits' <=> c \in g_track_stable_bits)
               PROVE  held_for[c] + 1 >= OnCount - OffCount
    OBVIOUS
  <2>1. g_track_filter_count[c] \in 0 .. CountMax /\ held_for[c] \in 0 .. CountMax
    BY DEF FilterInv, TypeOK
  <2>2. g_track_filter_count'[c] = IF c \in raw_bits THEN Up(g_track_filter_count[c])
                                   ELSE Down(g_track_filter_count[c])
    BY DEF Track_Update1ms, NextCount
  <2>3. c \in g_track_stable_bits' <=>
           \/ g_track_filter_count'[c] >= OnCount
           \/ c \in g_track_stable_bits /\ g_track_filter_count'[c] > OffCount
    BY DEF Track_Update1ms, NextBit
  <2>4. AgesMatchCounts!(c)
    BY DEF FilterInv, AgesMatchCounts
  <2> QED
    BY <2>1, <2>2, <2>3, <2>4, FilterAssumption DEF Up, Down
<1> QED
  BY <1>1, FilterInvInductive, PTL DEF Spec, NoChatter

================================================================================
