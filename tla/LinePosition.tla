------------------------------ MODULE LinePosition ------------------------------
(***************************************************************************)
(* From the set of active channels (1..6, left to right) to a line position *)
(* in tenths of a channel: 10..60, or 0 for "no line".                      *)
(*                                                                          *)
(* Centroid is what the 20 s mode uses; Resolve is the 30 s mode's choice   *)
(* of one cluster of adjacent channels, stated by what it selects.  The     *)
(* loop of Stable30_Resolve_Position is in module ResolveLoop, which shows  *)
(* that it computes Resolve.                                                *)
(***************************************************************************)
EXTENDS Integers, FiniteSets, FiniteSetsExt

Channels == 1 .. 6

Centre == 35

\* Positions an earlier reading can have; anything else is no reference.
Valid(position) == position \in 10 .. 60

Distance(a, b) == IF a > b THEN a - b ELSE b - a

\* Track_SampleFromBits: the average of the active channels, times ten.
Centroid(bits) ==
    IF bits = {} THEN 0 ELSE (10 * SumSet(bits)) \div Cardinality(bits)

\* The maximal runs of adjacent active channels, as <<first, last>> pairs.
Clusters(bits) ==
    {c \in bits \X bits :
        /\ c[1] <= c[2]
        /\ c[1] .. c[2] \subseteq bits
        /\ c[1] - 1 \notin bits
        /\ c[2] + 1 \notin bits}

Width(c) == c[2] - c[1] + 1

\* The average of a run times ten; exact, because a run is symmetric.
Position(c) == 5 * (c[1] + c[2])

\* Fault: the lap starts as if the line were left of the middle.
ReferenceOffCentre(previous) == IF Valid(previous) THEN previous ELSE 30

Reference(previous) == IF Valid(previous) THEN previous ELSE Centre

\* c is preferred to d: more channels, else nearer, else further left.
Preferred(c, d, ref) ==
    \/ Width(c) > Width(d)
    \/ /\ Width(c) = Width(d)
       /\ \/ Distance(Position(c), ref) < Distance(Position(d), ref)
          \/ /\ Distance(Position(c), ref) = Distance(Position(d), ref)
             /\ c[1] <= d[1]

Best(bits, ref) ==
    CHOOSE c \in Clusters(bits) : \A d \in Clusters(bits) : Preferred(c, d, ref)

\* A single channel further than two channels from the last reliable position
\* is taken for a stray signal.
Stray(c, previous) ==
    /\ Valid(previous)
    /\ Width(c) = 1
    /\ Distance(Position(c), previous) > 20

\* Stable30_Resolve_Position(active_bits, previous_position).
Resolve(bits, previous) ==
    IF bits = {} THEN 0
    ELSE IF bits = Channels THEN Centre
    ELSE LET c == Best(bits, Reference(previous))
         IN  IF Stray(c, previous) THEN 0 ELSE Position(c)

================================================================================
