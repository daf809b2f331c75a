------------------------------ MODULE ResolveLoop ------------------------------
(***************************************************************************)
(* The loop of Stable30_Resolve_Position, one cluster per step, with the    *)
(* 8-bit accumulators of the code.  Its properties say that the loop        *)
(* returns the Resolve of LinePosition for every set of channels and every  *)
(* previous position, and that Resolve treats left and right alike.         *)
(***************************************************************************)
EXTENDS LinePosition

CONSTANT Previous   \* the previous positions to try, 0 for none

ASSUME PreviousAssumption == Previous \subseteq 0 .. 255

VARIABLES
    active_bits, previous_position,      \* the arguments
    index,                               \* next channel to look at
    best_position, best_count, best_distance,
    result                               \* the value returned, Pending before

resolveVars == <<active_bits, previous_position, index,
                 best_position, best_count, best_distance, result>>

Pending == -1

\* Fault: seven bits, as in a signed byte.
ByteSigned(n) == n % 128

\* (uint8_t) arithmetic.
Byte(n) == n % 256

ResolveInit ==
    /\ active_bits \in SUBSET Channels
    /\ previous_position \in Previous
    /\ index = 1
    /\ best_position = 0
    /\ best_count = 0
    /\ best_distance = 255
    /\ result = Pending

\* The first and last channel of the next cluster from a channel on.
NextFirst(from) == Min({i \in active_bits : i >= from})

NextLast(first) ==
    Min({i \in first .. 6 : i + 1 \notin active_bits})

\* No channel, or all of them: the two early returns.
ReturnEarly ==
    /\ result = Pending
    /\ index = 1
    /\ active_bits \in {{}, Channels}
    /\ result' = IF active_bits = {} THEN 0 ELSE Centre
    /\ UNCHANGED <<active_bits, previous_position, index,
                   best_position, best_count, best_distance>>

Searching == result = Pending /\ active_bits \notin {{}, Channels}

MoreClusters == \E i \in active_bits : i >= index

\* One turn of the outer loop: skip the gap, sum the cluster, keep the better.
TakeCluster ==
    /\ Searching
    /\ MoreClusters
    /\ LET first == NextFirst(index)
           last == NextLast(first)
           count == last - first + 1
           position == Byte(10 * SumSet(first .. last)) \div count
           distance == Byte(Distance(position, Reference(previous_position)))
       IN  /\ index' = last + 1
           /\ IF \/ best_position = 0
                 \/ count > best_count
                 \/ count = best_count /\ distance < best_distance
              THEN /\ best_position' = position
                   /\ best_count' = count
                   /\ best_distance' = distance
              ELSE UNCHANGED <<best_position, best_count, best_distance>>
    /\ UNCHANGED <<active_bits, previous_position, result>>

\* The two returns after the loop.
Return ==
    /\ Searching
    /\ ~MoreClusters
    /\ result' = IF /\ Valid(previous_position)
                    /\ best_count = 1
                    /\ best_distance > 20
                 THEN 0 ELSE best_position
    /\ UNCHANGED <<active_bits, previous_position, index,
                   best_position, best_count, best_distance>>

ResolveNext == ReturnEarly \/ TakeCluster \/ Return

ResolveSpec == ResolveInit /\ [][ResolveNext]_resolveVars

--------------------------------------------------------------------------------

Returned == result # Pending

ResolveTypeOK ==
    /\ active_bits \subseteq Channels
    /\ previous_position \in Previous
    /\ index \in 1 .. 7
    /\ best_position \in 0 .. 255 /\ best_count \in 0 .. 6
    /\ best_distance \in 0 .. 255
    /\ result \in {Pending} \cup 0 .. 255

\* The loop returns the preferred cluster of the declarative definition, so its
\* 8-bit sums never wrap and its order of comparison does not matter; and where
\* there is a single line and nothing to compare with, that is the position the
\* 20 s mode computes.
ComputesResolve ==
    Returned =>
        /\ result = Resolve(active_bits, previous_position)
        /\ previous_position = 0 /\ Cardinality(Clusters(active_bits)) <= 1 =>
               result = Centroid(active_bits)

Mirrored(bits) == {7 - i : i \in bits}

Tied(bits, ref) ==
    \E c, d \in Clusters(bits) :
        /\ c # d
        /\ Width(c) = Width(d)
        /\ Distance(Position(c), ref) = Distance(Position(d), ref)

\* Left and right are treated alike: the mirror image of a reading resolves to
\* the mirrored position, except when two clusters tie, where the left one wins.
LeftRightAlike ==
    Returned /\ (Valid(previous_position) \/ previous_position = 0)
             /\ ~Tied(active_bits, Reference(previous_position)) =>
        LET mirrored == Resolve(Mirrored(active_bits),
                                IF previous_position = 0 THEN 0
                                ELSE 70 - previous_position)
        IN  mirrored = IF result = 0 THEN 0 ELSE 70 - result

================================================================================
