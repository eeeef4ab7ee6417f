------------------------------ MODULE Grouping ------------------------------
(***************************************************************************)
(* group_adjacent_ids and group_weighted_items (_common/contracts.py): how *)
(* discovered tablets and partitions become scan tasks.  Identifiers are   *)
(* integers; a group is the sequence of the identifiers of one task.       *)
(***************************************************************************)
EXTENDS Integers, Sequences, FiniteSets, SequencesExt

\* sorted: the element in place k has k - 1 elements before it.  Written with
\* counts, and not with the sorting of a sequence, to be reasoned about.
Sorted(S, before(_, _)) ==
    [k \in 1..Cardinality(S) |->
        CHOOSE x \in S : Cardinality({y \in S : before(y, x)}) = k - 1]

GroupCount(n, targetGroups, maxGroups) == Min({n, targetGroups, maxGroups})

\* Mutant: rounds down
GroupSizeFloor(n, count) == n \div count

GroupSize(n, count) == (n + count - 1) \div count

\* range(0, n, size): how many starting points there are
Starts(n, size) == (n + size - 1) \div size

\* Consecutive runs of equal length, the last one possibly shorter
GroupAdjacentIds(ids, targetGroups, maxGroups) ==
    LET n == Cardinality(ids)
        groupSize == GroupSize(n, GroupCount(n, targetGroups, maxGroups))
        ordered == Sorted(ids, <)
    IN  IF ids = {} THEN << >>
        ELSE [k \in 1..Starts(n, groupSize) |->
                SubSeq(ordered, (k - 1) * groupSize + 1, Min({k * groupSize, n}))]

\* Mutant: lightest first
LighterFirst(weight, a, b) ==
    weight[a] < weight[b] \/ (weight[a] = weight[b] /\ a < b)

\* Heaviest first; equal weights in the order of the identifiers
HeavierFirst(weight, a, b) ==
    weight[a] > weight[b] \/ (weight[a] = weight[b] /\ a < b)

\* The lightest bucket, the first of them on a tie
LightestBucket(load) ==
    CHOOSE i \in DOMAIN load :
        \A j \in DOMAIN load : load[i] < load[j] \/ (load[i] = load[j] /\ i <= j)

EmptyBuckets(count) ==
    [bucket |-> [i \in 1..count |-> {}], load |-> [i \in 1..count |-> 0]]

\* A weight that is negative counts as zero
Place(weight, state, item) ==
    LET i == LightestBucket(state.load)
        w == IF weight[item] > 0 THEN weight[item] ELSE 0
    IN  [bucket |-> [state.bucket EXCEPT ![i] = @ \cup {item}],
         load |-> [state.load EXCEPT ![i] = @ + w]]

\* Each item goes to the lightest bucket so far
Buckets(weight, count) ==
    LET n == Cardinality(DOMAIN weight)
        order == Sorted(DOMAIN weight, LAMBDA a, b : HeavierFirst(weight, a, b))
        placed[k \in 0..n] ==
            IF k = 0 THEN EmptyBuckets(count)
            ELSE Place(weight, placed[k - 1], order[k])
    IN  placed[n].bucket

\* Empty buckets are dropped
GroupWeightedItems(weight, targetGroups, maxGroups) ==
    LET count == GroupCount(Cardinality(DOMAIN weight), targetGroups, maxGroups)
        buckets == Buckets(weight, count)
        used == Sorted({k \in 1..count : buckets[k] # {}}, <)
    IN  IF DOMAIN weight = {} THEN << >>
        ELSE [k \in DOMAIN used |-> Sorted(buckets[used[k]], <)]
=============================================================================
