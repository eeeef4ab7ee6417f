---------------------------- MODULE SharedLemmas ----------------------------
(***************************************************************************)
(* Facts that the proofs of several components need, about the operators   *)
(* and data they share and not about any state.  What group_adjacent_ids   *)
(* and group_weighted_items return: groups that partition what they are    *)
(* given (ScanPlanningProofs, SourceContractsProofs).  What one more slice *)
(* does to the slices a stream_query has yielded (ClickHouseStreamProofs,  *)
(* DorisStreamProofs).                                                     *)
(***************************************************************************)
EXTENDS Grouping, FiniteSetTheorems, WellFoundedInduction, TLAPS

-----------------------------------------------------------------------------
(* Sorting *)

(* The least-number principle, for a set instead of a predicate. *)
LEMMA LeastNumber ==
    ASSUME NEW T, T \subseteq Nat, T # {}
    PROVE  \E x \in T : \A y \in T : x <= y
  <1> DEFINE less == {ss \in Nat \X Nat : ss[1] < ss[2]}
  <1>1. IsWellFoundedOn(less, Nat)
    BY NatLessThanWellFounded DEF OpToRel
  <1>2. PICK x \in T : \A y \in T : ~(<<y, x>> \in less)
    <2> HIDE DEF less
    <2> QED  BY <1>1, WFMin
  <1>3. ASSUME NEW y \in T PROVE x <= y
    <2>1. x \in Nat /\ y \in Nat
      OBVIOUS
    <2>2. ~(<<y, x>> \in less)
      BY <1>2
    <2>3. ~(y < x)
      BY <2>1, <2>2
    <2> QED  BY <2>1, <2>3
  <1> QED  BY <1>3

(* Induction over the natural numbers, for a set instead of a predicate. *)
LEMMA SetInduction ==
    ASSUME NEW T, 0 \in T, \A n \in Nat : n \in T => n + 1 \in T
    PROVE  Nat \subseteq T
  <1> DEFINE bad == {n \in Nat : n \notin T}
  <1>1. ASSUME NEW n \in bad, \A y \in bad : n <= y PROVE FALSE
    <2>1. n \in Nat /\ n \notin T /\ n # 0
      OBVIOUS
    <2>2. n - 1 \in Nat /\ (n - 1) + 1 = n /\ ~(n <= n - 1)
      BY <2>1
    <2>3. n - 1 \in T
      BY <1>1, <2>2
    <2> QED  BY <2>1, <2>2, <2>3
  <1>2. bad = {}
    <2>1. bad \subseteq Nat
      OBVIOUS
    <2> HIDE DEF bad
    <2> QED  BY <1>1, <2>1, LeastNumber
  <1> QED  BY <1>2

\* A strict total order on S, as a set of pairs
StrictOrder(before, S) ==
    /\ \A x \in S : <<x, x>> \notin before
    /\ \A x, y, z \in S : <<x, y>> \in before /\ <<y, z>> \in before => <<x, z>> \in before
    /\ \A x, y \in S : x # y => <<x, y>> \in before \/ <<y, x>> \in before

(* Counting what stands before an element gives every element a place of its
   own, and every place an element. *)
LEMMA PlacesAreTaken ==
    ASSUME NEW S, IsFiniteSet(S), NEW before, StrictOrder(before, S), NEW f,
           f = [k \in 1..Cardinality(S) |-> f[k]],
           \A k \in 1..Cardinality(S) :
               (\E x \in S : Cardinality({y \in S : <<y, x>> \in before}) = k - 1)
                   => f[k] \in S /\ Cardinality({y \in S : <<y, f[k]>> \in before}) = k - 1
    PROVE  /\ f \in Bijection(1..Cardinality(S), S)
           /\ \A i, j \in 1..Cardinality(S) : i < j => <<f[i], f[j]>> \in before
  <1> DEFINE n == Cardinality(S)
             Below(x) == {y \in S : <<y, x>> \in before}
             rank == [x \in S |-> Cardinality(Below(x))]
  <1>0. \A x \in S : rank[x] = Cardinality({y \in S : <<y, x>> \in before})
    OBVIOUS
  <1>1. n \in Nat
    BY FS_CardinalityType
  <1>2. ASSUME NEW x \in S
        PROVE  IsFiniteSet(Below(x)) /\ rank[x] \in Nat /\ rank[x] < n
    <2>1. Below(x) \subseteq S /\ Below(x) # S
      BY DEF StrictOrder
    <2> HIDE DEF Below
    <2> QED  BY <2>1, FS_Subset, FS_CardinalityType
  <1>3. ASSUME NEW x \in S, NEW y \in S, <<x, y>> \in before
        PROVE  rank[x] < rank[y]
    <2>1. Below(x) \subseteq Below(y) /\ x \in Below(y) /\ x \notin Below(x)
      BY <1>3 DEF StrictOrder
    <2>2. IsFiniteSet(Below(y)) /\ Below(x) # Below(y)
      BY <1>2, <2>1
    <2>3. rank[x] = Cardinality(Below(x)) /\ rank[y] = Cardinality(Below(y))
      OBVIOUS
    <2>4. rank[x] \in Nat /\ rank[y] \in Nat
      BY <1>2
    <2> HIDE DEF Below, rank
    <2>5. rank[x] <= rank[y] /\ rank[x] # rank[y]
      BY <2>1, <2>2, <2>3, FS_Subset
    <2> QED  BY <2>4, <2>5
  <1>4. rank = [x \in S |-> rank[x]]
    OBVIOUS
  <1> HIDE DEF rank, n, Below
  <1>5. rank \in Injection(S, 0..(n - 1))
    <2>1. \A x \in S : rank[x] \in 0..(n - 1)
      BY <1>1, <1>2
    <2>2. ASSUME NEW x \in S, NEW y \in S, rank[x] = rank[y] PROVE x = y
      <3>1. ~(rank[x] < rank[y]) /\ ~(rank[y] < rank[x])
        BY <1>2, <2>2
      <3> QED  BY <1>3, <3>1 DEF StrictOrder
    <2> QED  BY <1>4, <2>1, <2>2 DEF Injection, IsInjective
  <1>6. rank \in Surjection(S, 0..(n - 1))
    <2>1. IsFiniteSet(0..(n - 1)) /\ Cardinality(0..(n - 1)) = n
      <3>1. 0 \in Int /\ n - 1 \in Int
        BY <1>1
      <3>2. /\ IsFiniteSet(0..(n - 1))
            /\ Cardinality(0..(n - 1)) = IF 0 > n - 1 THEN 0 ELSE (n - 1) - 0 + 1
        BY <3>1, FS_Interval
      <3> QED  BY <1>1, <3>2
    <2> QED  BY <1>5, <2>1, FS_Injection DEF n
  <1>7. ASSUME NEW k \in 1..n
        PROVE  f[k] \in S /\ rank[f[k]] = k - 1
    <2>1. k - 1 \in 0..(n - 1)
      BY <1>1
    <2>2. \E x \in S : rank[x] = k - 1
      BY <1>6, <2>1 DEF Surjection
    <2>3. \E x \in S : Cardinality({y \in S : <<y, x>> \in before}) = k - 1
      BY <1>0, <2>2
    <2> QED  BY <1>0, <2>3 DEF n
  <1>8. ASSUME NEW x \in S
        PROVE  rank[x] + 1 \in 1..n /\ f[rank[x] + 1] = x
    <2>1. rank[x] + 1 \in 1..n /\ rank[x] \in Nat
      BY <1>1, <1>2
    <2>2. f[rank[x] + 1] \in S /\ rank[f[rank[x] + 1]] = (rank[x] + 1) - 1
      BY <1>7, <2>1
    <2>3. (rank[x] + 1) - 1 = rank[x]
      BY <2>1
    <2> QED  BY <1>5, <2>1, <2>2, <2>3 DEF Injection, IsInjective
  <1>9. f \in [1..n -> S] /\ DOMAIN f = 1..n
    BY <1>7 DEF n
  <1>10. ASSUME NEW i \in 1..n, NEW j \in 1..n, f[i] = f[j] PROVE i = j
    <2>1. i - 1 = j - 1
      BY <1>7, <1>10
    <2> QED  BY <1>1, <2>1
  <1>11. f \in Bijection(1..n, S)
    <2>1. f \in Injection(1..n, S)
      BY <1>9, <1>10 DEF Injection, IsInjective
    <2>2. f \in Surjection(1..n, S)
      BY <1>8, <1>9 DEF Surjection
    <2> QED  BY <2>1, <2>2 DEF Bijection
  <1>12. ASSUME NEW i \in 1..n, NEW j \in 1..n, i < j
         PROVE  <<f[i], f[j]>> \in before
    <2>1. f[i] \in S /\ f[j] \in S /\ rank[f[i]] = i - 1 /\ rank[f[j]] = j - 1
      BY <1>7
    <2>2. i \in Int /\ j \in Int
      BY <1>1
    <2>3. f[i] # f[j]
      <3>1. i # j
        BY <1>12, <2>2
      <3> QED  BY <1>10, <3>1
    <2>4. ~(rank[f[j]] < rank[f[i]])
      BY <1>12, <2>1, <2>2
    <2> QED  BY <1>3, <2>1, <2>3, <2>4 DEF StrictOrder
  <1> QED  BY <1>11, <1>12 DEF n

(* Identifiers in ascending order. *)
LEMMA SortedAscending ==
    ASSUME NEW S, IsFiniteSet(S), S \subseteq Int
    PROVE  /\ Sorted(S, <) \in Bijection(1..Cardinality(S), S)
           /\ \A i, j \in 1..Cardinality(S) : i < j => Sorted(S, <)[i] < Sorted(S, <)[j]
  <1> DEFINE before == {p \in S \X S : p[1] < p[2]}
             f == Sorted(S, <)
  <1>1. StrictOrder(before, S)
    BY DEF StrictOrder
  <1>2. \A x \in S : {y \in S : <<y, x>> \in before} = {y \in S : y < x}
    OBVIOUS
  <1>3. /\ f = [k \in 1..Cardinality(S) |-> f[k]]
        /\ \A k \in 1..Cardinality(S) :
              f[k] = CHOOSE x \in S : Cardinality({y \in S : y < x}) = k - 1
    <2> DEFINE e(k) == CHOOSE x \in S : Cardinality({y \in S : y < x}) = k - 1
    <2>1. f = [k \in 1..Cardinality(S) |-> e(k)]
      BY Zenon DEF Sorted
    <2>2. \A k : e(k) = CHOOSE x \in S : Cardinality({y \in S : y < x}) = k - 1
      OBVIOUS
    <2> HIDE DEF e, f
    <2>3. f = [k \in 1..Cardinality(S) |-> f[k]]
      BY <2>1
    <2>4. \A k \in 1..Cardinality(S) : f[k] = e(k)
      BY <2>1
    <2> QED  BY <2>2, <2>3, <2>4, Zenon
  <1>4. \A i, j \in S : <<i, j>> \in before => i < j
    OBVIOUS
  <1> HIDE DEF f, before
  <1>5. ASSUME NEW k \in 1..Cardinality(S),
               \E x \in S : Cardinality({y \in S : <<y, x>> \in before}) = k - 1
        PROVE  f[k] \in S /\ Cardinality({y \in S : <<y, f[k]>> \in before}) = k - 1
    <2>1. \E x \in S : Cardinality({y \in S : y < x}) = k - 1
      BY <1>2, <1>5
    <2>2. f[k] \in S /\ Cardinality({y \in S : y < f[k]}) = k - 1
      BY <1>3, <2>1
    <2> QED  BY <1>2, <2>2
  <1>6. /\ f \in Bijection(1..Cardinality(S), S)
        /\ \A i, j \in 1..Cardinality(S) : i < j => <<f[i], f[j]>> \in before
    BY <1>1, <1>3, <1>5, PlacesAreTaken
  <1>7. \A i \in 1..Cardinality(S) : f[i] \in S
    BY <1>6 DEF Bijection, Injection
  <1> QED  BY <1>4, <1>6, <1>7 DEF f

(* Items, the heaviest first. *)
LEMMA SortedByWeight ==
    ASSUME NEW S, IsFiniteSet(S), S \subseteq Int, NEW weight \in [S -> Int]
    PROVE  Sorted(S, LAMBDA a, b : HeavierFirst(weight, a, b)) \in Bijection(1..Cardinality(S), S)
  <1> DEFINE before == {p \in S \X S : HeavierFirst(weight, p[1], p[2])}
             f == Sorted(S, LAMBDA a, b : HeavierFirst(weight, a, b))
  <1>1. StrictOrder(before, S)
    BY DEF StrictOrder, HeavierFirst
  <1>2. \A x \in S : {y \in S : <<y, x>> \in before} = {y \in S : HeavierFirst(weight, y, x)}
    OBVIOUS
  <1>3. /\ f = [k \in 1..Cardinality(S) |-> f[k]]
        /\ \A k \in 1..Cardinality(S) :
              f[k] = CHOOSE x \in S :
                        Cardinality({y \in S : HeavierFirst(weight, y, x)}) = k - 1
    <2> DEFINE e(k) == CHOOSE x \in S :
                          Cardinality({y \in S : HeavierFirst(weight, y, x)}) = k - 1
    <2>1. f = [k \in 1..Cardinality(S) |-> e(k)]
      BY Zenon DEF Sorted
    <2>2. \A k : e(k) = CHOOSE x \in S :
                          Cardinality({y \in S : HeavierFirst(weight, y, x)}) = k - 1
      OBVIOUS
    <2> HIDE DEF e, f
    <2>3. f = [k \in 1..Cardinality(S) |-> f[k]]
      BY <2>1
    <2>4. \A k \in 1..Cardinality(S) : f[k] = e(k)
      BY <2>1
    <2> QED  BY <2>2, <2>3, <2>4, Zenon
  <1> HIDE DEF f, before
  <1>4. ASSUME NEW k \in 1..Cardinality(S),
               \E x \in S : Cardinality({y \in S : <<y, x>> \in before}) = k - 1
        PROVE  f[k] \in S /\ Cardinality({y \in S : <<y, f[k]>> \in before}) = k - 1
    <2>1. \E x \in S : Cardinality({y \in S : HeavierFirst(weight, y, x)}) = k - 1
      BY <1>2, <1>4
    <2>2. f[k] \in S /\ Cardinality({y \in S : HeavierFirst(weight, y, f[k])}) = k - 1
      BY <1>3, <2>1
    <2> QED  BY <1>2, <2>2
  <1>5. /\ f \in Bijection(1..Cardinality(S), S)
        /\ \A i, j \in 1..Cardinality(S) : i < j => <<f[i], f[j]>> \in before
    BY <1>1, <1>3, <1>4, PlacesAreTaken
  <1> QED  BY <1>5 DEF f

-----------------------------------------------------------------------------
(* Adjacent groups *)

(* The number of groups: no more than there are items, asked for, or allowed. *)
LEMMA GroupCountBounds ==
    ASSUME NEW n \in Nat, NEW t \in Nat, NEW u \in Nat
    PROVE  /\ GroupCount(n, t, u) \in {n, t, u}
           /\ GroupCount(n, t, u) <= n /\ GroupCount(n, t, u) <= t /\ GroupCount(n, t, u) <= u
  <1> DEFINE S == {n, t, u}
  <1>1. \E x \in S : \A y \in S : x <= y
    <2>1. S \subseteq Nat /\ S # {}
      OBVIOUS
    <2> HIDE DEF S
    <2> QED  BY <2>1, LeastNumber
  <1>2. Min(S) \in S /\ \A y \in S : Min(S) <= y
    <2> HIDE DEF S
    <2> QED  BY <1>1 DEF Min
  <1> QED  BY <1>2 DEF GroupCount

(* What rounding up gives. *)
LEMMA RoundedUp ==
    ASSUME NEW n \in Nat, NEW d \in Nat, d > 0
    PROVE  LET q == (n + d - 1) \div d
           IN  q \in Nat /\ n <= q * d /\ q * d <= n + d - 1
  <1> DEFINE a == n + d - 1
             q == a \div d
  <1>1. a \in Nat
    OBVIOUS
  <1> HIDE DEF a
  <1>2. q \in Nat /\ q * d <= a /\ a < q * d + d
    BY <1>1
  <1> HIDE DEF q
  <1>3. n <= q * d
    <2>1. q * d \in Nat
      BY <1>2
    <2> QED  BY <1>2, <2>1 DEF a
  <1>4. q \in Nat /\ n <= q * d /\ q * d <= n + d - 1
    BY <1>2, <1>3 DEF a
  <1> QED  BY <1>4 DEF q, a

(* The places start + 1, ..., stop of a sequence hold what SubSeq returns. *)
LEMMA RangeOfSubSeq ==
    ASSUME NEW f, NEW start \in Nat, NEW stop \in Nat
    PROVE  Range(SubSeq(f, start + 1, stop)) = {f[i] : i \in (start + 1)..stop}
  <1> DEFINE g == SubSeq(f, start + 1, stop)
             n == stop - start
  <1>1. g = [i \in 1..n |-> f[start + i]]
    <2>1. g = [i \in 1..(1 + stop - (start + 1)) |-> f[(start + 1) + i - 1]]
      OBVIOUS
    <2>2. \A i \in Int : (start + 1) + i - 1 = start + i
      OBVIOUS
    <2>3. 1 + stop - (start + 1) = n
      OBVIOUS
    <2> HIDE DEF g, n
    <2> QED  BY <2>1, <2>2, <2>3
  <1>2. ASSUME NEW i \in 1..n PROVE start + i \in (start + 1)..stop /\ g[i] = f[start + i]
    BY <1>1
  <1>3. ASSUME NEW j \in (start + 1)..stop PROVE \E i \in 1..n : start + i = j
    <2>1. j - start \in 1..n /\ start + (j - start) = j
      OBVIOUS
    <2> QED  BY <2>1
  <1>4. DOMAIN g = 1..n
    BY <1>1
  <1> HIDE DEF g, n
  <1>5. Range(g) \subseteq {f[i] : i \in (start + 1)..stop}
    BY <1>2, <1>4 DEF Range
  <1>6. ASSUME NEW j \in (start + 1)..stop PROVE f[j] \in Range(g)
    BY <1>2, <1>3, <1>4 DEF Range
  <1>7. Range(g) = {f[i] : i \in (start + 1)..stop}
    BY <1>5, <1>6
  <1> QED  BY <1>7 DEF g

(* How many there are. *)
LEMMA LengthOfSubSeq ==
    ASSUME NEW f, NEW start \in Nat, NEW stop \in Nat, start <= stop
    PROVE  Len(SubSeq(f, start + 1, stop)) = stop - start
  <1> DEFINE g == SubSeq(f, start + 1, stop)
             n == stop - start
  <1>1. g = [i \in 1..(1 + stop - (start + 1)) |-> f[(start + 1) + i - 1]]
    OBVIOUS
  <1>2. 1 + stop - (start + 1) = n /\ n \in Nat
    OBVIOUS
  <1> HIDE DEF g, n
  <1>3. DOMAIN g = 1..n /\ g = [i \in 1..n |-> g[i]]
    BY <1>1, <1>2
  <1>4. Len(g) = n
    BY <1>2, <1>3
  <1> QED  BY <1>4 DEF g, n

\* Each element is before the next
Ascending(s) == \A i, j \in DOMAIN s : i < j => s[i] < s[j]

(* Part of an ascending sequence is ascending. *)
LEMMA AscendingSubSeq ==
    ASSUME NEW S, S \subseteq Int, NEW n \in Nat, NEW f \in [1..n -> S], Ascending(f),
           NEW start \in Nat, NEW stop \in Nat, stop <= n
    PROVE  SubSeq(f, start + 1, stop) \in Seq(S) /\ Ascending(SubSeq(f, start + 1, stop))
  <1> DEFINE g == SubSeq(f, start + 1, stop)
             m == IF start <= stop THEN stop - start ELSE 0
  <1>1. g = [i \in 1..(1 + stop - (start + 1)) |-> f[(start + 1) + i - 1]]
    OBVIOUS
  <1>2. m \in Nat /\ 1..(1 + stop - (start + 1)) = 1..m
    OBVIOUS
  <1>3. \A i \in 1..m : (start + 1) + i - 1 = start + i /\ start + i \in 1..n
    OBVIOUS
  <1> HIDE DEF g, m
  <1>4. g = [i \in 1..m |-> f[start + i]]
    BY <1>1, <1>2, <1>3
  <1>5. g \in [1..m -> S]
    BY <1>3, <1>4
  <1>6. g \in Seq(S)
    BY <1>2, <1>5
  <1>7. ASSUME NEW i \in 1..m, NEW j \in 1..m, i < j PROVE g[i] < g[j]
    <2>1. start + i \in 1..n /\ start + j \in 1..n /\ start + i < start + j
      BY <1>2, <1>3, <1>7
    <2>2. DOMAIN f = 1..n
      OBVIOUS
    <2>3. f[start + i] < f[start + j]
      BY <2>1, <2>2 DEF Ascending
    <2> QED  BY <1>4, <2>3
  <1>8. Ascending(g)
    BY <1>5, <1>7 DEF Ascending
  <1> QED  BY <1>6, <1>8 DEF g

(* Places 1..n cut into m runs of g: each place is in exactly one of them. *)
LEMMA RunsCoverPlaces ==
    ASSUME NEW n \in Nat, NEW g \in Nat, g > 0, NEW m \in Nat,
           n <= m * g, m * g <= n + g - 1
    PROVE  /\ \A i \in 1..n : \E k \in 1..m : (k - 1) * g + 1 <= i /\ i <= k * g
           /\ \A i \in 1..n, k, l \in 1..m :
                 (k - 1) * g + 1 <= i /\ i <= k * g /\ (l - 1) * g + 1 <= i /\ i <= l * g
                     => k = l
           /\ \A k \in 1..m : (k - 1) * g + 1 <= n
  <1>1. \A a, b \in Nat : a < b => a * g + g <= b * g
    <2> TAKE a, b \in Nat
    <2> HAVE a < b
    <2>1. PICK c \in Nat : b = a + 1 + c
      <3>1. b - a - 1 \in Nat /\ b = a + 1 + (b - a - 1)
        OBVIOUS
      <3> QED  BY <3>1
    <2>2. b * g = a * g + g + c * g
      BY <2>1
    <2>3. c * g \in Nat /\ a * g \in Nat
      OBVIOUS
    <2> QED  BY <2>2, <2>3
  <1>2. \A k \in 1..m : /\ k - 1 \in Nat /\ k \in Nat /\ (k - 1) * g \in Nat /\ k * g \in Nat
                        /\ k * g = (k - 1) * g + g
    OBVIOUS
  <1>3. m * g \in Nat
    OBVIOUS
  <1>4. ASSUME NEW i \in 1..n PROVE \E k \in 1..m : (k - 1) * g + 1 <= i /\ i <= k * g
    <2> DEFINE q == (i - 1) \div g
    <2>1. i - 1 \in Nat /\ i \in Nat
      OBVIOUS
    <2>2. q \in Nat /\ q * g <= i - 1 /\ i - 1 < q * g + g
      BY <2>1
    <2> HIDE DEF q
    <2>3. q * g \in Nat
      BY <2>2
    <2>4. q < m
      <3>1. CASE m <= q
        <4>1. m * g <= q * g
          <5>1. CASE m = q
            BY <5>1, <2>3
          <5>2. CASE m < q
            <6>1. m * g + g <= q * g
              BY <1>1, <2>2, <5>2
            <6> QED  BY <6>1, <1>3, <2>3
          <5> QED  BY <3>1, <5>1, <5>2, <2>2
        <4> QED  BY <4>1, <1>3, <2>1, <2>2, <2>3
      <3> QED  BY <3>1, <2>2
    <2>5. q + 1 \in 1..m /\ (q + 1) - 1 = q /\ (q + 1) * g = q * g + g
      BY <2>2, <2>4
    <2>6. q * g + 1 <= i /\ i <= q * g + g
      BY <2>1, <2>2, <2>3
    <2> QED  BY <2>5, <2>6
  <1>5. ASSUME NEW i \in 1..n, NEW k \in 1..m, NEW l \in 1..m,
               (k - 1) * g + 1 <= i, i <= k * g, (l - 1) * g + 1 <= i, i <= l * g
        PROVE  k = l
    <2>1. ASSUME NEW a \in 1..m, NEW b \in 1..m, a < b, i <= a * g, (b - 1) * g + 1 <= i
          PROVE  FALSE
      <3>1. a - 1 < b - 1
        BY <2>1
      <3>2. (a - 1) * g + g <= (b - 1) * g
        BY <1>1, <1>2, <3>1
      <3>3. a * g <= (b - 1) * g
        BY <1>2, <3>2
      <3>4. i \in Nat
        OBVIOUS
      <3> QED  BY <1>2, <2>1, <3>3, <3>4
    <2>2. k \in Int /\ l \in Int
      OBVIOUS
    <2>3. ~(k < l) /\ ~(l < k)
      BY <1>5, <2>1
    <2> QED  BY <2>2, <2>3
  <1>6. ASSUME NEW k \in 1..m PROVE (k - 1) * g + 1 <= n
    <2>1. CASE k = m
      BY <1>2, <2>1
    <2>2. CASE k < m
      <3>1. k * g + g <= m * g
        BY <1>1, <1>2, <2>2
      <3> QED  BY <1>2, <1>3, <3>1
    <2> QED  BY <2>1, <2>2
  <1> QED  BY <1>4, <1>5, <1>6

\* Non-empty and disjoint sets, one for each k in 1..m, that make up S
Partitioned(part, m, S) ==
    /\ \A k \in 1..m : part[k] # {} /\ part[k] \subseteq S
    /\ \A x \in S : \E k \in 1..m : x \in part[k]
    /\ \A k, l \in 1..m : part[k] \cap part[l] # {} => k = l

\* Ascending groups that partition S, no more of them than were asked for and
\* allowed
Grouped(group, S, target, max) ==
    \E m \in Nat :
        /\ 1 <= m /\ m <= target /\ m <= max
        /\ group \in [1..m -> Seq(S)]
        /\ \A k \in 1..m : Ascending(group[k])
        /\ Partitioned([k \in 1..m |-> Range(group[k])], m, S)

(* group_adjacent_ids: the groups partition the identifiers, and there are no
   more of them than were asked for and than are allowed. *)
THEOREM AdjacentGroupsPartition ==
    ASSUME NEW ids, IsFiniteSet(ids), ids \subseteq Int, ids # {},
           NEW target \in Nat \ {0}, NEW max \in Nat \ {0}
    PROVE  Grouped(GroupAdjacentIds(ids, target, max), ids, target, max)
  <1> DEFINE n == Cardinality(ids)
             c == GroupCount(n, target, max)
             g == GroupSize(n, c)
             m == Starts(n, g)
             o == Sorted(ids, <)
             groupOf == GroupAdjacentIds(ids, target, max)
             part == [k \in 1..m |-> Range(groupOf[k])]
  <1>1. n \in Nat /\ n > 0
    BY FS_CardinalityType, FS_EmptySet
  <1>2. o \in Bijection(1..n, ids) /\ \A i, j \in 1..n : i < j => o[i] < o[j]
    BY SortedAscending
  <1>3. c \in Nat /\ c > 0 /\ c <= target /\ c <= max
    <2> HIDE DEF n
    <2> QED  BY <1>1, GroupCountBounds
  <1>4. groupOf = [k \in 1..m |-> SubSeq(o, (k - 1) * g + 1, Min({k * g, n}))]
    BY DEF GroupAdjacentIds
  <1> HIDE DEF n, c, groupOf, o
  <1>5. g \in Nat /\ n <= g * c /\ g * c <= n + c - 1
    BY <1>1, <1>3, RoundedUp DEF GroupSize
  <1> HIDE DEF g
  <1>6. g > 0
    BY <1>1, <1>3, <1>5
  <1>7. m \in Nat /\ n <= m * g /\ m * g <= n + g - 1
    BY <1>1, <1>5, <1>6, RoundedUp DEF Starts
  <1> HIDE DEF m
  <1>8. m <= c
    <2>1. CASE c < m
      <3>1. PICK d \in Nat : m = c + 1 + d
        <4>1. m - c - 1 \in Nat /\ m = c + 1 + (m - c - 1)
          BY <1>3, <1>7, <2>1
        <4> QED  BY <4>1
      <3>2. m * g = g * c + g + d * g
        BY <1>3, <1>5, <3>1
      <3>3. g * c \in Nat /\ d * g \in Nat
        BY <1>3, <1>5
      <3> QED  BY <1>1, <1>5, <1>6, <1>7, <3>2, <3>3
    <2> QED  BY <1>3, <1>7, <2>1
  <1>9. m >= 1
    <2>1. m # 0
      <3>1. 0 * g = 0
        BY <1>5
      <3> QED  BY <1>1, <1>7, <3>1
    <2> QED  BY <1>7, <2>1
  <1>10. /\ \A i \in 1..n : \E k \in 1..m : (k - 1) * g + 1 <= i /\ i <= k * g
         /\ \A i \in 1..n, k, l \in 1..m :
                (k - 1) * g + 1 <= i /\ i <= k * g /\ (l - 1) * g + 1 <= i /\ i <= l * g
                    => k = l
         /\ \A k \in 1..m : (k - 1) * g + 1 <= n
    BY <1>1, <1>5, <1>6, <1>7, RunsCoverPlaces
  <1>11. ASSUME NEW k \in 1..m
         PROVE  part[k] = {o[i] : i \in {j \in 1..n : (k - 1) * g + 1 <= j /\ j <= k * g}}
    <2> DEFINE start == (k - 1) * g
               stop == Min({k * g, n})
    <2>1. start \in Nat /\ k * g \in Nat
      BY <1>5, <1>7
    <2>2. stop \in Nat /\ \A j \in Nat : j <= stop <=> j <= k * g /\ j <= n
      <3> DEFINE a == k * g
      <3>1. a \in Nat /\ stop = Min({a, n})
        BY <2>1
      <3> HIDE DEF a
      <3>2. \E x \in {a, n} : \A y \in {a, n} : x <= y
        BY <1>1, <3>1
      <3>3. Min({a, n}) \in {a, n} /\ \A y \in {a, n} : Min({a, n}) <= y
        BY <3>2 DEF Min
      <3>4. stop \in Nat /\ \A j \in Nat : j <= stop <=> j <= a /\ j <= n
        <4> HIDE DEF stop
        <4> QED  BY <1>1, <3>1, <3>3
      <3> QED  BY <3>4 DEF a
    <2>3. part[k] = Range(SubSeq(o, start + 1, stop))
      BY <1>4
    <2> HIDE DEF stop, start, part
    <2>4. part[k] = {o[i] : i \in (start + 1)..stop}
      BY <2>1, <2>2, <2>3, RangeOfSubSeq
    <2>5. (start + 1)..stop = {j \in 1..n : start + 1 <= j /\ j <= k * g}
      BY <1>1, <2>1, <2>2
    <2> QED  BY <2>4, <2>5 DEF start
  <1>12. o \in [1..n -> ids] /\ (\A x \in ids : \E i \in 1..n : o[i] = x)
         /\ (\A i, j \in 1..n : o[i] = o[j] => i = j)
    BY <1>2 DEF Bijection, Injection, Surjection, IsInjective
  <1> HIDE DEF part
  <1>13. ASSUME NEW k \in 1..m PROVE part[k] # {} /\ part[k] \subseteq ids
    <2>1. (k - 1) * g + 1 \in 1..n /\ (k - 1) * g + 1 <= k * g
      <3>1. (k - 1) * g \in Nat /\ k * g = (k - 1) * g + g
        BY <1>5, <1>7
      <3> QED  BY <1>1, <1>5, <1>6, <1>10, <3>1
    <2>2. (k - 1) * g + 1 \in {j \in 1..n : (k - 1) * g + 1 <= j /\ j <= k * g}
      BY <2>1
    <2> DEFINE P == {j \in 1..n : (k - 1) * g + 1 <= j /\ j <= k * g}
    <2>3. part[k] = {o[i] : i \in P} /\ P # {} /\ P \subseteq 1..n
      BY <1>11, <2>2
    <2> HIDE DEF P
    <2>4. \A i \in P : o[i] \in ids /\ o[i] \in part[k]
      BY <1>12, <2>3
    <2>5. \A x \in part[k] : \E i \in P : x = o[i]
      BY <2>3
    <2> QED  BY <2>3, <2>4, <2>5
  <1>14. ASSUME NEW x \in ids PROVE \E k \in 1..m : x \in part[k]
    <2>1. PICK i \in 1..n : o[i] = x
      BY <1>12
    <2>2. PICK k \in 1..m : (k - 1) * g + 1 <= i /\ i <= k * g
      BY <1>10
    <2> QED  BY <1>11, <2>1, <2>2
  <1>15. ASSUME NEW k \in 1..m, NEW l \in 1..m, part[k] \cap part[l] # {} PROVE k = l
    <2>1. PICK x : x \in part[k] /\ x \in part[l]
      BY <1>15
    <2>2. PICK i \in 1..n : (k - 1) * g + 1 <= i /\ i <= k * g /\ x = o[i]
      BY <1>11, <2>1
    <2>3. PICK j \in 1..n : (l - 1) * g + 1 <= j /\ j <= l * g /\ x = o[j]
      BY <1>11, <2>1
    <2>4. i = j
      BY <1>12, <2>2, <2>3
    <2> QED  BY <1>10, <2>2, <2>3, <2>4
  <1>16. Partitioned(part, m, ids)
    BY <1>13, <1>14, <1>15 DEF Partitioned
  <1>17. ASSUME NEW k \in 1..m PROVE groupOf[k] \in Seq(ids) /\ Ascending(groupOf[k])
    <2> DEFINE start == (k - 1) * g
               stop == Min({k * g, n})
    <2>1. start \in Nat /\ k * g \in Nat
      BY <1>5, <1>7
    <2>2. stop \in Nat /\ stop <= n
      <3> DEFINE a == k * g
      <3>1. a \in Nat /\ stop = Min({a, n})
        BY <2>1
      <3> HIDE DEF a, stop
      <3>2. \E x \in {a, n} : \A y \in {a, n} : x <= y
        BY <1>1, <3>1
      <3>3. Min({a, n}) \in {a, n} /\ \A y \in {a, n} : Min({a, n}) <= y
        BY <3>2 DEF Min
      <3> QED  BY <1>1, <3>1, <3>3
    <2>3. groupOf[k] = SubSeq(o, start + 1, stop)
      BY <1>4
    <2> HIDE DEF start, stop
    <2>4. Ascending(o)
      BY <1>2, <1>12 DEF Ascending
    <2>5. /\ SubSeq(o, start + 1, stop) \in Seq(ids)
          /\ Ascending(SubSeq(o, start + 1, stop))
      BY ONLY <1>1, <1>12, <2>1, <2>2, <2>4, AscendingSubSeq, ids \subseteq Int
    <2> QED  BY ONLY <2>3, <2>5
  <1>18. groupOf \in [1..m -> Seq(ids)]
    BY <1>4, <1>17
  <1>19. m <= target /\ m <= max
    BY <1>3, <1>7, <1>8
  <1>20. Grouped(groupOf, ids, target, max)
    BY <1>7, <1>9, <1>16, <1>17, <1>18, <1>19 DEF part, Grouped
  <1> QED  BY <1>20 DEF groupOf

(* group_adjacent_ids keeps the order of the identifiers: each group is before the
   next one, and all but the last are equally long. *)
THEOREM AdjacentGroupsOrdered ==
    ASSUME NEW ids, IsFiniteSet(ids), ids \subseteq Int, ids # {},
           NEW target \in Nat \ {0}, NEW max \in Nat \ {0},
           NEW k \in DOMAIN GroupAdjacentIds(ids, target, max),
           NEW l \in DOMAIN GroupAdjacentIds(ids, target, max), k < l
    PROVE  LET groupOf == GroupAdjacentIds(ids, target, max)
           IN  /\ \A x \in Range(groupOf[k]), y \in Range(groupOf[l]) : x < y
               /\ Len(groupOf[k]) = Len(groupOf[1]) /\ Len(groupOf[l]) <= Len(groupOf[1])
  <1> DEFINE n == Cardinality(ids)
             c == GroupCount(n, target, max)
             g == GroupSize(n, c)
             m == Starts(n, g)
             o == Sorted(ids, <)
             groupOf == GroupAdjacentIds(ids, target, max)
             Stop(j) == Min({j * g, n})
  <1>1. n \in Nat /\ n > 0
    BY FS_CardinalityType, FS_EmptySet
  <1>2. o \in Bijection(1..n, ids) /\ \A i, j \in 1..n : i < j => o[i] < o[j]
    BY SortedAscending
  <1>3. c \in Nat /\ c > 0
    <2> HIDE DEF n
    <2> QED  BY <1>1, GroupCountBounds
  <1>4. groupOf = [j \in 1..m |-> SubSeq(o, (j - 1) * g + 1, Stop(j))]
    BY DEF GroupAdjacentIds
  <1> HIDE DEF n, c, groupOf, o
  <1>5. g \in Nat /\ n <= g * c
    BY <1>1, <1>3, RoundedUp DEF GroupSize
  <1> HIDE DEF g
  <1>6. g > 0
    BY <1>1, <1>3, <1>5
  <1>7. m \in Nat /\ n <= m * g /\ m * g <= n + g - 1
    BY <1>1, <1>5, <1>6, RoundedUp DEF Starts
  <1> HIDE DEF m
  <1>8. \A j \in 1..m : (j - 1) * g + 1 <= n
    BY <1>1, <1>5, <1>6, <1>7, RunsCoverPlaces
  <1>9. k \in 1..m /\ l \in 1..m
    BY <1>4 DEF groupOf
  <1>10. ASSUME NEW j \in 1..m
         PROVE  /\ (j - 1) * g \in Nat /\ j * g = (j - 1) * g + g /\ j * g \in Nat
                /\ Stop(j) \in {j * g, n} /\ Stop(j) <= j * g /\ Stop(j) <= n
    <2>1. (j - 1) * g \in Nat /\ j * g = (j - 1) * g + g /\ j * g \in Nat
      BY <1>5, <1>7
    <2> DEFINE a == j * g
    <2>2. a \in Nat
      BY <2>1
    <2> HIDE DEF a
    <2>3. \E x \in {a, n} : \A y \in {a, n} : x <= y
      BY <1>1, <2>2
    <2>4. Min({a, n}) \in {a, n} /\ \A y \in {a, n} : Min({a, n}) <= y
      BY <2>3 DEF Min
    <2>5. Stop(j) \in {a, n} /\ Stop(j) <= a /\ Stop(j) <= n
      BY <2>4 DEF a
    <2> QED  BY <2>1, <2>5 DEF a
  <1> HIDE DEF Stop
  <1>11. ASSUME NEW i \in 1..m, NEW j \in 1..m, i < j
         PROVE  i * g <= (j - 1) * g
    <2>1. PICK d \in Nat : j - 1 = i + d
      <3>1. (j - 1) - i \in Nat /\ j - 1 = i + ((j - 1) - i)
        BY <1>7, <1>11
      <3> QED  BY <3>1
    <2>2. (j - 1) * g = i * g + d * g /\ d * g \in Nat
      BY <1>5, <1>7, <2>1
    <2> QED  BY <1>10, <2>2
  <1>12. ASSUME NEW j \in 1..m
         PROVE  /\ Range(groupOf[j]) = {o[i] : i \in ((j - 1) * g + 1)..Stop(j)}
                /\ Len(groupOf[j]) = Stop(j) - (j - 1) * g
    <2> DEFINE start == (j - 1) * g
               stop == Stop(j)
    <2>1. start \in Nat /\ stop \in Nat /\ start + 1 <= n /\ start + 1 <= start + g
      BY <1>1, <1>5, <1>6, <1>8, <1>10
    <2>2. start <= stop
      BY <1>1, <1>5, <1>10, <2>1
    <2>3. groupOf[j] = SubSeq(o, start + 1, stop)
      BY <1>4
    <2> HIDE DEF start, stop
    <2>4. Range(groupOf[j]) = {o[i] : i \in (start + 1)..stop}
      <3>1. Range(SubSeq(o, start + 1, stop)) = {o[i] : i \in (start + 1)..stop}
        BY ONLY <2>1, RangeOfSubSeq
      <3> QED  BY ONLY <2>3, <3>1
    <2>5. Len(groupOf[j]) = stop - start
      BY <2>1, <2>2, <2>3, LengthOfSubSeq
    <2> QED  BY <2>4, <2>5 DEF start, stop
  <1>13. ASSUME NEW x \in Range(groupOf[k]), NEW y \in Range(groupOf[l]) PROVE x < y
    <2>1. PICK i \in ((k - 1) * g + 1)..Stop(k) : x = o[i]
      BY <1>9, <1>12
    <2>2. PICK j \in ((l - 1) * g + 1)..Stop(l) : y = o[j]
      BY <1>9, <1>12
    <2>3. k * g <= (l - 1) * g
      BY <1>9, <1>11
    <2>4. i \in 1..n /\ j \in 1..n /\ i < j
      BY <1>1, <1>9, <1>10, <2>3
    <2> QED  BY <1>2, <2>1, <2>2, <2>4
  <1>14. ASSUME NEW j \in 1..m PROVE Len(groupOf[j]) <= g
    <2>1. Stop(j) <= (j - 1) * g + g /\ Stop(j) \in Int /\ (j - 1) * g \in Int
      BY <1>1, <1>5, <1>10
    <2> HIDE DEF Stop
    <2> QED  BY ONLY <1>5, <1>12, <2>1, j \in 1..m
  <1>15. ASSUME NEW i \in 1..m, NEW j \in 1..m, i < j PROVE Len(groupOf[i]) = g
    <2>1. i * g < n
      <3>1. i * g <= (j - 1) * g /\ (j - 1) * g + 1 <= n
        BY <1>8, <1>11, <1>15
      <3> QED  BY <1>1, <1>10, <3>1
    <2>2. Stop(i) = i * g
      BY <1>1, <1>10, <2>1
    <2> QED  BY <1>5, <1>10, <1>12, <2>2
  <1>16. Len(groupOf[1]) = g /\ Len(groupOf[k]) = g
    <2>1. 1 \in 1..m /\ 1 < l
      BY <1>7, <1>9
    <2> QED  BY <1>9, <1>15, <2>1
  <1>17. Len(groupOf[k]) = Len(groupOf[1]) /\ Len(groupOf[l]) <= Len(groupOf[1])
    BY <1>9, <1>14, <1>16
  <1> QED  BY <1>13, <1>17 DEF groupOf

-----------------------------------------------------------------------------
(* Weighted groups *)

(* There is a lightest bucket. *)
LEMMA LightestBucketExists ==
    ASSUME NEW count \in Nat \ {0}, NEW load \in [1..count -> Nat]
    PROVE  LightestBucket(load) \in 1..count
  <1> DEFINE T == {load[i] : i \in 1..count}
  <1>1. T \subseteq Nat /\ T # {}
    <2>1. 1 \in 1..count
      OBVIOUS
    <2> QED  BY <2>1
  <1>2. PICK w \in T : \A y \in T : w <= y
    <2> HIDE DEF T
    <2> QED  BY <1>1, LeastNumber
  <1> DEFINE U == {i \in 1..count : load[i] = w}
  <1>3. U \subseteq Nat /\ U # {}
    OBVIOUS
  <1>4. PICK i \in U : \A j \in U : i <= j
    <2> HIDE DEF U, T
    <2> QED  BY <1>3, LeastNumber
  <1>5. ASSUME NEW j \in 1..count
        PROVE  load[i] < load[j] \/ (load[i] = load[j] /\ i <= j)
    <2>1. w <= load[j] /\ w \in Nat /\ load[j] \in Nat /\ load[i] = w
      BY <1>1, <1>2
    <2>2. CASE load[j] = w
      BY <1>4, <2>1, <2>2
    <2>3. CASE load[j] # w
      BY <2>1, <2>3
    <2> QED  BY <2>2, <2>3
  <1>6. i \in DOMAIN load /\ DOMAIN load = 1..count
    OBVIOUS
  <1> QED  BY <1>5, <1>6 DEF LightestBucket

\* The buckets after k items, for k up to n
IsPlacing(f, n, weight, order, count) ==
    f = [k \in 0..n |-> IF k = 0 THEN EmptyBuckets(count)
                        ELSE Place(weight, f[k - 1], order[k])]

(* Placing the items one after the other is well defined. *)
LEMMA PlacingExists ==
    ASSUME NEW n \in Nat, NEW weight, NEW order, NEW count
    PROVE  \E f : IsPlacing(f, n, weight, order, count)
  <1> DEFINE bad == {m \in Nat : ~\E f : IsPlacing(f, m, weight, order, count)}
  <1>1. ASSUME NEW m \in bad, \A y \in bad : m <= y PROVE FALSE
    <2>1. m \in Nat /\ ~\E f : IsPlacing(f, m, weight, order, count)
      OBVIOUS
    <2>2. CASE m = 0
      <3> DEFINE f == [k \in 0..0 |-> EmptyBuckets(count)]
      <3>1. \A k \in 0..0 : k = 0
        OBVIOUS
      <3>2. IsPlacing(f, 0, weight, order, count)
        BY <3>1 DEF IsPlacing
      <3> QED  BY <2>1, <2>2, <3>2
    <2>3. CASE m > 0
      <3>1. m - 1 \in Nat /\ m - 1 \notin bad
        BY <1>1, <2>1, <2>3
      <3>2. PICK h : IsPlacing(h, m - 1, weight, order, count)
        BY <3>1
      <3> HIDE DEF bad
      <3> DEFINE f == [k \in 0..m |-> IF k = m THEN Place(weight, h[m - 1], order[m]) ELSE h[k]]
      <3>3. ASSUME NEW k \in 0..m
            PROVE  f[k] = IF k = 0 THEN EmptyBuckets(count) ELSE Place(weight, f[k - 1], order[k])
        <4>1. CASE k = m
          <5>1. f[k] = Place(weight, h[m - 1], order[m]) /\ k # 0
            BY <2>3, <4>1
          <5>2. f[m - 1] = h[m - 1]
            BY <2>1, <2>3, <3>1
          <5> QED  BY <4>1, <5>1, <5>2
        <4>2. CASE k # m
          <5>1. k \in 0..(m - 1) /\ f[k] = h[k]
            BY <2>1, <4>2
          <5>2. h[k] = IF k = 0 THEN EmptyBuckets(count) ELSE Place(weight, h[k - 1], order[k])
            BY <3>2, <5>1 DEF IsPlacing
          <5>3. k # 0 => f[k - 1] = h[k - 1]
            BY <2>1, <4>2, <5>1
          <5> QED  BY <5>1, <5>2, <5>3
        <4> QED  BY <4>1, <4>2
      <3>4. f = [k \in 0..m |-> f[k]]
        OBVIOUS
      <3> HIDE DEF f
      <3>5. IsPlacing(f, m, weight, order, count)
        BY <3>3, <3>4 DEF IsPlacing
      <3> QED  BY <2>1, <3>5
    <2> QED  BY <2>1, <2>2, <2>3
  <1>2. bad = {}
    <2>1. bad \subseteq Nat
      OBVIOUS
    <2> HIDE DEF bad
    <2> QED  BY <1>1, <2>1, LeastNumber
  <1> QED  BY <1>2

\* The buckets hold what has been placed, each item in one bucket
HoldExactly(state, count, items) ==
    /\ state.load \in [1..count -> Nat]
    /\ state.bucket \in [1..count -> SUBSET items]
    /\ \A x \in items : \E i \in 1..count : x \in state.bucket[i]
    /\ \A i, j \in 1..count : state.bucket[i] \cap state.bucket[j] # {} => i = j

(* Placing an item that is in no bucket yet. *)
LEMMA PlaceHolds ==
    ASSUME NEW count \in Nat \ {0}, NEW weight, NEW items, NEW item, item \notin items,
           weight[item] \in Int, NEW state, HoldExactly(state, count, items)
    PROVE  HoldExactly(Place(weight, state, item), count, items \cup {item})
  <1> DEFINE i == LightestBucket(state.load)
             w == IF weight[item] > 0 THEN weight[item] ELSE 0
             new == Place(weight, state, item)
  <1>1. i \in 1..count
    BY LightestBucketExists DEF HoldExactly
  <1>2. w \in Nat
    OBVIOUS
  <1>3. /\ new.bucket = [state.bucket EXCEPT ![i] = @ \cup {item}]
        /\ new.load = [state.load EXCEPT ![i] = @ + w]
    BY DEF Place
  <1> HIDE DEF i, w, new
  <1>4. new.load \in [1..count -> Nat]
    BY <1>1, <1>2, <1>3 DEF HoldExactly
  <1>5. /\ new.bucket \in [1..count -> SUBSET (items \cup {item})]
        /\ new.bucket[i] = state.bucket[i] \cup {item}
        /\ \A j \in 1..count : j # i => new.bucket[j] = state.bucket[j]
    BY <1>1, <1>3 DEF HoldExactly
  <1>6. \A x \in items \cup {item} : \E j \in 1..count : x \in new.bucket[j]
    BY <1>1, <1>5 DEF HoldExactly
  <1>7. \A j \in 1..count : item \notin state.bucket[j]
    BY DEF HoldExactly
  <1>8. \A j, k \in 1..count : new.bucket[j] \cap new.bucket[k] # {} => j = k
    BY <1>1, <1>5, <1>7 DEF HoldExactly
  <1>9. HoldExactly(new, count, items \cup {item})
    BY <1>4, <1>5, <1>6, <1>8 DEF HoldExactly
  <1> QED  BY <1>9 DEF new

(* Each item ends up in exactly one bucket. *)
LEMMA BucketsPartition ==
    ASSUME NEW S, IsFiniteSet(S), S \subseteq Int, NEW weight \in [S -> Int],
           NEW count \in Nat \ {0}
    PROVE  /\ Buckets(weight, count) \in [1..count -> SUBSET S]
           /\ \A x \in S : \E i \in 1..count : x \in Buckets(weight, count)[i]
           /\ \A i, j \in 1..count :
                 Buckets(weight, count)[i] \cap Buckets(weight, count)[j] # {} => i = j
  <1> DEFINE n == Cardinality(S)
             order == Sorted(S, LAMBDA a, b : HeavierFirst(weight, a, b))
             placed == CHOOSE f : IsPlacing(f, n, weight, order, count)
             Items(k) == {order[i] : i \in 1..k}
  <1>1. n \in Nat
    BY FS_CardinalityType
  <1>2. order \in Bijection(1..n, S)
    BY SortedByWeight
  <1>3. Buckets(weight, count) = placed[n].bucket
    <2>1. DOMAIN weight = S
      OBVIOUS
    <2> QED  BY <2>1, Zenon DEF Buckets, IsPlacing
  <1> HIDE DEF n, order
  <1>4. IsPlacing(placed, n, weight, order, count)
    BY <1>1, PlacingExists
  <1> HIDE DEF placed
  <1>5. /\ order \in [1..n -> S]
        /\ \A x \in S : \E i \in 1..n : order[i] = x
        /\ \A i, j \in 1..n : order[i] = order[j] => i = j
    BY <1>2 DEF Bijection, Injection, Surjection, IsInjective
  <1> DEFINE bad == {k \in 0..n : ~HoldExactly(placed[k], count, Items(k))}
  <1>6. ASSUME NEW k \in bad, \A y \in bad : k <= y PROVE FALSE
    <2>1. k \in 0..n /\ ~HoldExactly(placed[k], count, Items(k))
      OBVIOUS
    <2>2. CASE k = 0
      <3>1. placed[k] = EmptyBuckets(count)
        BY <1>4, <2>1, <2>2 DEF IsPlacing
      <3>2. Items(k) = {}
        BY <2>2
      <3> HIDE DEF Items
      <3>3. HoldExactly(placed[k], count, {})
        BY <3>1 DEF EmptyBuckets, HoldExactly
      <3> QED  BY <2>1, <3>2, <3>3
    <2>3. CASE k # 0
      <3>1. k - 1 \in 0..n /\ k - 1 \notin bad /\ k \in 1..n
        <4> HIDE DEF bad
        <4>1. k - 1 \in 0..n /\ k \in 1..n /\ ~(k <= k - 1)
          BY <1>1, <2>1, <2>3
        <4> QED  BY <1>6, <4>1
      <3>2. HoldExactly(placed[k - 1], count, Items(k - 1))
        BY <3>1
      <3>3. placed[k] = Place(weight, placed[k - 1], order[k])
        BY <1>4, <2>1, <2>3 DEF IsPlacing
      <3>4. order[k] \notin Items(k - 1)
        BY <1>1, <1>5, <3>1
      <3>5. Items(k) = Items(k - 1) \cup {order[k]}
        <4>1. 1..k = 1..(k - 1) \cup {k}
          BY <1>1, <3>1
        <4> QED  BY <4>1
      <3>6. weight[order[k]] \in Int
        BY <1>5, <3>1
      <3> HIDE DEF Items, bad
      <3>7. HoldExactly(placed[k], count, Items(k))
        BY <3>2, <3>3, <3>4, <3>5, <3>6, PlaceHolds
      <3> QED  BY <2>1, <3>7
    <2> QED  BY <2>2, <2>3
  <1>7. bad = {}
    <2>1. bad \subseteq Nat
      BY <1>1
    <2> HIDE DEF bad
    <2> QED  BY <1>6, <2>1, LeastNumber
  <1>8. HoldExactly(placed[n], count, Items(n))
    <2>1. n \in 0..n /\ n \notin bad
      <3> HIDE DEF bad
      <3> QED  BY <1>1, <1>7
    <2> HIDE DEF Items
    <2> QED  BY <2>1
  <1>9. Items(n) = S
    <2>1. ASSUME NEW x \in S PROVE x \in Items(n)
      BY <1>5
    <2>2. ASSUME NEW x \in Items(n) PROVE x \in S
      BY <1>5
    <2> HIDE DEF Items
    <2> QED  BY <2>1, <2>2
  <1> HIDE DEF Items, bad
  <1> QED  BY <1>3, <1>8, <1>9 DEF HoldExactly

(* group_weighted_items: the groups partition the items, and there are no more
   of them than were asked for and than are allowed. *)
THEOREM WeightedGroupsPartition ==
    ASSUME NEW S, IsFiniteSet(S), S \subseteq Int, S # {}, NEW weight \in [S -> Int],
           NEW target \in Nat \ {0}, NEW max \in Nat \ {0}
    PROVE  Grouped(GroupWeightedItems(weight, target, max), S, target, max)
  <1> DEFINE count == GroupCount(Cardinality(S), target, max)
             buckets == Buckets(weight, count)
             U == {k \in 1..count : buckets[k] # {}}
             used == Sorted(U, <)
             m == Cardinality(U)
             groupOf == GroupWeightedItems(weight, target, max)
             part == [k \in 1..m |-> Range(groupOf[k])]
  <1>1. count \in Nat \ {0} /\ count <= target /\ count <= max
    <2>1. Cardinality(S) \in Nat /\ Cardinality(S) # 0
      BY FS_CardinalityType, FS_EmptySet
    <2> QED  BY <2>1, GroupCountBounds
  <1>2. groupOf = [k \in DOMAIN used |-> Sorted(buckets[used[k]], <)]
    <2>1. DOMAIN weight = S
      OBVIOUS
    <2> QED  BY <2>1, Zenon DEF GroupWeightedItems
  <1> HIDE DEF count, groupOf
  <1>3. /\ buckets \in [1..count -> SUBSET S]
        /\ \A x \in S : \E i \in 1..count : x \in buckets[i]
        /\ \A i, j \in 1..count : buckets[i] \cap buckets[j] # {} => i = j
    BY ONLY <1>1, BucketsPartition, IsFiniteSet(S), S \subseteq Int, weight \in [S -> Int]
  <1> HIDE DEF buckets
  <1>4. U \subseteq Int /\ IsFiniteSet(U) /\ m <= count /\ m \in Nat
    <2>1. IsFiniteSet(1..count) /\ Cardinality(1..count) = count
      BY <1>1, FS_Interval
    <2>2. U \in SUBSET (1..count)
      OBVIOUS
    <2> HIDE DEF U
    <2>3. IsFiniteSet(U) /\ Cardinality(U) <= count
      BY <2>1, <2>2, FS_Subset
    <2>4. Cardinality(U) \in Nat
      BY <2>3, FS_CardinalityType
    <2>5. U \subseteq Int
      BY <2>2
    <2> QED  BY <2>3, <2>4, <2>5
  <1>5. U # {}
    BY <1>3
  <1>6. m >= 1
    <2> HIDE DEF U
    <2> QED  BY <1>4, <1>5, FS_EmptySet
  <1>7. used \in Bijection(1..m, U)
    <2> HIDE DEF U
    <2> QED  BY <1>4, SortedAscending
  <1>8. \A u \in U : u \in 1..count /\ buckets[u] # {}
    OBVIOUS
  <1>9. \A i \in 1..count : buckets[i] # {} => i \in U
    OBVIOUS
  <1> HIDE DEF U, used, m
  <1>10. /\ used \in [1..m -> U] /\ DOMAIN used = 1..m
         /\ \A x \in U : \E i \in 1..m : used[i] = x
         /\ \A i, j \in 1..m : used[i] = used[j] => i = j
    BY <1>7 DEF Bijection, Injection, Surjection, IsInjective
  <1>11. ASSUME NEW B \in SUBSET S PROVE Range(Sorted(B, <)) = B
    <2>1. IsFiniteSet(B) /\ B \subseteq Int
      BY FS_Subset
    <2> DEFINE f == Sorted(B, <)
    <2>2. f \in Bijection(1..Cardinality(B), B)
      BY <2>1, SortedAscending
    <2> HIDE DEF f
    <2>3. Range(f) = B
      BY <2>2 DEF Bijection, Injection, Surjection, Range
    <2> QED  BY <2>3 DEF f
  <1>12. ASSUME NEW k \in 1..m PROVE used[k] \in 1..count /\ part[k] = buckets[used[k]]
    <2>1. used[k] \in 1..count /\ buckets[used[k]] \in SUBSET S
      BY <1>3, <1>8, <1>10
    <2>2. groupOf[k] = Sorted(buckets[used[k]], <)
      BY <1>2, <1>10
    <2> QED  BY <1>11, <2>1, <2>2
  <1>13. DOMAIN groupOf = 1..m
    BY <1>2, <1>10
  <1> HIDE DEF part
  <1>14. Partitioned(part, m, S)
    <2>1. ASSUME NEW k \in 1..m PROVE part[k] # {} /\ part[k] \subseteq S
      BY <1>3, <1>8, <1>10, <1>12
    <2>2. ASSUME NEW x \in S PROVE \E k \in 1..m : x \in part[k]
      <3>1. PICK i \in 1..count : x \in buckets[i]
        BY <1>3
      <3>2. i \in U
        BY <1>9, <3>1
      <3>3. PICK k \in 1..m : used[k] = i
        BY <1>10, <3>2
      <3> QED  BY <1>12, <3>1, <3>3
    <2>3. ASSUME NEW k \in 1..m, NEW l \in 1..m, part[k] \cap part[l] # {} PROVE k = l
      <3>1. used[k] = used[l]
        BY <1>3, <1>12, <2>3
      <3> QED  BY <1>10, <3>1
    <2> QED  BY <2>1, <2>2, <2>3 DEF Partitioned
  <1>15. m <= target /\ m <= max
    BY <1>1, <1>4
  <1>17. ASSUME NEW k \in 1..m PROVE groupOf[k] \in Seq(S) /\ Ascending(groupOf[k])
    <2> DEFINE B == buckets[used[k]]
               f == Sorted(B, <)
    <2>1. B \in SUBSET S
      BY <1>3, <1>12
    <2>2. groupOf[k] = f
      BY <1>2, <1>10
    <2> HIDE DEF B
    <2>3. IsFiniteSet(B) /\ B \subseteq Int
      BY <2>1, FS_Subset
    <2>4. /\ f \in Bijection(1..Cardinality(B), B)
          /\ \A i, j \in 1..Cardinality(B) : i < j => f[i] < f[j]
      BY <2>3, SortedAscending
    <2>5. Cardinality(B) \in Nat
      BY <2>3, FS_CardinalityType
    <2> HIDE DEF f
    <2>6. f \in [1..Cardinality(B) -> S]
      BY <2>1, <2>4 DEF Bijection, Injection
    <2>7. f \in Seq(S)
      BY <2>5, <2>6
    <2>8. Ascending(f)
      BY <2>4, <2>6 DEF Ascending
    <2> QED  BY <2>2, <2>7, <2>8
  <1>18. groupOf \in [1..m -> Seq(S)]
    BY <1>2, <1>10, <1>17
  <1>16. Grouped(groupOf, S, target, max)
    BY <1>4, <1>6, <1>14, <1>15, <1>17, <1>18 DEF part, Grouped
  <1> QED  BY <1>16 DEF groupOf

-----------------------------------------------------------------------------
(* The slices of a stream *)

\* Parts of a result of n rows
SlicesUpTo(n) == [from : 0..n, upto : 0..n]

\* Where a sequence of slices ends
LastRow(s) == IF s = << >> THEN 0 ELSE s[Len(s)].upto

\* Non-empty slices, each from where the one before it ends
Consecutive(s) ==
    \A i \in DOMAIN s :
        /\ s[i].from < s[i].upto
        /\ s[i].from = IF i = 1 THEN 0 ELSE s[i - 1].upto

(* A slice from where the others end, as YieldSlice adds it, follows them. *)
LEMMA SliceFollows ==
    ASSUME NEW n \in Nat, NEW b \in SlicesUpTo(n), NEW s \in Seq(SlicesUpTo(n)),
           Consecutive(s), b.from = LastRow(s), NEW k \in 1..(b.upto - b.from),
           NEW t, t = Append(s, [from |-> b.from, upto |-> b.from + k])
    PROVE  /\ t \in Seq(SlicesUpTo(n)) /\ Consecutive(t) /\ LastRow(t) = b.from + k
           /\ [b EXCEPT !.from = b.from + k] \in SlicesUpTo(n)
  <1> DEFINE new == [from |-> b.from, upto |-> b.from + k]
  <1>2. /\ b.from \in 0..n /\ b.upto \in 0..n
        /\ b.from + k \in 0..n /\ b.from < b.from + k /\ b.from + k <= b.upto
    BY DEF SlicesUpTo
  <1>3. [b EXCEPT !.from = b.from + k] \in SlicesUpTo(n)
    BY <1>2 DEF SlicesUpTo
  <1>4. new \in SlicesUpTo(n) /\ new.from = b.from /\ new.upto = b.from + k
    BY <1>2 DEF SlicesUpTo
  <1> HIDE DEF new
  <1>5. t \in Seq(SlicesUpTo(n)) /\ t # << >>
    BY <1>4 DEF new
  <1>6. /\ Len(s) \in Nat /\ DOMAIN s = 1..Len(s)
        /\ Len(t) = Len(s) + 1 /\ DOMAIN t = 1..(Len(s) + 1)
        /\ t[Len(s) + 1] = new
        /\ \A i \in 1..Len(s) : t[i] = s[i]
    BY <1>4 DEF new
  <1>8. LastRow(t) = new.upto
    BY <1>5, <1>6 DEF LastRow
  <1>7. Consecutive(t)
    <2>1. ASSUME NEW i \in 1..Len(s)
          PROVE  /\ t[i].from < t[i].upto
                 /\ t[i].from = IF i = 1 THEN 0 ELSE t[i - 1].upto
      BY <1>6, <2>1 DEF Consecutive
    <2>2. new.from = IF Len(s) + 1 = 1 THEN 0 ELSE t[Len(s)].upto
      <3>1. CASE s = << >>
        BY <1>4, <3>1 DEF LastRow
      <3>2. CASE s # << >>
        <4>1. Len(s) \in Nat \ {0}
          BY <3>2
        <4>2. t[Len(s)] = s[Len(s)]
          BY ONLY <1>6, <4>1
        <4>3. new.from = s[Len(s)].upto
          BY <1>4, <3>2 DEF LastRow
        <4> QED  BY <4>1, <4>2, <4>3
      <3> QED  BY <3>1, <3>2
    <2>3. new.from < new.upto
      BY <1>2, <1>4
    <2>4. ASSUME NEW i \in DOMAIN t
          PROVE  /\ t[i].from < t[i].upto
                 /\ t[i].from = IF i = 1 THEN 0 ELSE t[i - 1].upto
      <3>1. CASE i \in 1..Len(s)
        BY <2>1, <3>1
      <3>2. CASE i = Len(s) + 1
        <4>1. i = 1 <=> Len(s) + 1 = 1
          BY ONLY <1>6, <3>2
        <4>2. t[i] = new /\ i - 1 = Len(s)
          BY ONLY <1>6, <3>2
        <4> QED  BY ONLY <2>2, <2>3, <4>1, <4>2
      <3> QED  BY ONLY <1>6, <2>4, <3>1, <3>2
    <2> QED  BY <2>4 DEF Consecutive
  <1> QED  BY <1>3, <1>4, <1>5, <1>7, <1>8

(* The slices end at a position in the result. *)
LEMMA LastRowInRange ==
    ASSUME NEW n \in Nat, NEW s \in Seq(SlicesUpTo(n))
    PROVE  LastRow(s) \in 0..n
  <1>1. CASE s = << >>
    BY <1>1 DEF LastRow
  <1>2. CASE s # << >>
    <2>1. Len(s) \in 1..Len(s)
      BY <1>2
    <2>2. s[Len(s)] \in SlicesUpTo(n)
      BY <2>1
    <2> QED  BY <1>2, <2>2 DEF LastRow, SlicesUpTo
  <1> QED  BY <1>1, <1>2
=============================================================================
