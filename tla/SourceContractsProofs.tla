------------------------ MODULE SourceContractsProofs ------------------------
(***************************************************************************)
(* Proofs about what a data source keeps of what it is given, for any      *)
(* objects of the caller, any number of changes and of copies, and however *)
(* far down values are compared.  First what pickle's copies are: objects  *)
(* that nothing else refers to and that read like the ones they were made  *)
(* from.  Then the inductive invariant, with the part of the heap that     *)
(* belongs to the snapshot apart from the rest.                            *)
(***************************************************************************)
EXTENDS SourceContracts, SharedLemmas

-----------------------------------------------------------------------------
(* What can be reached *)

\* What the objects of C refer to is in C
Closed(h, C) ==
    /\ C \subseteq DOMAIN h
    /\ \A r \in C : \A i \in DOMAIN h[r].items : h[r].items[i] \in C

(* The objects of a heap are numbered, and refer to each other only. *)
LEMMA HeapFacts ==
    ASSUME NEW h, HeapOK(h)
    PROVE  /\ Len(h) \in Nat /\ DOMAIN h = 1..Len(h) /\ Closed(h, DOMAIN h)
           /\ h \in [1..Len(h) -> [kind : Kinds, items : Seq(Nat)]]
           /\ \A r \in DOMAIN h : /\ h[r].kind \in Kinds /\ h[r].items \in Seq(Nat)
                                  /\ h[r] = Object(h[r].kind, h[r].items)
                                  /\ Range(h[r].items) \subseteq DOMAIN h
  <1> DEFINE Objects == [kind : Kinds, items : Seq(Nat)]
  <1>1. h \in Seq(Objects)
    BY DEF HeapOK
  <1> HIDE DEF Objects
  <1>2. Len(h) \in Nat /\ DOMAIN h = 1..Len(h) /\ h \in [1..Len(h) -> Objects]
    BY <1>1
  <1>3. ASSUME NEW r \in DOMAIN h
        PROVE  /\ h[r].kind \in Kinds /\ h[r].items \in Seq(Nat)
               /\ h[r] = Object(h[r].kind, h[r].items)
               /\ Range(h[r].items) \subseteq DOMAIN h
    <2>1. h[r] \in Objects
      BY <1>2
    <2>2. h[r].kind \in Kinds /\ h[r].items \in Seq(Nat) /\ h[r] = Object(h[r].kind, h[r].items)
      BY <2>1 DEF Objects, Object
    <2>3. \A i \in DOMAIN h[r].items : h[r].items[i] \in DOMAIN h
      BY DEF HeapOK
    <2> QED  BY <2>2, <2>3 DEF Range
  <1>4. Closed(h, DOMAIN h)
    BY DEF Closed, HeapOK
  <1> QED  BY <1>2, <1>3, <1>4 DEF Objects

\* What is reached in n steps, for n up to m
IsWithin(f, h, refs, m) ==
    f = [n \in 0..m |->
            IF n = 0 THEN refs
            ELSE f[n - 1] \cup UNION {Range(h[r].items) : r \in f[n - 1]}]

(* Taking one step after the other is well defined. *)
LEMMA WithinExists ==
    ASSUME NEW h, NEW refs, NEW m \in Nat
    PROVE  \E f : IsWithin(f, h, refs, m)
  <1> DEFINE More(s) == s \cup UNION {Range(h[r].items) : r \in s}
             Is(f, n) == f = [k \in 0..n |-> IF k = 0 THEN refs ELSE More(f[k - 1])]
             T == {n \in Nat : \E f : Is(f, n)}
  <1> HIDE DEF More
  <1>1. 0 \in T
    <2> DEFINE f == [k \in 0..0 |-> refs]
    <2>1. \A k \in 0..0 : k = 0
      OBVIOUS
    <2>2. Is(f, 0)
      BY <2>1
    <2> QED  BY <2>2
  <1>2. ASSUME NEW n \in Nat, n \in T PROVE n + 1 \in T
    <2>1. PICK g : Is(g, n)
      BY <1>2
    <2> DEFINE f == [k \in 0..(n + 1) |-> IF k = n + 1 THEN More(g[n]) ELSE g[k]]
    <2>2. ASSUME NEW k \in 0..(n + 1)
          PROVE  f[k] = IF k = 0 THEN refs ELSE More(f[k - 1])
      <3>1. CASE k = n + 1
        <4>1. f[k] = More(g[n]) /\ k # 0 /\ f[k - 1] = g[n]
          BY <3>1
        <4> QED  BY <4>1
      <3>2. CASE k # n + 1
        <4>1. k \in 0..n /\ f[k] = g[k]
          BY <3>2
        <4>2. g[k] = IF k = 0 THEN refs ELSE More(g[k - 1])
          BY <2>1, <4>1
        <4>3. k # 0 => f[k - 1] = g[k - 1]
          BY <4>1
        <4> QED  BY <4>1, <4>2, <4>3
      <3> QED  BY <3>1, <3>2
    <2>3. f = [k \in 0..(n + 1) |-> f[k]]
      OBVIOUS
    <2> HIDE DEF f
    <2>4. Is(f, n + 1)
      BY <2>2, <2>3
    <2> QED  BY <2>4
  <1>3. m \in T
    <2> HIDE DEF T
    <2> QED  BY <1>1, <1>2, SetInduction
  <1>4. PICK f : Is(f, m)
    BY <1>3
  <1>5. IsWithin(f, h, refs, m)
    BY <1>4 DEF IsWithin, More
  <1> QED  BY <1>5

\* Where one step from the objects of a set leads, and staying
OneMore(h, s) == s \cup UNION {Range(h[r].items) : r \in s}

\* The steps that Reachable takes
Steps(f, h, refs) ==
    /\ Reachable(h, refs) = f[Len(h)]
    /\ f[0] = refs
    /\ \A n \in 0..(Len(h) - 1) : f[n + 1] = OneMore(h, f[n])

(* Reachable takes as many steps as there are objects. *)
LEMMA ReachableSteps ==
    ASSUME NEW h, HeapOK(h), NEW refs
    PROVE  \E f : Steps(f, h, refs)
  <1> DEFINE f == CHOOSE g : IsWithin(g, h, refs, Len(h))
  <1>0. Len(h) \in Nat
    BY HeapFacts
  <1>1. Reachable(h, refs) = f[Len(h)]
    BY Zenon DEF Reachable, IsWithin
  <1>2. IsWithin(f, h, refs, Len(h))
    BY <1>0, WithinExists
  <1> HIDE DEF f
  <1>3. f[0] = refs
    BY <1>0, <1>2 DEF IsWithin
  <1>4. ASSUME NEW n \in 0..(Len(h) - 1) PROVE f[n + 1] = OneMore(h, f[n])
    <2> DEFINE k == n + 1
    <2>1. k \in 0..Len(h) /\ k # 0 /\ k - 1 = n
      BY <1>0
    <2> HIDE DEF k
    <2>2. f[k] = OneMore(h, f[k - 1])
      BY <1>2, <2>1 DEF IsWithin, OneMore
    <2> QED  BY <2>1, <2>2 DEF k
  <1>5. Steps(f, h, refs)
    BY <1>1, <1>3, <1>4 DEF Steps
  <1> QED  BY <1>5

(* Reachable stays within any closed set. *)
LEMMA ReachableLeast ==
    ASSUME NEW h, HeapOK(h), NEW C, Closed(h, C), NEW refs, refs \subseteq C
    PROVE  Reachable(h, refs) \subseteq C
  <1> DEFINE N == Len(h)
  <1>0. N \in Nat
    BY HeapFacts
  <1>a. PICK f : Steps(f, h, refs)
    BY ReachableSteps
  <1>1. /\ Reachable(h, refs) = f[N]
        /\ f[0] = refs
        /\ \A n \in 0..(N - 1) : f[n + 1] = OneMore(h, f[n])
    BY <1>a DEF Steps
  <1> HIDE DEF N
  <1> DEFINE T == {n \in Nat : n <= N => f[n] \subseteq C}
  <1>2. 0 \in T
    BY <1>1
  <1>3. ASSUME NEW n \in Nat, n \in T PROVE n + 1 \in T
    <2> SUFFICES ASSUME n + 1 <= N PROVE f[n + 1] \subseteq C
      OBVIOUS
    <2>1. n <= N /\ n \in 0..(N - 1)
      BY <1>0
    <2>2. f[n] \subseteq C /\ f[n + 1] = OneMore(h, f[n])
      BY <1>1, <1>3, <2>1
    <2>3. \A r \in C : Range(h[r].items) \subseteq C
      BY DEF Closed, Range
    <2> QED  BY <2>2, <2>3 DEF OneMore
  <1>4. N \in T
    <2> HIDE DEF T
    <2> QED  BY <1>0, <1>2, <1>3, SetInduction
  <1> QED  BY <1>0, <1>1, <1>4

(* What can be reached is closed: as many steps as there are objects suffice,
   since each one that leads anywhere leads to one more object. *)
LEMMA ReachableClosed ==
    ASSUME NEW h, HeapOK(h), NEW refs, refs \subseteq DOMAIN h
    PROVE  refs \subseteq Reachable(h, refs) /\ Closed(h, Reachable(h, refs))
  <1> DEFINE N == Len(h)
             D == DOMAIN h
  <1>0. N \in Nat /\ D = 1..N /\ \A r \in D : Range(h[r].items) \subseteq D
    BY HeapFacts
  <1>a. PICK f : Steps(f, h, refs)
    BY ReachableSteps
  <1>1. /\ Reachable(h, refs) = f[N]
        /\ f[0] = refs
        /\ \A n \in 0..(N - 1) : f[n + 1] = OneMore(h, f[n])
    BY <1>a DEF Steps
  <1> HIDE DEF N, D
  <1>2. IsFiniteSet(D) /\ Cardinality(D) = N
    BY ONLY <1>0, FS_Interval
  <1>3. \A s : s \subseteq D => OneMore(h, s) \subseteq D /\ s \subseteq OneMore(h, s)
    BY <1>0 DEF OneMore
  <1>4. \A n \in 0..N : f[n] \subseteq D /\ refs \subseteq f[n]
    <2> DEFINE T == {n \in Nat : n <= N => f[n] \subseteq D /\ refs \subseteq f[n]}
    <2>1. 0 \in T
      BY <1>1 DEF D
    <2>2. ASSUME NEW n \in Nat, n \in T PROVE n + 1 \in T
      <3> SUFFICES ASSUME n + 1 <= N PROVE f[n + 1] \subseteq D /\ refs \subseteq f[n + 1]
        OBVIOUS
      <3>1. n <= N /\ n \in 0..(N - 1)
        BY <1>0
      <3>2. f[n] \subseteq D /\ refs \subseteq f[n] /\ f[n + 1] = OneMore(h, f[n])
        BY <1>1, <2>2, <3>1
      <3> QED  BY <1>3, <3>2
    <2>3. Nat \subseteq T
      <3> HIDE DEF T
      <3> QED  BY <2>1, <2>2, SetInduction
    <2> QED  BY <1>0, <2>3
  <1>5. OneMore(h, f[N]) = f[N]
    <2> SUFFICES ASSUME OneMore(h, f[N]) # f[N] PROVE FALSE
      OBVIOUS
    <2>1. ASSUME NEW n \in 0..N, OneMore(h, f[n]) = f[n] PROVE FALSE
      <3> DEFINE T == {k \in Nat : n + k <= N => f[n + k] = f[n]}
      <3>1. 0 \in T
        BY <1>0
      <3>2. ASSUME NEW k \in Nat, k \in T PROVE k + 1 \in T
        <4> SUFFICES ASSUME n + (k + 1) <= N PROVE f[n + (k + 1)] = f[n]
          OBVIOUS
        <4>1. n + k <= N /\ n + k \in 0..(N - 1) /\ (n + k) + 1 = n + (k + 1)
          BY <1>0
        <4>2. f[n + k] = f[n]
          BY <3>2, <4>1
        <4>3. f[n + (k + 1)] = OneMore(h, f[n + k])
          BY <1>1, <4>1
        <4> QED  BY <2>1, <4>2, <4>3
      <3>3. Nat \subseteq T
        <4> HIDE DEF T
        <4> QED  BY <3>1, <3>2, SetInduction
      <3>4. N - n \in Nat /\ n + (N - n) = N
        BY <1>0
      <3>5. f[N] = f[n]
        BY <1>0, <3>3, <3>4
      <3> QED  BY <2>1, <3>5
    <2> DEFINE T == {n \in Nat : n <= N => Cardinality(f[n]) >= n}
    <2>2. \A n \in 0..N : IsFiniteSet(f[n]) /\ Cardinality(f[n]) \in Nat
      BY <1>2, <1>4, FS_Subset, FS_CardinalityType
    <2>3. 0 \in T
      BY <1>0, <2>2
    <2>4. ASSUME NEW n \in Nat, n \in T PROVE n + 1 \in T
      <3> SUFFICES ASSUME n + 1 <= N PROVE Cardinality(f[n + 1]) >= n + 1
        OBVIOUS
      <3>1. n <= N /\ n \in 0..(N - 1) /\ n \in 0..N /\ n + 1 \in 0..N
        BY <1>0
      <3>2. f[n + 1] = OneMore(h, f[n]) /\ Cardinality(f[n]) >= n
        BY <1>1, <2>4, <3>1
      <3>3. f[n] \subseteq f[n + 1] /\ f[n] # f[n + 1]
        BY <1>3, <1>4, <2>1, <3>1, <3>2
      <3>4. Cardinality(f[n]) <= Cardinality(f[n + 1]) /\ Cardinality(f[n]) # Cardinality(f[n + 1])
        BY <2>2, <3>1, <3>3, FS_Subset
      <3>5. Cardinality(f[n]) \in Nat /\ Cardinality(f[n + 1]) \in Nat
        BY <2>2, <3>1
      <3> QED  BY <3>2, <3>4, <3>5
    <2>5. Cardinality(f[N]) >= N
      <3>1. Nat \subseteq T
        <4> HIDE DEF T
        <4> QED  BY <2>3, <2>4, SetInduction
      <3> QED  BY <1>0, <3>1
    <2>6. N \in 0..N
      BY <1>0
    <2>7. f[N] \subseteq D /\ Cardinality(f[N]) <= N
      BY <1>2, <1>4, <2>6, FS_Subset
    <2>8. Cardinality(f[N]) = N
      BY <1>0, <2>2, <2>5, <2>6, <2>7
    <2>9. f[N] = D
      BY <1>2, <2>7, <2>8, FS_Subset
    <2> QED  BY <1>3, <2>9
  <1>6. N \in 0..N
    BY <1>0
  <1>7. \A r \in f[N] : \A i \in DOMAIN h[r].items : h[r].items[i] \in f[N]
    BY <1>5 DEF OneMore, Range
  <1> QED  BY <1>1, <1>4, <1>6, <1>7 DEF Closed, D

-----------------------------------------------------------------------------
(* What is read from a reference *)

\* One level of what is read, given what is read below it
Level(h, below) ==
    [r \in DOMAIN h |->
        Object(h[r].kind, [i \in DOMAIN h[r].items |-> below[h[r].items[i]]])]

TopLevel(h) == [r \in DOMAIN h |-> Object(h[r].kind, << >>)]

IsReading(f, h, m) ==
    f = [d \in 0..m |-> IF d = 0 THEN TopLevel(h) ELSE Level(h, f[d - 1])]

(* Reading one level after the other is well defined. *)
LEMMA ReadingExists ==
    ASSUME NEW h, NEW m \in Nat
    PROVE  \E f : IsReading(f, h, m)
  <1> DEFINE T == {n \in Nat : \E f : IsReading(f, h, n)}
  <1>1. 0 \in T
    <2> DEFINE f == [k \in 0..0 |-> TopLevel(h)]
    <2>1. \A k \in 0..0 : k = 0
      OBVIOUS
    <2>2. IsReading(f, h, 0)
      BY <2>1 DEF IsReading
    <2> QED  BY <2>2
  <1>2. ASSUME NEW n \in Nat, n \in T PROVE n + 1 \in T
    <2>1. PICK g : IsReading(g, h, n)
      BY <1>2
    <2> DEFINE f == [k \in 0..(n + 1) |-> IF k = n + 1 THEN Level(h, g[n]) ELSE g[k]]
    <2>2. ASSUME NEW k \in 0..(n + 1)
          PROVE  f[k] = IF k = 0 THEN TopLevel(h) ELSE Level(h, f[k - 1])
      <3>1. CASE k = n + 1
        <4>1. f[k] = Level(h, g[n]) /\ k # 0 /\ f[k - 1] = g[n]
          BY <3>1
        <4> QED  BY <4>1
      <3>2. CASE k # n + 1
        <4>1. k \in 0..n /\ f[k] = g[k]
          BY <3>2
        <4>2. g[k] = IF k = 0 THEN TopLevel(h) ELSE Level(h, g[k - 1])
          BY <2>1, <4>1 DEF IsReading
        <4>3. k # 0 => f[k - 1] = g[k - 1]
          BY <4>1
        <4> QED  BY <4>1, <4>2, <4>3
      <3> QED  BY <3>1, <3>2
    <2>3. f = [k \in 0..(n + 1) |-> f[k]]
      OBVIOUS
    <2> HIDE DEF f
    <2>4. IsReading(f, h, n + 1)
      BY <2>2, <2>3 DEF IsReading
    <2> QED  BY <2>4
  <1>3. m \in T
    <2> HIDE DEF T
    <2> QED  BY <1>1, <1>2, SetInduction
  <1> QED  BY <1>3

\* How Value reads
Readings(f, h) ==
    /\ \A r : Value(h, r) = f[Depth][r]
    /\ f[0] = TopLevel(h)
    /\ \A n \in 0..(Depth - 1) : f[n + 1] = Level(h, f[n])

(* Value reads as many levels as are compared. *)
LEMMA ValueReads ==
    ASSUME NEW h
    PROVE  \E f : Readings(f, h)
  <1> DEFINE f == CHOOSE g : IsReading(g, h, Depth)
  <1>0. Depth \in Nat
    BY ContractsAssumption
  <1>1. ASSUME NEW r PROVE Value(h, r) = f[Depth][r]
    BY Zenon DEF Value, IsReading, Level, TopLevel
  <1>2. IsReading(f, h, Depth)
    BY <1>0, ReadingExists
  <1> HIDE DEF f
  <1>3. f[0] = TopLevel(h)
    BY <1>0, <1>2 DEF IsReading
  <1>4. ASSUME NEW n \in 0..(Depth - 1) PROVE f[n + 1] = Level(h, f[n])
    <2> DEFINE k == n + 1
    <2>1. k \in 0..Depth /\ k # 0 /\ k - 1 = n
      BY <1>0
    <2> HIDE DEF k
    <2>2. f[k] = Level(h, f[k - 1])
      BY <1>2, <2>1 DEF IsReading
    <2> QED  BY <2>1, <2>2 DEF k
  <1>5. Readings(f, h)
    BY <1>1, <1>3, <1>4 DEF Readings
  <1> QED  BY <1>5

\* The objects of S in the heap h look like those that m gives for them in g
Simulates(g, h, m, S) ==
    /\ Closed(h, S)
    /\ m \in [S -> DOMAIN g]
    /\ \A r \in S :
          /\ g[m[r]].kind = h[r].kind
          /\ DOMAIN g[m[r]].items = DOMAIN h[r].items
          /\ \A i \in DOMAIN h[r].items : g[m[r]].items[i] = m[h[r].items[i]]

(* Objects that look alike read alike. *)
LEMMA SimilarValue ==
    ASSUME NEW g, NEW h, NEW m, NEW S, Simulates(g, h, m, S), NEW r \in S
    PROVE  Value(g, m[r]) = Value(h, r)
  <1>0. Depth \in Nat
    BY ContractsAssumption
  <1>1. PICK e : Readings(e, g)
    BY ValueReads
  <1>2. PICK f : Readings(f, h)
    BY ValueReads
  <1> DEFINE T == {n \in Nat : n <= Depth => \A x \in S : e[n][m[x]] = f[n][x]}
  <1>s. \A x \in S : x \in DOMAIN h /\ m[x] \in DOMAIN g /\ g[m[x]].kind = h[x].kind
    BY DEF Simulates, Closed
  <1>3. 0 \in T
    <2>1. e[0] = TopLevel(g) /\ f[0] = TopLevel(h)
      BY <1>1, <1>2 DEF Readings
    <2>2. \A x \in S : TopLevel(g)[m[x]] = TopLevel(h)[x]
      BY <1>s DEF TopLevel
    <2> QED  BY <2>1, <2>2
  <1>4. ASSUME NEW n \in Nat, n \in T PROVE n + 1 \in T
    <2> SUFFICES ASSUME n + 1 <= Depth, NEW x \in S PROVE e[n + 1][m[x]] = f[n + 1][x]
      OBVIOUS
    <2>1. n <= Depth /\ n \in 0..(Depth - 1)
      BY <1>0
    <2>2. e[n + 1] = Level(g, e[n]) /\ f[n + 1] = Level(h, f[n])
      BY <1>1, <1>2, <2>1 DEF Readings
    <2>3. \A y \in S : e[n][m[y]] = f[n][y]
      BY <1>4, <2>1
    <2>4. /\ Level(g, e[n])[m[x]] =
                Object(g[m[x]].kind, [i \in DOMAIN g[m[x]].items |-> e[n][g[m[x]].items[i]]])
          /\ Level(h, f[n])[x] =
                Object(h[x].kind, [i \in DOMAIN h[x].items |-> f[n][h[x].items[i]]])
      BY <1>s DEF Level
    <2>5. /\ DOMAIN g[m[x]].items = DOMAIN h[x].items
          /\ \A i \in DOMAIN h[x].items : g[m[x]].items[i] = m[h[x].items[i]] /\ h[x].items[i] \in S
      BY DEF Simulates, Closed
    <2>6. [i \in DOMAIN g[m[x]].items |-> e[n][g[m[x]].items[i]]]
             = [i \in DOMAIN h[x].items |-> f[n][h[x].items[i]]]
      BY <2>3, <2>5
    <2> QED  BY <1>s, <2>2, <2>4, <2>6
  <1>5. Depth \in T
    <2> HIDE DEF T
    <2> QED  BY <1>0, <1>3, <1>4, SetInduction
  <1>6. e[Depth][m[r]] = f[Depth][r]
    BY <1>0, <1>5
  <1> QED  BY <1>1, <1>2, <1>6 DEF Readings

-----------------------------------------------------------------------------
(* Copies *)

\* Reference `to` in the heap g looks like `from` in the heap h
Copied(g, to, h, from) ==
    \E m, S : Simulates(g, h, m, S) /\ from \in S /\ m[from] = to

\* The heap g has all that h has, unchanged, and new objects that refer to
\* each other only
New(g, h) == (Len(h) + 1)..Len(g)
Extended(g, h) ==
    /\ HeapOK(g)
    /\ Len(h) <= Len(g)
    /\ \A r \in DOMAIN h : g[r] = h[r]
    /\ Closed(g, New(g, h))

(* A copy of a copy is a copy. *)
LEMMA CopiedTransitive ==
    ASSUME NEW f, NEW g, NEW h, NEW x, NEW y, NEW z, Copied(f, x, g, y), Copied(g, y, h, z)
    PROVE  Copied(f, x, h, z)
  <1>1. PICK m, S : Simulates(f, g, m, S) /\ y \in S /\ m[y] = x
    BY DEF Copied
  <1>2. PICK n, R : Simulates(g, h, n, R) /\ z \in R /\ n[z] = y
    BY DEF Copied
  <1> DEFINE Q == {r \in R : n[r] \in S}
             q == [r \in Q |-> m[n[r]]]
  <1>3. Closed(h, Q)
    <2>1. ASSUME NEW r \in Q, NEW i \in DOMAIN h[r].items PROVE h[r].items[i] \in Q
      <3>1. h[r].items[i] \in R /\ n[h[r].items[i]] = g[n[r]].items[i]
        BY <1>2 DEF Simulates, Closed
      <3>2. i \in DOMAIN g[n[r]].items
        BY <1>2 DEF Simulates
      <3>3. g[n[r]].items[i] \in S
        BY <1>1, <3>2 DEF Simulates, Closed
      <3> QED  BY <3>1, <3>3
    <2>2. Q \subseteq DOMAIN h
      BY <1>2 DEF Simulates, Closed
    <2> QED  BY <2>1, <2>2 DEF Closed
  <1>4. \A r \in Q : q[r] \in DOMAIN f /\ q[r] = m[n[r]] /\ n[r] \in S
    BY <1>1 DEF Simulates
  <1>5. ASSUME NEW r \in Q
        PROVE  /\ f[q[r]].kind = h[r].kind
               /\ DOMAIN f[q[r]].items = DOMAIN h[r].items
               /\ \A i \in DOMAIN h[r].items : f[q[r]].items[i] = q[h[r].items[i]]
    <2>1. /\ g[n[r]].kind = h[r].kind
          /\ DOMAIN g[n[r]].items = DOMAIN h[r].items
          /\ \A i \in DOMAIN h[r].items : g[n[r]].items[i] = n[h[r].items[i]]
      BY <1>2 DEF Simulates
    <2>2. /\ f[m[n[r]]].kind = g[n[r]].kind
          /\ DOMAIN f[m[n[r]]].items = DOMAIN g[n[r]].items
          /\ \A i \in DOMAIN g[n[r]].items : f[m[n[r]]].items[i] = m[g[n[r]].items[i]]
      BY <1>1, <1>4 DEF Simulates
    <2>3. \A i \in DOMAIN h[r].items : h[r].items[i] \in Q
      BY <1>3 DEF Closed
    <2>4. \A i \in DOMAIN h[r].items : q[h[r].items[i]] = m[n[h[r].items[i]]]
      BY <2>3
    <2> HIDE DEF q, Q
    <2> QED  BY <1>4, <2>1, <2>2, <2>4
  <1>6. q \in [Q -> DOMAIN f]
    BY <1>4
  <1>7. z \in Q /\ q[z] = x
    BY <1>1, <1>2
  <1> HIDE DEF q, Q
  <1>8. Simulates(f, h, q, Q)
    BY <1>3, <1>5, <1>6 DEF Simulates
  <1> QED  BY <1>7, <1>8 DEF Copied

(* What a heap had looks the same when the heap has been extended. *)
LEMMA ExtendedCopies ==
    ASSUME NEW g, NEW h, HeapOK(h), Extended(g, h), NEW r \in DOMAIN h
    PROVE  Copied(g, r, h, r)
  <1> DEFINE D == DOMAIN h
             m == [x \in D |-> x]
  <1>1. Closed(h, D) /\ D = 1..Len(h) /\ Len(h) \in Nat
    BY HeapFacts
  <1>2. DOMAIN g = 1..Len(g) /\ Len(g) \in Nat
    BY HeapFacts DEF Extended
  <1>3. D \subseteq DOMAIN g
    BY <1>1, <1>2 DEF Extended
  <1>4. \A x \in D : g[x] = h[x]
    BY DEF Extended
  <1>5. Simulates(g, h, m, D)
    BY <1>1, <1>3, <1>4 DEF Simulates, Closed
  <1> QED  BY <1>5 DEF Copied

(* Heaps may be extended again and again. *)
LEMMA ExtendedTransitive ==
    ASSUME NEW f, NEW g, NEW h, HeapOK(h), Extended(f, g), Extended(g, h)
    PROVE  Extended(f, h) /\ New(g, h) \subseteq New(f, h)
  <1>1. /\ Len(h) \in Nat /\ DOMAIN h = 1..Len(h)
        /\ Len(g) \in Nat /\ DOMAIN g = 1..Len(g)
        /\ Len(f) \in Nat /\ DOMAIN f = 1..Len(f)
    BY HeapFacts DEF Extended
  <1>2. Len(h) <= Len(g) /\ Len(g) <= Len(f)
    BY DEF Extended
  <1>3. \A r \in DOMAIN h : f[r] = h[r]
    BY <1>1, <1>2 DEF Extended
  <1>4. New(g, h) \subseteq New(f, h) /\ New(f, g) \subseteq New(f, h)
    BY <1>1, <1>2 DEF New
  <1>5. ASSUME NEW r \in New(f, h), NEW i \in DOMAIN f[r].items
        PROVE  f[r].items[i] \in New(f, h)
    <2>1. CASE r \in New(f, g)
      BY <1>4, <2>1 DEF Extended, Closed
    <2>2. CASE r \notin New(f, g)
      <3>1. r \in DOMAIN g /\ r \in New(g, h)
        BY <1>1, <1>2, <2>2 DEF New
      <3>2. f[r] = g[r]
        BY <3>1 DEF Extended
      <3>3. g[r].items[i] \in New(g, h)
        BY <3>1, <3>2 DEF Extended, Closed
      <3> QED  BY <1>4, <3>2, <3>3
    <2> QED  BY <2>1, <2>2
  <1>6. New(f, h) \subseteq DOMAIN f
    BY <1>1, <1>2 DEF New
  <1> QED  BY <1>1, <1>2, <1>3, <1>4, <1>5, <1>6 DEF Extended, Closed

(* A copy reads like what it was made from. *)
LEMMA CopiedValue ==
    ASSUME NEW g, NEW h, NEW to, NEW from, Copied(g, to, h, from)
    PROVE  Value(g, to) = Value(h, from)
  <1>1. PICK m, S : Simulates(g, h, m, S) /\ from \in S /\ m[from] = to
    BY DEF Copied
  <1> QED  BY <1>1, SimilarValue

(* pickle: the copy is made of new objects, and looks like the original. *)
LEMMA PickledCopies ==
    ASSUME NEW h, HeapOK(h), NEW ref \in DOMAIN h
    PROVE  LET p == Pickled(h, ref)
           IN  Extended(p.heap, h) /\ p.ref \in New(p.heap, h) /\ Copied(p.heap, p.ref, h, ref)
  <1> DEFINE N == Len(h)
             R == Reachable(h, {ref})
             old == Sorted(R, <)
             c == Cardinality(R)
             Spot(r) == CHOOSE i \in DOMAIN old : old[i] = r
             To(r) == N + Spot(r)
             Copy(i) == Object(h[old[i]].kind,
                               [k \in DOMAIN h[old[i]].items |-> To(h[old[i]].items[k])])
             copies == [i \in DOMAIN old |-> Copy(i)]
             g == h \o copies
  <1>1. Pickled(h, ref).heap = g /\ Pickled(h, ref).ref = To(ref)
    BY DEF Pickled
  <1>2. N \in Nat /\ DOMAIN h = 1..N /\ h \in Seq([kind : Kinds, items : Seq(Nat)])
    BY HeapFacts DEF HeapOK
  <1>3. Closed(h, R) /\ ref \in R
    BY ReachableClosed
  <1>4. IsFiniteSet(R) /\ R \subseteq Int /\ c \in Nat
    <2>1. R \subseteq 1..N
      BY <1>2, <1>3 DEF Closed
    <2> HIDE DEF R, N
    <2>2. IsFiniteSet(1..N) /\ 1..N \subseteq Int
      BY <1>2, FS_Interval
    <2> QED  BY ONLY <2>1, <2>2, FS_Subset, FS_CardinalityType
  <1>5. old \in Bijection(1..c, R) /\ DOMAIN old = 1..c
    <2>1. old \in Bijection(1..c, R)
      BY <1>4, SortedAscending
    <2> QED  BY <2>1 DEF Bijection, Injection, Surjection
  <1> HIDE DEF R, old, c, N
  <1>6. ASSUME NEW r \in R PROVE Spot(r) \in 1..c /\ old[Spot(r)] = r
    BY <1>5 DEF Bijection, Surjection
  <1>7. \A i \in 1..c : old[i] \in R
    BY <1>5 DEF Bijection, Surjection
  <1> HIDE DEF Spot
  <1>8. \A r \in R : To(r) \in (N + 1)..(N + c) /\ To(r) = N + Spot(r)
    BY <1>2, <1>4, <1>6
  <1>9. ASSUME NEW i \in 1..c
        PROVE  /\ Copy(i) \in [kind : Kinds, items : Seq(Nat)]
               /\ Copy(i).kind = h[old[i]].kind
               /\ DOMAIN Copy(i).items = DOMAIN h[old[i]].items
               /\ \A k \in DOMAIN h[old[i]].items :
                     /\ h[old[i]].items[k] \in R
                     /\ Copy(i).items[k] = To(h[old[i]].items[k])
               /\ Copy(i).kind # "container" => Copy(i).items = << >>
    <2> DEFINE o == h[old[i]]
    <2>1. old[i] \in R /\ old[i] \in DOMAIN h
      BY <1>3, <1>7 DEF Closed
    <2>2. o.kind \in Kinds /\ o.items \in Seq(Nat) /\ (o.kind # "container" => o.items = << >>)
      BY <2>1, HeapFacts DEF HeapOK
    <2>3. \A k \in DOMAIN o.items : o.items[k] \in R
      BY <1>3, <2>1 DEF Closed
    <2>4. \A k \in DOMAIN o.items : To(o.items[k]) \in Nat
      <3>1. \A r \in R : To(r) \in Nat
        BY <1>2, <1>4, <1>8
      <3> HIDE DEF To
      <3> QED  BY <2>3, <3>1
    <2> HIDE DEF o, To
    <2>5. [k \in DOMAIN o.items |-> To(o.items[k])] \in Seq(Nat)
      <3>1. Len(o.items) \in Nat /\ DOMAIN o.items = 1..Len(o.items)
        BY <2>2
      <3>2. [k \in DOMAIN o.items |-> To(o.items[k])] \in [1..Len(o.items) -> Nat]
        BY <2>4, <3>1
      <3> QED  BY <3>1, <3>2
    <2>6. o.items = << >> => [k \in DOMAIN o.items |-> To(o.items[k])] = << >>
      OBVIOUS
    <2>7. Copy(i) = Object(o.kind, [k \in DOMAIN o.items |-> To(o.items[k])])
      BY DEF o
    <2> HIDE DEF Copy
    <2>8. Copy(i).kind = o.kind /\ Copy(i).items = [k \in DOMAIN o.items |-> To(o.items[k])]
      BY <2>7 DEF Object
    <2>9. Copy(i) \in [kind : Kinds, items : Seq(Nat)]
      BY <2>2, <2>5, <2>7 DEF Object
    <2> QED  BY <2>2, <2>3, <2>6, <2>8, <2>9 DEF o
  <1> HIDE DEF Copy, To
  <1>10. copies \in Seq([kind : Kinds, items : Seq(Nat)]) /\ Len(copies) = c
    BY <1>4, <1>5, <1>9
  <1>11. /\ g \in Seq([kind : Kinds, items : Seq(Nat)])
         /\ Len(g) = N + c /\ DOMAIN g = 1..(N + c)
         /\ \A r \in 1..N : g[r] = h[r]
         /\ \A i \in 1..c : g[N + i] = Copy(i)
    <2> DEFINE Objects == [kind : Kinds, items : Seq(Nat)]
    <2>1. h \in Seq(Objects) /\ copies \in Seq(Objects) /\ Len(copies) = c
      BY <1>2, <1>10
    <2>2. \A i \in 1..c : copies[i] = Copy(i)
      BY <1>5
    <2>n. N = Len(h)
      BY DEF N
    <2> HIDE DEF Objects, copies
    <2>3. g \in Seq(Objects) /\ Len(g) = N + c
      BY <2>1, <2>n
    <2>4. DOMAIN g = 1..(N + c)
      BY <2>3
    <2>5. \A r \in 1..N : g[r] = h[r]
      BY <1>2, <1>4, <2>1, <2>n
    <2>6. \A i \in 1..c : g[N + i] = copies[i]
      BY <1>2, <1>4, <2>1, <2>n
    <2> QED  BY <2>2, <2>3, <2>4, <2>5, <2>6 DEF Objects
  <1> HIDE DEF g
  <1>12. New(g, h) = (N + 1)..(N + c)
    BY <1>11 DEF New, N
  <1>13. ASSUME NEW r \in (N + 1)..(N + c)
         PROVE  \E i \in 1..c : r = N + i /\ g[r] = Copy(i)
    <2>1. r - N \in 1..c /\ r = N + (r - N)
      BY <1>2, <1>4
    <2> QED  BY <1>11, <2>1
  <1>14. Closed(g, New(g, h))
    <2>1. ASSUME NEW r \in (N + 1)..(N + c), NEW k \in DOMAIN g[r].items
          PROVE  g[r].items[k] \in (N + 1)..(N + c)
      <3>1. PICK i \in 1..c : r = N + i /\ g[r] = Copy(i)
        BY <1>13
      <3> QED  BY <1>8, <1>9, <3>1
    <2>2. (N + 1)..(N + c) \subseteq DOMAIN g
      BY <1>2, <1>4, <1>11
    <2> QED  BY <1>12, <2>1, <2>2 DEF Closed
  <1>15. HeapOK(g)
    <2>1. ASSUME NEW r \in DOMAIN g
          PROVE  /\ \A i \in DOMAIN g[r].items : g[r].items[i] \in DOMAIN g
                 /\ g[r].kind # "container" => g[r].items = << >>
      <3>1. CASE r \in 1..N
        <4>1. g[r] = h[r] /\ r \in DOMAIN h
          BY <1>2, <1>11, <3>1
        <4>2. DOMAIN h \subseteq DOMAIN g
          BY <1>2, <1>4, <1>11
        <4> QED  BY <4>1, <4>2 DEF HeapOK
      <3>2. CASE r \notin 1..N
        <4>1. r \in (N + 1)..(N + c)
          BY <1>2, <1>4, <1>11, <3>2
        <4>2. PICK i \in 1..c : r = N + i /\ g[r] = Copy(i)
          BY <1>13, <4>1
        <4> QED  BY <1>9, <1>12, <1>14, <4>1, <4>2 DEF Closed
      <3> QED  BY <3>1, <3>2
    <2> QED  BY <1>11, <2>1 DEF HeapOK
  <1>16. Extended(g, h)
    <2>1. Len(h) <= Len(g)
      BY <1>2, <1>4, <1>11 DEF N
    <2> QED  BY <1>2, <1>11, <1>14, <1>15, <2>1 DEF Extended
  <1>17. Copied(g, To(ref), h, ref)
    <2> DEFINE m == [r \in R |-> To(r)]
    <2>1. m \in [R -> DOMAIN g]
      BY <1>2, <1>4, <1>8, <1>11
    <2>2. ASSUME NEW r \in R
          PROVE  /\ g[m[r]].kind = h[r].kind
                 /\ DOMAIN g[m[r]].items = DOMAIN h[r].items
                 /\ \A i \in DOMAIN h[r].items : g[m[r]].items[i] = m[h[r].items[i]]
      <3>1. Spot(r) \in 1..c /\ old[Spot(r)] = r /\ m[r] = N + Spot(r)
        BY <1>6, <1>8
      <3>2. g[m[r]] = Copy(Spot(r))
        BY <1>11, <3>1
      <3> QED  BY <1>9, <3>1, <3>2
    <2>3. m[ref] = To(ref)
      BY <1>3
    <2> HIDE DEF m
    <2>4. Simulates(g, h, m, R)
      BY <1>3, <2>1, <2>2 DEF Simulates
    <2> QED  BY <1>3, <2>3, <2>4 DEF Copied
  <1>18. To(ref) \in New(g, h)
    BY <1>3, <1>8, <1>12
  <1> QED  BY <1>1, <1>16, <1>17, <1>18

-----------------------------------------------------------------------------
(* Snapshots of mappings *)

Keys == {"a", "b", "managed", "unusable"}

\* Mappings with values in S
EntriesTo(S) == Seq([key : Keys, ref : S])

(* What the entries of a mapping are. *)
LEMMA EntryFacts ==
    ASSUME NEW S, NEW entries \in EntriesTo(S)
    PROVE  /\ Len(entries) \in Nat /\ DOMAIN entries = 1..Len(entries)
           /\ \A i \in 1..Len(entries) : entries[i].key \in Keys /\ entries[i].ref \in S
  <1> DEFINE Entries == [key : Keys, ref : S]
  <1>1. entries \in Seq(Entries)
    BY DEF EntriesTo
  <1> HIDE DEF Entries
  <1>2. /\ Len(entries) \in Nat /\ DOMAIN entries = 1..Len(entries)
        /\ \A i \in 1..Len(entries) : entries[i] \in Entries
    BY <1>1
  <1>3. \A e \in Entries : e.key \in Keys /\ e.ref \in S
    BY DEF Entries
  <1> QED  BY <1>2, <1>3

(* A mapping with values in a set has them in any larger one. *)
LEMMA EntriesToMore ==
    ASSUME NEW S, NEW R, S \subseteq R
    PROVE  EntriesTo(S) \subseteq EntriesTo(R)
  <1> DEFINE E == [key : Keys, ref : S]
             F == [key : Keys, ref : R]
  <1>1. E \subseteq F
    OBVIOUS
  <1> HIDE DEF E, F
  <1>2. ASSUME NEW s \in Seq(E) PROVE s \in Seq(F)
    <2>1. Len(s) \in Nat /\ s \in [1..Len(s) -> E]
      OBVIOUS
    <2>2. s \in [1..Len(s) -> F]
      BY <1>1, <2>1
    <2> QED  BY <2>1, <2>2
  <1> QED  BY <1>2 DEF EntriesTo, E, F

\* One more entry is copied
OneCopied(before, entry) ==
    [heap |-> Pickled(before.heap, entry.ref).heap,
     entries |-> Append(before.entries, Entry(entry.key, Pickled(before.heap, entry.ref).ref))]

NoneCopied(h) == [heap |-> h, entries |-> << >>]

IsCopying(f, h, entries, m) ==
    f = [k \in 0..m |-> IF k = 0 THEN NoneCopied(h) ELSE OneCopied(f[k - 1], entries[k])]

(* Copying one entry after the other is well defined. *)
LEMMA CopyingExists ==
    ASSUME NEW h, NEW entries, NEW m \in Nat
    PROVE  \E f : IsCopying(f, h, entries, m)
  <1> DEFINE T == {n \in Nat : \E f : IsCopying(f, h, entries, n)}
  <1>1. 0 \in T
    <2> DEFINE f == [k \in 0..0 |-> NoneCopied(h)]
    <2>1. \A k \in 0..0 : k = 0
      OBVIOUS
    <2>2. IsCopying(f, h, entries, 0)
      BY <2>1 DEF IsCopying
    <2> QED  BY <2>2
  <1>2. ASSUME NEW n \in Nat, n \in T PROVE n + 1 \in T
    <2>1. PICK g : IsCopying(g, h, entries, n)
      BY <1>2
    <2> DEFINE f == [k \in 0..(n + 1) |->
                        IF k = n + 1 THEN OneCopied(g[n], entries[k]) ELSE g[k]]
    <2>2. ASSUME NEW k \in 0..(n + 1)
          PROVE  f[k] = IF k = 0 THEN NoneCopied(h) ELSE OneCopied(f[k - 1], entries[k])
      <3>1. CASE k = n + 1
        <4>1. f[k] = OneCopied(g[n], entries[k]) /\ k # 0 /\ f[k - 1] = g[n]
          BY <3>1
        <4> QED  BY <4>1
      <3>2. CASE k # n + 1
        <4>1. k \in 0..n /\ f[k] = g[k]
          BY <3>2
        <4>2. g[k] = IF k = 0 THEN NoneCopied(h) ELSE OneCopied(g[k - 1], entries[k])
          BY <2>1, <4>1 DEF IsCopying
        <4>3. k # 0 => f[k - 1] = g[k - 1]
          BY <4>1
        <4> QED  BY <4>1, <4>2, <4>3
      <3> QED  BY <3>1, <3>2
    <2>3. f = [k \in 0..(n + 1) |-> f[k]]
      OBVIOUS
    <2> HIDE DEF f
    <2>4. IsCopying(f, h, entries, n + 1)
      BY <2>2, <2>3 DEF IsCopying
    <2> QED  BY <2>4
  <1>3. m \in T
    <2> HIDE DEF T
    <2> QED  BY <1>1, <1>2, SetInduction
  <1> QED  BY <1>3

\* The first k entries have been copied, into objects that h does not have
CopiedUpTo(s, k, h, entries) ==
    /\ Extended(s.heap, h)
    /\ s.entries \in EntriesTo(New(s.heap, h))
    /\ Len(s.entries) = k
    /\ \A i \in 1..k : /\ s.entries[i].key = entries[i].key
                       /\ Copied(s.heap, s.entries[i].ref, h, entries[i].ref)

(* One more copy leaves alone what the heap has, the earlier copies included. *)
LEMMA OneMoreCopied ==
    ASSUME NEW h, HeapOK(h), NEW entries \in EntriesTo(DOMAIN h),
           NEW k \in Nat, k + 1 <= Len(entries),
           NEW s, CopiedUpTo(s, k, h, entries)
    PROVE  CopiedUpTo(OneCopied(s, entries[k + 1]), k + 1, h, entries)
  <1> DEFINE g == s.heap
             e == entries[k + 1]
             p == Pickled(g, e.ref)
             t == OneCopied(s, e)
  <1>1. HeapOK(g) /\ Extended(g, h)
    BY DEF CopiedUpTo, Extended
  <1>2. e.key \in Keys /\ e.ref \in DOMAIN h
    <2>1. k + 1 \in 1..Len(entries)
      BY EntryFacts
    <2> QED  BY <2>1, EntryFacts
  <1>3. /\ Len(h) \in Nat /\ DOMAIN h = 1..Len(h)
        /\ Len(g) \in Nat /\ DOMAIN g = 1..Len(g) /\ Len(h) <= Len(g)
    BY <1>1, HeapFacts DEF Extended
  <1>4. e.ref \in DOMAIN g
    BY <1>2, <1>3
  <1>5. Extended(p.heap, g) /\ p.ref \in New(p.heap, g) /\ Copied(p.heap, p.ref, g, e.ref)
    BY <1>1, <1>4, PickledCopies
  <1>6. t.heap = p.heap /\ t.entries = Append(s.entries, Entry(e.key, p.ref))
    BY DEF OneCopied
  <1>7. /\ s.entries \in EntriesTo(New(g, h)) /\ Len(s.entries) = k
        /\ \A i \in 1..k : /\ s.entries[i].key = entries[i].key
                           /\ Copied(g, s.entries[i].ref, h, entries[i].ref)
    BY DEF CopiedUpTo
  <1> HIDE DEF g, e, p, t
  <1>8. Extended(p.heap, h) /\ New(g, h) \subseteq New(p.heap, h)
    BY <1>1, <1>5, ExtendedTransitive
  <1>9. HeapOK(p.heap) /\ Len(p.heap) \in Nat
    BY <1>8, HeapFacts DEF Extended
  <1>10. New(p.heap, g) \subseteq New(p.heap, h)
    BY <1>3, <1>9 DEF New
  <1>11. s.entries \in EntriesTo(New(p.heap, h))
    BY <1>7, <1>8, EntriesToMore
  <1>12. Entry(e.key, p.ref) \in [key : Keys, ref : New(p.heap, h)]
    BY <1>2, <1>5, <1>10 DEF Entry
  <1>13. t.entries \in EntriesTo(New(p.heap, h)) /\ Len(t.entries) = k + 1
    BY <1>6, <1>7, <1>11, <1>12 DEF EntriesTo
  <1>14. /\ \A i \in 1..k : t.entries[i] = s.entries[i]
         /\ t.entries[k + 1] = Entry(e.key, p.ref)
    BY <1>6, <1>7, <1>11, <1>12 DEF EntriesTo
  <1>15. ASSUME NEW i \in 1..(k + 1)
         PROVE  /\ t.entries[i].key = entries[i].key
                /\ Copied(p.heap, t.entries[i].ref, h, entries[i].ref)
    <2>1. CASE i \in 1..k
      <3>1. s.entries[i].ref \in New(g, h)
        BY <1>7, <2>1, EntryFacts
      <3>2. s.entries[i].ref \in DOMAIN g
        BY <1>3, <3>1 DEF New
      <3>3. Copied(p.heap, s.entries[i].ref, g, s.entries[i].ref)
        BY <1>1, <1>5, <3>2, ExtendedCopies
      <3>4. Copied(g, s.entries[i].ref, h, entries[i].ref)
        BY <1>7, <2>1
      <3>5. Copied(p.heap, s.entries[i].ref, h, entries[i].ref)
        BY <3>3, <3>4, CopiedTransitive
      <3> QED  BY <1>7, <1>14, <2>1, <3>5
    <2>2. CASE i = k + 1
      <3>1. Copied(g, e.ref, h, e.ref)
        BY <1>1, <1>2, ExtendedCopies
      <3>2. Copied(p.heap, p.ref, h, e.ref)
        BY <1>5, <3>1, CopiedTransitive
      <3>3. e = entries[i]
        BY <2>2 DEF e
      <3>4. t.entries[i].key = e.key /\ t.entries[i].ref = p.ref
        BY <1>14, <2>2 DEF Entry
      <3> QED  BY <3>2, <3>3, <3>4
    <2> QED  BY <2>1, <2>2
  <1>16. CopiedUpTo(t, k + 1, h, entries)
    BY <1>6, <1>8, <1>13, <1>15 DEF CopiedUpTo
  <1> QED  BY <1>16 DEF t, e

(* snapshot_serializable, for all entries of a mapping: every entry of the snapshot
   is a copy of its own in new objects, under the key it had. *)
LEMMA SnapshotCopies ==
    ASSUME NEW h, HeapOK(h), NEW entries \in EntriesTo(DOMAIN h)
    PROVE  CopiedUpTo(SnapshotAll(h, entries), Len(entries), h, entries)
  <1> DEFINE n == Len(entries)
             f == CHOOSE g : IsCopying(g, h, entries, n)
  <1>0. n \in Nat
    BY DEF EntriesTo
  <1>1. SnapshotAll(h, entries) = f[n]
    BY Zenon DEF SnapshotAll, IsCopying, NoneCopied, OneCopied
  <1>2. IsCopying(f, h, entries, n)
    BY <1>0, CopyingExists
  <1> HIDE DEF f
  <1> DEFINE T == {k \in Nat : k <= n => CopiedUpTo(f[k], k, h, entries)}
  <1>3. 0 \in T
    <2>1. f[0] = NoneCopied(h)
      BY <1>0, <1>2 DEF IsCopying
    <2>2. Len(h) \in Nat /\ New(h, h) = {}
      BY HeapFacts DEF New
    <2>3. Extended(h, h)
      BY <2>2 DEF Extended, Closed
    <2>4. CopiedUpTo(NoneCopied(h), 0, h, entries)
      BY <2>3 DEF CopiedUpTo, NoneCopied, EntriesTo
    <2> QED  BY <2>1, <2>4
  <1>4. ASSUME NEW k \in Nat, k \in T PROVE k + 1 \in T
    <2> SUFFICES ASSUME k + 1 <= n PROVE CopiedUpTo(f[k + 1], k + 1, h, entries)
      OBVIOUS
    <2> DEFINE j == k + 1
    <2>1. k <= n /\ j \in 0..n /\ j # 0 /\ j - 1 = k
      BY <1>0
    <2>2. CopiedUpTo(f[k], k, h, entries)
      BY <1>4, <2>1
    <2>j. j = k + 1
      OBVIOUS
    <2> HIDE DEF j
    <2>3. f[j] = OneCopied(f[j - 1], entries[j])
      BY <1>2, <2>1 DEF IsCopying
    <2>4. f[k + 1] = OneCopied(f[k], entries[k + 1])
      BY <2>1, <2>3, <2>j
    <2>5. k + 1 <= Len(entries)
      OBVIOUS
    <2> QED  BY <2>2, <2>4, <2>5, OneMoreCopied
  <1>5. n \in T
    <2> HIDE DEF T, n
    <2> QED  BY <1>0, <1>3, <1>4, SetInduction
  <1> QED  BY <1>0, <1>1, <1>5

(* What mappings say depends on the keys and on what is read from the values. *)
LEMMA SameValues ==
    ASSUME NEW g, NEW h, NEW S, NEW R, NEW new \in EntriesTo(S), NEW old \in EntriesTo(R),
           Len(new) = Len(old),
           \A i \in 1..Len(old) : /\ new[i].key = old[i].key
                                  /\ Value(g, new[i].ref) = Value(h, old[i].ref)
    PROVE  Values(g, new) = Values(h, old)
  <1>1. DOMAIN new = 1..Len(old) /\ DOMAIN old = 1..Len(old)
    BY EntryFacts
  <1>2. \A i \in 1..Len(old) :
            [key |-> new[i].key, value |-> Value(g, new[i].ref)]
              = [key |-> old[i].key, value |-> Value(h, old[i].ref)]
    OBVIOUS
  <1> QED  BY <1>1, <1>2 DEF Values

(* freeze_options may sort the entries: what they say stays the same. *)
LEMMA OrderedKeeps ==
    ASSUME NEW h, NEW S, NEW entries \in EntriesTo(S)
    PROVE  Ordered(entries) \in EntriesTo(S) /\ Values(h, Ordered(entries)) = Values(h, entries)
  <1> DEFINE n == Len(entries)
             back == Reverse(entries)
             Said(s, i) == [key |-> s[i].key, value |-> Value(h, s[i].ref)]
  <1>1. n \in Nat /\ DOMAIN entries = 1..n
    BY EntryFacts
  <1>2. back = [i \in 1..n |-> entries[(n - i) + 1]]
    BY DEF Reverse
  <1>3. \A i \in 1..n : (n - i) + 1 \in 1..n /\ (n - ((n - i) + 1)) + 1 = i
    BY <1>1
  <1>4. back \in EntriesTo(S)
    <2> DEFINE E == [key : Keys, ref : S]
    <2>1. entries \in Seq(E)
      BY DEF EntriesTo
    <2> HIDE DEF E, back
    <2>2. \A i \in 1..n : entries[i] \in E
      BY <2>1
    <2>3. back \in [1..n -> E]
      BY <1>2, <1>3, <2>2
    <2>4. back \in Seq(E)
      BY <1>1, <2>3
    <2> QED  BY <2>4 DEF EntriesTo, E
  <1>5. DOMAIN back = 1..n /\ \A i \in 1..n : back[i] = entries[(n - i) + 1]
    BY <1>2
  <1> HIDE DEF n, back
  <1>6. \A i \in 1..n : /\ Said(back, i) = Said(entries, (n - i) + 1)
                        /\ Said(entries, i) = Said(back, (n - i) + 1)
    BY <1>3, <1>5
  <1>7. Values(h, back) = {Said(back, i) : i \in 1..n} /\ Values(h, entries) = {Said(entries, i) : i \in 1..n}
    BY <1>1, <1>5 DEF Values
  <1> HIDE DEF Said
  <1>8. Values(h, back) = Values(h, entries)
    BY <1>3, <1>6, <1>7
  <1> QED  BY <1>4, <1>8 DEF Ordered, back

-----------------------------------------------------------------------------
(* The snapshot stays what it was *)

\* The objects that only the snapshot reaches
SnapshotOwns(own) ==
    /\ Closed(heap, own)
    /\ Closed(heap, DOMAIN heap \ own)
    /\ frozen \in EntriesTo(own)
    /\ given \in EntriesTo(DOMAIN heap \ own)
    /\ handed \in EntriesTo(DOMAIN heap \ own)

(* The inductive invariant: the heap falls into the objects of the snapshot and the
   rest, neither part refers to the other, and the caller and the drivers start
   from the rest. *)
SnapshotInv ==
    /\ HeapOK(heap)
    /\ \E own : SnapshotOwns(own)
    /\ SnapshotsIndependent

(* The caller starts with a heap in order and no snapshot. *)
LEMMA SnapshotInit == Init => SnapshotInv
  <1> SUFFICES ASSUME Init PROVE SnapshotInv
    OBVIOUS
  <1>1. SnapshotsIndependent
    BY DEF Init, SnapshotsIndependent
  <1>2. HeapOK(<<Plain>>)
    <2>1. Plain \in [kind : Kinds, items : Seq(Nat)] /\ Plain.items = << >>
      BY DEF Plain, Object, Kinds
    <2> DEFINE O == [kind : Kinds, items : Seq(Nat)]
    <2>2. <<Plain>> \in Seq(O) /\ DOMAIN <<Plain>> = {1} /\ <<Plain>>[1] = Plain
      <3> HIDE DEF O
      <3>1. Plain \in O
        BY <2>1 DEF O
      <3> QED  BY <3>1
    <2> QED  BY <2>1, <2>2 DEF HeapOK
  <1>3. HeapOK(heap) /\ given \in EntriesTo(DOMAIN heap)
    <2>1. CASE heap \in CallerHeaps /\ given \in Mappings
      <3>1. HeapOK(heap) /\ Len(heap) >= 2
        BY <2>1, ContractsAssumption
      <3>2. 1 \in DOMAIN heap /\ 2 \in DOMAIN heap
        BY <3>1, HeapFacts
      <3> DEFINE E == [key : Keys, ref : DOMAIN heap]
      <3>3. Entry("b", 1) \in E /\ Entry("a", 2) \in E /\ Entry("managed", 1) \in E
            /\ Entry("unusable", 2) \in E
        <4>1. \A key \in Keys, ref \in DOMAIN heap : Entry(key, ref) \in E
          BY DEF Entry
        <4>2. "a" \in Keys /\ "b" \in Keys /\ "managed" \in Keys /\ "unusable" \in Keys
          BY DEF Keys
        <4> HIDE DEF E
        <4> QED  BY <3>2, <4>1, <4>2
      <3> HIDE DEF E
      <3>4. Mappings \subseteq Seq(E)
        BY <3>3 DEF Mappings
      <3> QED  BY <2>1, <3>1, <3>4 DEF EntriesTo, E
    <2>2. CASE heap = <<Plain>> /\ given = << >>
      BY <1>2, <2>2 DEF EntriesTo
    <2> QED  BY <2>1, <2>2 DEF Init
  <1>4. SnapshotOwns({})
    <2>1. Closed(heap, {}) /\ Closed(heap, DOMAIN heap)
      BY <1>3, HeapFacts DEF Closed
    <2>2. DOMAIN heap \ {} = DOMAIN heap /\ frozen = << >> /\ handed = << >>
      BY DEF Init
    <2>3. << >> \in EntriesTo({}) /\ << >> \in EntriesTo(DOMAIN heap)
      BY DEF EntriesTo
    <2> QED  BY <1>3, <2>1, <2>2, <2>3 DEF SnapshotOwns
  <1> QED  BY <1>1, <1>3, <1>4 DEF SnapshotInv

(* What is refused, grouped or left alone changes no object. *)
LEMMA SnapshotUntouched ==
    ASSUME SnapshotInv, UNCHANGED <<heap, given, frozen, handed, original>>,
           pc' \in {"constructed", "planned"} => pc \in {"constructed", "planned"}
    PROVE  SnapshotInv'
  <1>1. PICK own : SnapshotOwns(own)
    BY DEF SnapshotInv
  <1>2. SnapshotOwns(own)'
    BY <1>1 DEF SnapshotOwns
  <1>3. SnapshotsIndependent'
    BY DEF SnapshotInv, SnapshotsIndependent
  <1>4. HeapOK(heap)'
    BY DEF SnapshotInv
  <1> QED  BY <1>2, <1>3, <1>4 DEF SnapshotInv

(* Extending the heap keeps its parts apart, with the new objects in either. *)
LEMMA ExtendedApart ==
    ASSUME NEW g, NEW h, HeapOK(h), Extended(g, h),
           NEW own, Closed(h, own), Closed(h, DOMAIN h \ own)
    PROVE  /\ Closed(g, own) /\ Closed(g, DOMAIN g \ own)
           /\ New(g, h) \subseteq DOMAIN g \ own
           /\ DOMAIN h \ own \subseteq DOMAIN g \ own
           /\ Closed(g, New(g, h)) /\ Closed(g, DOMAIN h) /\ DOMAIN g \ New(g, h) = DOMAIN h
  <1>1. /\ Len(h) \in Nat /\ DOMAIN h = 1..Len(h)
        /\ Len(g) \in Nat /\ DOMAIN g = 1..Len(g) /\ Len(h) <= Len(g)
    BY HeapFacts DEF Extended
  <1>2. /\ DOMAIN g \ New(g, h) = DOMAIN h /\ DOMAIN h \subseteq DOMAIN g
        /\ New(g, h) \cap DOMAIN h = {} /\ New(g, h) \subseteq DOMAIN g
    BY <1>1 DEF New
  <1>3. \A r \in DOMAIN h : g[r] = h[r]
    BY DEF Extended
  <1>4. own \subseteq DOMAIN h /\ Closed(g, New(g, h)) /\ Closed(h, DOMAIN h)
    BY HeapFacts DEF Closed, Extended
  <1>5. \A C : Closed(h, C) => Closed(g, C)
    BY <1>2, <1>3 DEF Closed
  <1>6. DOMAIN g \ own = New(g, h) \cup (DOMAIN h \ own)
    BY <1>2, <1>4
  <1>7. Closed(g, DOMAIN g \ own)
    <2>1. Closed(g, DOMAIN h \ own)
      BY <1>5
    <2> QED  BY <1>4, <1>6, <2>1 DEF Closed
  <1> QED  BY <1>2, <1>4, <1>5, <1>6, <1>7

(* Construction: the snapshot owns the objects that pickle made. *)
LEMMA SnapshotConstruct ==
    ASSUME SnapshotInv, Construct
    PROVE  SnapshotInv'
  <1> DEFINE s == SnapshotAll(heap, given)
  <1>o. PICK own : own = New(heap', heap)
    OBVIOUS
  <1>0. heap' = s.heap /\ frozen' = Ordered(s.entries) /\ given' = given /\ handed' = handed
    BY DEF Construct, Snapshot
  <1>1. PICK old : SnapshotOwns(old)
    BY DEF SnapshotInv
  <1>2. HeapOK(heap) /\ given \in EntriesTo(DOMAIN heap) /\ handed \in EntriesTo(DOMAIN heap)
    <2>1. DOMAIN heap \ old \subseteq DOMAIN heap
      OBVIOUS
    <2> QED  BY <1>1, <2>1, EntriesToMore DEF SnapshotInv, SnapshotOwns
  <1>3. CopiedUpTo(s, Len(given), heap, given)
    BY <1>2, SnapshotCopies
  <1> HIDE DEF s
  <1>4. Extended(heap', heap) /\ s.entries \in EntriesTo(own)
    BY <1>o, <1>0, <1>3 DEF CopiedUpTo
  <1>5. /\ Closed(heap', own) /\ Closed(heap', DOMAIN heap) /\ DOMAIN heap' \ own = DOMAIN heap
    <2>1. Closed(heap, old) /\ Closed(heap, DOMAIN heap \ old)
      BY <1>1 DEF SnapshotOwns
    <2> QED  BY <1>o, <1>2, <1>4, <2>1, ExtendedApart
  <1>6. frozen' \in EntriesTo(own) /\ Values(heap', frozen') = Values(heap', s.entries)
    BY <1>0, <1>4, OrderedKeeps
  <1>7. SnapshotOwns(own)'
    BY <1>0, <1>2, <1>5, <1>6 DEF SnapshotOwns
  <1>8. Values(heap', s.entries) = Values(heap, given)
    <2>1. ASSUME NEW i \in 1..Len(given)
          PROVE  /\ s.entries[i].key = given[i].key
                 /\ Value(heap', s.entries[i].ref) = Value(heap, given[i].ref)
      <3>1. s.entries[i].key = given[i].key /\ Copied(heap', s.entries[i].ref, heap, given[i].ref)
        BY <1>0, <1>3 DEF CopiedUpTo
      <3> QED  BY <3>1, CopiedValue
    <2>2. Len(s.entries) = Len(given)
      BY <1>3 DEF CopiedUpTo
    <2> QED  BY <1>2, <1>4, <2>1, <2>2, SameValues
  <1>9. SnapshotsIndependent'
    BY <1>6, <1>8 DEF Construct, SnapshotsIndependent
  <1>10. HeapOK(heap)'
    BY <1>4 DEF Extended
  <1> QED  BY <1>7, <1>9, <1>10 DEF SnapshotInv

(* A copy for a driver call or a task is not the snapshot's. *)
LEMMA SnapshotHandOut ==
    ASSUME SnapshotInv, HandOut
    PROVE  SnapshotInv'
  <1> DEFINE s == SnapshotAll(heap, frozen)
  <1>0. /\ heap' = s.heap /\ handed' = s.entries /\ frozen' = frozen /\ given' = given
        /\ original' = original /\ pc' = pc
    BY DEF HandOut
  <1>1. PICK own : SnapshotOwns(own)
    BY DEF SnapshotInv
  <1>2. HeapOK(heap) /\ frozen \in EntriesTo(DOMAIN heap)
    <2>1. own \subseteq DOMAIN heap
      BY <1>1 DEF SnapshotOwns, Closed
    <2> QED  BY <1>1, <2>1, EntriesToMore DEF SnapshotInv, SnapshotOwns
  <1>3. CopiedUpTo(s, Len(frozen), heap, frozen)
    BY <1>2, SnapshotCopies
  <1> HIDE DEF s
  <1>4. Extended(heap', heap) /\ handed' \in EntriesTo(New(heap', heap))
    BY <1>0, <1>3 DEF CopiedUpTo
  <1>5. /\ Closed(heap', own) /\ Closed(heap', DOMAIN heap' \ own)
        /\ New(heap', heap) \subseteq DOMAIN heap' \ own
        /\ DOMAIN heap \ own \subseteq DOMAIN heap' \ own
    <2>1. Closed(heap, own) /\ Closed(heap, DOMAIN heap \ own)
      BY <1>1 DEF SnapshotOwns
    <2> QED  BY <1>2, <1>4, <2>1, ExtendedApart
  <1>6. handed' \in EntriesTo(DOMAIN heap' \ own) /\ given' \in EntriesTo(DOMAIN heap' \ own)
    BY <1>0, <1>1, <1>4, <1>5, EntriesToMore DEF SnapshotOwns
  <1>7. SnapshotOwns(own)'
    BY <1>0, <1>1, <1>5, <1>6 DEF SnapshotOwns
  <1>8. Values(heap', frozen) = Values(heap, frozen)
    <2>1. ASSUME NEW i \in 1..Len(frozen)
          PROVE  Value(heap', frozen[i].ref) = Value(heap, frozen[i].ref)
      <3>1. frozen[i].ref \in DOMAIN heap
        BY <1>2, EntryFacts
      <3> QED  BY <1>2, <1>4, <3>1, ExtendedCopies, CopiedValue
    <2> QED  BY <1>2, <2>1, SameValues
  <1>9. SnapshotsIndependent'
    BY <1>0, <1>8 DEF SnapshotInv, SnapshotsIndependent
  <1>10. HeapOK(heap)'
    BY <1>4 DEF Extended
  <1> QED  BY <1>7, <1>9, <1>10 DEF SnapshotInv

\* The heap with other items in a container
WithItems(h, ref, items) == [h EXCEPT ![ref].items = items]
WithOneMore(h, ref) == Append(WithItems(h, ref, Append(h[ref].items, Len(h) + 1)), Plain)

(* A container that is emptied refers to nothing any more. *)
LEMMA Emptied ==
    ASSUME NEW h, HeapOK(h), NEW own, Closed(h, own), Closed(h, DOMAIN h \ own),
           NEW ref \in DOMAIN h \ own, h[ref].kind = "container",
           NEW g, g = WithItems(h, ref, << >>)
    PROVE  /\ HeapOK(g) /\ DOMAIN h \subseteq DOMAIN g /\ \A r \in own : g[r] = h[r]
           /\ Closed(g, own) /\ Closed(g, DOMAIN g \ own)
  <1> DEFINE Objects == [kind : Kinds, items : Seq(Nat)]
  <1>1. h \in Seq(Objects) /\ own \subseteq DOMAIN h
    BY DEF HeapOK, Closed
  <1>2. h[ref] \in Objects /\ h[ref].kind \in Kinds
    BY HeapFacts DEF Object
  <1>3. [h[ref] EXCEPT !.items = << >>] \in Objects
    <2>1. << >> \in Seq(Nat)
      OBVIOUS
    <2> QED  BY <1>2, <2>1
  <1>4. /\ g[ref].kind = "container" /\ g[ref].items = << >>
        /\ \A r \in DOMAIN h \ {ref} : g[r] = h[r]
        /\ DOMAIN g = DOMAIN h
    <2> DEFINE o == [h[ref] EXCEPT !.items = << >>]
    <2>1. o.kind = "container" /\ o.items = << >>
      BY <1>2
    <2>2. g = [h EXCEPT ![ref] = o]
      BY DEF WithItems
    <2> HIDE DEF o
    <2> QED  BY <2>1, <2>2
  <1>5. g \in Seq(Objects)
    <2> HIDE DEF Objects
    <2> QED  BY <1>1, <1>3 DEF WithItems
  <1>6. \A r \in DOMAIN g : /\ \A i \in DOMAIN g[r].items : g[r].items[i] \in DOMAIN g
                            /\ g[r].kind # "container" => g[r].items = << >>
    <2> HIDE DEF Objects
    <2>1. \A r \in DOMAIN h : /\ \A i \in DOMAIN h[r].items : h[r].items[i] \in DOMAIN h
                              /\ h[r].kind # "container" => h[r].items = << >>
      BY DEF HeapOK
    <2> QED  BY ONLY <1>4, <2>1
  <1>7. HeapOK(g)
    BY <1>5, <1>6 DEF HeapOK
  <1> HIDE DEF Objects
  <1>8. \A r \in own : g[r] = h[r]
    BY <1>1, <1>4
  <1>9. Closed(g, own)
    BY <1>1, <1>4, <1>8 DEF Closed
  <1>10. Closed(g, DOMAIN g \ own)
    BY <1>1, <1>4 DEF Closed
  <1> QED  BY <1>4, <1>7, <1>8, <1>9, <1>10

(* A container that gets another object refers to that one, too. *)
LEMMA Appended ==
    ASSUME NEW h, HeapOK(h), NEW own, Closed(h, own), Closed(h, DOMAIN h \ own),
           NEW ref \in DOMAIN h \ own, h[ref].kind = "container",
           NEW g, g = WithOneMore(h, ref)
    PROVE  /\ HeapOK(g) /\ DOMAIN h \subseteq DOMAIN g /\ \A r \in own : g[r] = h[r]
           /\ Closed(g, own) /\ Closed(g, DOMAIN g \ own)
  <1> DEFINE Objects == [kind : Kinds, items : Seq(Nat)]
             N == Len(h)
             o == [h[ref] EXCEPT !.items = Append(h[ref].items, N + 1)]
             b == [h EXCEPT ![ref] = o]
  <1>0. g = Append(b, Plain)
    BY DEF WithItems, WithOneMore
  <1>1. /\ h \in Seq(Objects) /\ own \subseteq DOMAIN h
        /\ N \in Nat /\ DOMAIN h = 1..N /\ N + 1 \notin DOMAIN h
    BY HeapFacts DEF HeapOK, Closed
  <1>2. h[ref] \in Objects /\ h[ref].items \in Seq(Nat) /\ N + 1 \in Nat
    BY <1>1, HeapFacts DEF Object
  <1>3. o \in Objects /\ o.kind = "container" /\ o.items = Append(h[ref].items, N + 1)
    <2>1. Append(h[ref].items, N + 1) \in Seq(Nat)
      BY <1>2
    <2> QED  BY <1>2, <2>1
  <1>4. Plain \in Objects /\ Plain.items = << >>
    BY DEF Plain, Object, Kinds
  <1> HIDE DEF Objects, o
  <1>5. b \in Seq(Objects) /\ Len(b) = N /\ b[ref] = o /\ \A r \in DOMAIN h \ {ref} : b[r] = h[r]
    BY <1>1, <1>3
  <1> HIDE DEF b
  <1>6. /\ g \in Seq(Objects) /\ DOMAIN g = 1..(N + 1) /\ g[N + 1] = Plain
        /\ \A r \in 1..N : g[r] = b[r]
    <2>1. b \in Seq(Objects) /\ Plain \in Objects /\ Len(b) = N /\ N \in Nat
      BY <1>1, <1>4, <1>5
    <2> HIDE DEF N
    <2>2. g \in Seq(Objects) /\ Len(g) = N + 1
      BY ONLY <1>0, <2>1
    <2>3. DOMAIN g = 1..(N + 1)
      BY ONLY <2>2, <2>1
    <2>4. g[N + 1] = Plain /\ \A r \in 1..N : g[r] = b[r]
      BY ONLY <1>0, <2>1
    <2> QED  BY <2>2, <2>3, <2>4
  <1> HIDE DEF N
  <1>7. g[ref] = o /\ \A r \in DOMAIN h \ {ref} : g[r] = h[r]
    BY <1>1, <1>5, <1>6
  <1>8. \A i \in DOMAIN o.items : o.items[i] = N + 1 \/ o.items[i] \in DOMAIN h \ own
    <2> DEFINE items == h[ref].items
    <2>1. items \in Seq(Nat) /\ o.items = Append(items, N + 1)
      BY <1>2, <1>3
    <2>2. \A i \in DOMAIN items : items[i] \in DOMAIN h \ own
      BY DEF Closed
    <2> HIDE DEF items
    <2>3. /\ DOMAIN items = 1..Len(items) /\ Len(items) \in Nat
          /\ DOMAIN o.items = 1..(Len(items) + 1)
          /\ \A i \in 1..Len(items) : o.items[i] = items[i]
          /\ o.items[Len(items) + 1] = N + 1
      BY <1>2, <2>1
    <2> QED  BY <2>2, <2>3
  <1>9. DOMAIN g = DOMAIN h \cup {N + 1} /\ DOMAIN h \subseteq DOMAIN g /\ N + 1 \in DOMAIN g \ own
    BY <1>1, <1>6
  <1>10. ASSUME NEW r \in DOMAIN g \ own, NEW i \in DOMAIN g[r].items
         PROVE  g[r].items[i] \in DOMAIN g \ own
    <2>1. CASE r = ref
      BY <1>7, <1>8, <1>9, <2>1
    <2>2. CASE r = N + 1
      BY <1>4, <1>6, <2>2
    <2>3. CASE r \in DOMAIN h \ {ref}
      <3>1. g[r] = h[r] /\ r \in DOMAIN h \ own
        BY <1>7, <2>3
      <3> QED  BY <1>9, <3>1 DEF Closed
    <2> QED  BY <1>9, <2>1, <2>2, <2>3
  <1>11. Closed(g, DOMAIN g \ own)
    BY <1>10 DEF Closed
  <1>12. \A r \in own : g[r] = h[r]
    BY <1>1, <1>7
  <1>13. Closed(g, own)
    BY <1>1, <1>9, <1>12 DEF Closed
  <1>14. \A r \in DOMAIN g : g[r].kind # "container" => g[r].items = << >>
    BY <1>3, <1>4, <1>6, <1>7, <1>9 DEF HeapOK
  <1>15. \A r \in DOMAIN g : \A i \in DOMAIN g[r].items : g[r].items[i] \in DOMAIN g
    BY <1>11, <1>13 DEF Closed
  <1>16. HeapOK(g)
    BY <1>6, <1>14, <1>15 DEF HeapOK, Objects
  <1> QED  BY <1>9, <1>11, <1>12, <1>13, <1>16

(* Changes outside of the snapshot leave it alone. *)
LEMMA SnapshotChange ==
    ASSUME SnapshotInv, NEW own, SnapshotOwns(own), NEW ref \in DOMAIN heap \ own, Change(ref)
    PROVE  SnapshotInv'
  <1>0. /\ frozen' = frozen /\ given' = given /\ handed' = handed /\ original' = original
        /\ pc' = pc /\ heap[ref].kind = "container"
    BY DEF Change
  <1>1. Closed(heap, own) /\ Closed(heap, DOMAIN heap \ own) /\ HeapOK(heap)
    BY DEF SnapshotInv, SnapshotOwns
  <1>2. /\ HeapOK(heap') /\ DOMAIN heap \subseteq DOMAIN heap'
        /\ \A r \in own : heap'[r] = heap[r]
        /\ Closed(heap', own) /\ Closed(heap', DOMAIN heap' \ own)
    <2>1. CASE heap' = [heap EXCEPT ![ref].items = << >>]
      <3>1. heap' = WithItems(heap, ref, << >>)
        BY <2>1 DEF WithItems
      <3> QED  BY <1>0, <1>1, <3>1, Emptied
    <2>2. CASE heap' = Append([heap EXCEPT ![ref].items = Append(@, Len(heap) + 1)], Plain)
      <3>1. heap' = WithOneMore(heap, ref)
        BY <2>2 DEF WithItems, WithOneMore
      <3> QED  BY <1>0, <1>1, <3>1, Appended
    <2> QED  BY <2>1, <2>2 DEF Change
  <1>3. given' \in EntriesTo(DOMAIN heap' \ own) /\ handed' \in EntriesTo(DOMAIN heap' \ own)
    <2>1. DOMAIN heap \ own \subseteq DOMAIN heap' \ own
      BY <1>2
    <2> QED  BY <1>0, <2>1, EntriesToMore DEF SnapshotOwns
  <1>4. SnapshotOwns(own)'
    BY <1>0, <1>2, <1>3 DEF SnapshotOwns
  <1>5. ASSUME NEW r \in own PROVE Value(heap', r) = Value(heap, r)
    <2> DEFINE m == [x \in own |-> x]
    <2>1. Simulates(heap', heap, m, own)
      BY <1>1, <1>2 DEF Simulates, Closed
    <2>2. m[r] = r
      OBVIOUS
    <2> HIDE DEF m
    <2> QED  BY <2>1, <2>2, SimilarValue
  <1>6. Values(heap', frozen) = Values(heap, frozen)
    <2>1. frozen \in EntriesTo(own)
      BY DEF SnapshotOwns
    <2>2. \A i \in 1..Len(frozen) : frozen[i].ref \in own
      BY <2>1, EntryFacts
    <2> QED  BY <1>5, <2>1, <2>2, SameValues
  <1>7. SnapshotsIndependent'
    BY <1>0, <1>6 DEF SnapshotInv, SnapshotsIndependent
  <1> QED  BY <1>2, <1>4, <1>7 DEF SnapshotInv

(* Whoever starts from entries outside of the snapshot stays outside of it. *)
LEMMA ReachedOutside ==
    ASSUME NEW own, HeapOK(heap), SnapshotOwns(own),
           NEW entries \in EntriesTo(DOMAIN heap \ own),
           NEW ref \in Reachable(heap, Range(Refs(entries)))
    PROVE  ref \in DOMAIN heap \ own
  <1>1. Range(Refs(entries)) \subseteq DOMAIN heap \ own
    BY EntryFacts DEF Range, Refs
  <1>2. Closed(heap, DOMAIN heap \ own)
    BY DEF SnapshotOwns
  <1> QED  BY <1>1, <1>2, ReachableLeast

(* Every step keeps the invariant. *)
LEMMA SnapshotStep == SnapshotInv /\ [Next]_vars => SnapshotInv'
  <1> SUFFICES ASSUME SnapshotInv, [Next]_vars PROVE SnapshotInv'
    OBVIOUS
  <1>0. PICK own : SnapshotOwns(own)
    BY DEF SnapshotInv
  <1>h. /\ HeapOK(heap) /\ given \in EntriesTo(DOMAIN heap \ own)
        /\ handed \in EntriesTo(DOMAIN heap \ own)
    BY <1>0 DEF SnapshotInv, SnapshotOwns
  <1>1. CASE Construct
    BY <1>1, SnapshotConstruct
  <1>2. CASE Refuse
    BY <1>2, SnapshotUntouched DEF Refuse
  <1>3. CASE Group
    BY <1>3, SnapshotUntouched DEF Group
  <1>4. CASE HandOut
    BY <1>4, SnapshotHandOut
  <1>5. CASE CallerChanges
    <2>1. PICK ref \in Reachable(heap, Range(Refs(given))) : Change(ref)
      BY <1>5 DEF CallerChanges
    <2>2. ref \in DOMAIN heap \ own
      BY <1>0, <1>h, ReachedOutside
    <2> QED  BY <1>0, <2>1, <2>2, SnapshotChange
  <1>6. CASE DriverChanges
    <2>1. PICK ref \in Reachable(heap, Range(Refs(handed))) : Change(ref)
      BY <1>6 DEF DriverChanges
    <2>2. ref \in DOMAIN heap \ own
      BY <1>0, <1>h, ReachedOutside
    <2> QED  BY <1>0, <2>1, <2>2, SnapshotChange
  <1>7. CASE UNCHANGED vars
    BY <1>7, SnapshotUntouched DEF vars
  <1> QED  BY <1>1, <1>2, <1>3, <1>4, <1>5, <1>6, <1>7 DEF Next

(* The inductive invariant holds: the objects of the snapshot are never reached by
   the caller or by a driver. *)
THEOREM SnapshotApart == Spec => []SnapshotInv
  <1> QED  BY SnapshotInit, SnapshotStep, PTL DEF Spec

(* freeze_options, freeze_query_parameters, thaw_options, QuerySpec: whatever the
   caller and the drivers do to the objects they hold, what a data source was given
   stays what it was. *)
THEOREM SnapshotsStay == Spec => []SnapshotsIndependent
  <1>1. SnapshotInv => SnapshotsIndependent
    BY DEF SnapshotInv
  <1> QED  BY <1>1, SnapshotApart, PTL

-----------------------------------------------------------------------------
(* The groups *)

(* The inductive invariant: nothing is grouped under limits that were not checked,
   and what is grouped stays. *)
GroupInv ==
    /\ IsFiniteSet(Items) /\ Items \subseteq Int /\ weight \in [Items -> Int]
    /\ pc \in {"constructed", "planned"} => LimitsValid
    /\ pc = "planned" =>
          /\ adjacent = GroupAdjacentIds(Items, limits.target, limits.max)
          /\ weighted = GroupWeightedItems(weight, limits.target, limits.max)

(* What a table is, at first. *)
LEMMA GroupInit == Init => GroupInv
  <1> SUFFICES ASSUME Init PROVE GroupInv
    OBVIOUS
  <1>1. IsFiniteSet(DOMAIN weight) /\ DOMAIN weight \subseteq Int /\ weight \in [DOMAIN weight -> Int]
    <2>1. CASE weight = [i \in {} |-> 0]
      <3>1. DOMAIN weight = {} /\ weight \in [{} -> Int]
        BY <2>1
      <3> QED  BY <3>1, FS_EmptySet
    <2>2. CASE weight \in Weights
      BY <2>2, ContractsAssumption
    <2> QED  BY <2>1, <2>2 DEF Init
  <1> QED  BY <1>1 DEF Init, GroupInv, Items

(* Limits are checked before anything is grouped, and nothing changes the groups. *)
LEMMA GroupStep == GroupInv /\ [Next]_vars => GroupInv'
  <1> SUFFICES ASSUME GroupInv, [Next]_vars PROVE GroupInv'
    OBVIOUS
  <1>1. CASE Construct
    BY <1>1 DEF Construct, Accepted, LimitsValid, GroupInv, Items
  <1>2. CASE Refuse
    BY <1>2 DEF Refuse, GroupInv, Items
  <1>3. CASE Group
    BY <1>3 DEF Group, LimitsValid, GroupInv, Items
  <1>4. CASE HandOut
    BY <1>4 DEF HandOut, LimitsValid, GroupInv, Items
  <1>5. ASSUME NEW ref, Change(ref) PROVE GroupInv'
    BY <1>5 DEF Change, LimitsValid, GroupInv, Items
  <1>6. CASE CallerChanges
    BY <1>5, <1>6 DEF CallerChanges
  <1>7. CASE DriverChanges
    BY <1>5, <1>7 DEF DriverChanges
  <1>8. CASE UNCHANGED vars
    BY <1>8 DEF vars, LimitsValid, GroupInv, Items
  <1> QED  BY <1>1, <1>2, <1>3, <1>4, <1>6, <1>7, <1>8 DEF Next

(* What the grouping lemmas say of groups, in the terms of the property. *)
LEMMA GroupedPartitions ==
    ASSUME NEW group, NEW target, NEW max, Grouped(group, Items, target, max)
    PROVE  /\ Partitions(group) /\ Len(group) <= target
           /\ group \in Seq(Seq(Items)) /\ Len(group) \in Nat
  <1>1. PICK m \in Nat :
            /\ 1 <= m /\ m <= target /\ m <= max
            /\ group \in [1..m -> Seq(Items)]
            /\ \A k \in 1..m : Ascending(group[k])
            /\ Partitioned([k \in 1..m |-> Range(group[k])], m, Items)
    BY DEF Grouped
  <1>2. DOMAIN group = 1..m /\ Len(group) = m /\ group \in Seq(Seq(Items))
    BY <1>1
  <1>3. ASSUME NEW k \in 1..m
        PROVE  /\ group[k] # << >>
               /\ Range(group[k]) \subseteq Items
               /\ \A i, j \in DOMAIN group[k] : i < j => group[k][i] < group[k][j]
    <2>1. Range(group[k]) # {} /\ Range(group[k]) \subseteq Items
      BY <1>1 DEF Partitioned
    <2>2. Range(<< >>) = {}
      BY DEF Range
    <2> QED  BY <1>1, <2>1, <2>2 DEF Ascending
  <1>4. \A k, l \in 1..m : k # l => Range(group[k]) \cap Range(group[l]) = {}
    BY <1>1 DEF Partitioned
  <1>5. \A x \in Items : \E k \in 1..m : x \in Range(group[k])
    BY <1>1 DEF Partitioned
  <1>6. UNION {Range(group[k]) : k \in 1..m} = Items
    BY <1>3, <1>5
  <1>7. Partitions(group)
    BY <1>2, <1>3, <1>4, <1>6 DEF Partitions
  <1> QED  BY <1>1, <1>2, <1>7

(* The groups that the limits allow have the property. *)
LEMMA GroupInvPartitions == GroupInv => GroupsPartition
  <1> SUFFICES ASSUME GroupInv, pc = "planned", Items # {}
               PROVE  /\ Partitions(adjacent) /\ Len(adjacent) <= limits.target
                      /\ \A k, l \in DOMAIN adjacent : k < l =>
                            \A i \in DOMAIN adjacent[k], j \in DOMAIN adjacent[l] :
                                adjacent[k][i] < adjacent[l][j]
                      /\ \A k \in 1..(Len(adjacent) - 1) : Len(adjacent[k]) = Len(adjacent[1])
                      /\ Partitions(weighted) /\ Len(weighted) <= limits.target
    BY DEF GroupsPartition, HasGroups
  <1> DEFINE t == limits.target
             x == limits.max
  <1>1. IsFiniteSet(Items) /\ Items \subseteq Int /\ weight \in [Items -> Int]
    BY DEF GroupInv
  <1>2. t \in Nat \ {0} /\ x \in Nat \ {0}
    BY ContractsAssumption DEF GroupInv, LimitsValid
  <1>3. adjacent = GroupAdjacentIds(Items, t, x) /\ weighted = GroupWeightedItems(weight, t, x)
    BY DEF GroupInv
  <1> HIDE DEF t, x
  <1>4. Grouped(adjacent, Items, t, x)
    BY <1>1, <1>2, <1>3, AdjacentGroupsPartition
  <1>5. Grouped(weighted, Items, t, x)
    BY <1>1, <1>2, <1>3, WeightedGroupsPartition
  <1>6. /\ Partitions(adjacent) /\ Len(adjacent) <= t
        /\ Partitions(weighted) /\ Len(weighted) <= t
    BY <1>4, <1>5, GroupedPartitions
  <1>7. DOMAIN adjacent = 1..Len(adjacent) /\ Len(adjacent) \in Nat
    BY <1>4, GroupedPartitions
  <1>8. ASSUME NEW k \in DOMAIN adjacent, NEW l \in DOMAIN adjacent, k < l
        PROVE  /\ \A y \in Range(adjacent[k]), z \in Range(adjacent[l]) : y < z
               /\ Len(adjacent[k]) = Len(adjacent[1])
    <2> DEFINE G == GroupAdjacentIds(Items, t, x)
    <2>1. k \in DOMAIN G /\ l \in DOMAIN G
      BY <1>3
    <2>2. /\ \A y \in Range(G[k]), z \in Range(G[l]) : y < z
          /\ Len(G[k]) = Len(G[1])
      BY ONLY <1>1, <1>2, <1>8, <2>1, Items # {}, AdjacentGroupsOrdered
    <2> QED  BY <1>3, <2>2
  <1>9. ASSUME NEW k \in DOMAIN adjacent, NEW l \in DOMAIN adjacent, k < l,
               NEW i \in DOMAIN adjacent[k], NEW j \in DOMAIN adjacent[l]
        PROVE  adjacent[k][i] < adjacent[l][j]
    <2>1. adjacent[k][i] \in Range(adjacent[k]) /\ adjacent[l][j] \in Range(adjacent[l])
      BY DEF Range
    <2> QED  BY <1>8, <1>9, <2>1
  <1>10. ASSUME NEW k \in 1..(Len(adjacent) - 1) PROVE Len(adjacent[k]) = Len(adjacent[1])
    <2>1. k \in DOMAIN adjacent /\ k + 1 \in DOMAIN adjacent /\ k < k + 1
      BY <1>7
    <2> QED  BY <1>8, <2>1
  <1> QED  BY <1>6, <1>9, <1>10 DEF t

(* ResourceLimits, group_adjacent_ids and group_weighted_items: whatever limits were
   accepted, every tablet and every partition is in exactly one task, there are no
   more tasks than target_tasks, and those of Doris hold consecutive tablets. *)
THEOREM GroupsPartitionAlways == Spec => []GroupsPartition
  <1>1. Init => GroupInv
    BY GroupInit
  <1>2. GroupInv /\ [Next]_vars => GroupInv'
    BY GroupStep
  <1> QED  BY <1>1, <1>2, GroupInvPartitions, PTL DEF Spec

-----------------------------------------------------------------------------
(* What is reached, from more or fewer objects and in copies *)

(* What can be reached from what can be reached can be reached. *)
LEMMA ReachableWithin ==
    ASSUME NEW h, HeapOK(h), NEW refs, refs \subseteq DOMAIN h,
           NEW more, more \subseteq Reachable(h, refs)
    PROVE  Reachable(h, more) \subseteq Reachable(h, refs)
  <1> QED  BY ReachableClosed, ReachableLeast

(* What an object reaches is itself and what it contains. *)
LEMMA ReachableUnfold ==
    ASSUME NEW h, HeapOK(h), NEW r \in DOMAIN h
    PROVE  Reachable(h, {r}) = {r} \cup Reachable(h, Range(h[r].items))
  <1> DEFINE I == Range(h[r].items)
             A == Reachable(h, {r})
             B == Reachable(h, I)
  <1>1. I \subseteq DOMAIN h /\ {r} \subseteq DOMAIN h
    BY HeapFacts
  <1>2. I \subseteq B /\ Closed(h, B) /\ r \in A /\ Closed(h, A)
    BY <1>1, ReachableClosed
  <1>3. I \subseteq A
    BY <1>2 DEF Closed, Range
  <1>4. B \subseteq A
    BY <1>1, <1>3, ReachableWithin
  <1>5. Closed(h, {r} \cup B)
    BY <1>2 DEF Closed, Range
  <1>6. A \subseteq {r} \cup B
    <2>1. {r} \subseteq {r} \cup B
      OBVIOUS
    <2> HIDE DEF B
    <2> QED  BY <1>5, <2>1, ReachableLeast
  <1> QED  BY <1>2, <1>4, <1>6

(* What several objects reach is what one of them reaches. *)
LEMMA ReachableUnion ==
    ASSUME NEW h, HeapOK(h), NEW refs, refs \subseteq DOMAIN h, NEW x
    PROVE  x \in Reachable(h, refs) <=> \E r \in refs : x \in Reachable(h, {r})
  <1> DEFINE U == UNION {Reachable(h, {r}) : r \in refs}
  <1>1. \A r \in refs : r \in Reachable(h, {r}) /\ Closed(h, Reachable(h, {r}))
    BY ReachableClosed
  <1>2. Closed(h, U) /\ refs \subseteq U
    BY <1>1 DEF Closed
  <1>3. ASSUME NEW r \in refs PROVE Reachable(h, {r}) \subseteq Reachable(h, refs)
    <2>1. refs \subseteq Reachable(h, refs)
      BY ReachableClosed
    <2>2. {r} \subseteq Reachable(h, refs)
      BY <2>1
    <2> QED  BY <2>2, ReachableWithin
  <1>4. Reachable(h, refs) \subseteq U
    <2> HIDE DEF U
    <2> QED  BY <1>2, ReachableLeast
  <1> QED  BY <1>3, <1>4

(* New objects change nothing about what the old ones reach. *)
LEMMA ExtendedReach ==
    ASSUME NEW g, NEW h, HeapOK(h), Extended(g, h), NEW refs, refs \subseteq DOMAIN h
    PROVE  Reachable(g, refs) = Reachable(h, refs)
  <1>1. HeapOK(g) /\ DOMAIN h \subseteq DOMAIN g /\ \A r \in DOMAIN h : g[r] = h[r]
    BY HeapFacts DEF Extended
  <1>2. \A C : C \subseteq DOMAIN h => (Closed(g, C) <=> Closed(h, C))
    BY <1>1 DEF Closed
  <1>3. refs \subseteq Reachable(h, refs) /\ Closed(h, Reachable(h, refs))
    BY ReachableClosed
  <1>4. Closed(g, Reachable(h, refs)) /\ Reachable(h, refs) \subseteq DOMAIN h
    BY <1>2, <1>3 DEF Closed
  <1>5. Reachable(g, refs) \subseteq Reachable(h, refs)
    BY <1>1, <1>3, <1>4, ReachableLeast
  <1>6. refs \subseteq Reachable(g, refs) /\ Closed(g, Reachable(g, refs))
    BY <1>1, ReachableClosed
  <1>7. Closed(h, Reachable(g, refs))
    BY <1>2, <1>4, <1>5, <1>6
  <1>8. Reachable(h, refs) \subseteq Reachable(g, refs)
    BY <1>6, <1>7, ReachableLeast
  <1> QED  BY <1>5, <1>8

(* New objects make no old one part of a cycle. *)
LEMMA ExtendedCycles ==
    ASSUME NEW g, NEW h, HeapOK(h), Extended(g, h), NEW refs, refs \subseteq DOMAIN h
    PROVE  Cyclic(g, refs) <=> Cyclic(h, refs)
  <1>1. Reachable(g, refs) = Reachable(h, refs)
    BY ExtendedReach
  <1>2. Reachable(h, refs) \subseteq DOMAIN h
    BY ReachableClosed DEF Closed
  <1>3. ASSUME NEW r \in DOMAIN h PROVE Inside(g, r) = Inside(h, r)
    <2>1. Range(h[r].items) \subseteq DOMAIN h
      BY HeapFacts
    <2>2. g[r] = h[r]
      BY DEF Extended
    <2>3. Reachable(g, Range(h[r].items)) = Reachable(h, Range(h[r].items))
      BY <2>1, ExtendedReach
    <2> QED  BY <2>2, <2>3 DEF Inside
  <1> QED  BY <1>1, <1>2, <1>3 DEF Cyclic

KindsFrom(h, refs) == {h[r].kind : r \in Reachable(h, refs)}

(* A copy is made of the kinds of objects that the original is made of. *)
LEMMA CopiedKinds ==
    ASSUME NEW g, NEW h, HeapOK(g), HeapOK(h),
           NEW to \in DOMAIN g, NEW from \in DOMAIN h, Copied(g, to, h, from)
    PROVE  KindsFrom(g, {to}) = KindsFrom(h, {from})
  <1>1. PICK m, S : Simulates(g, h, m, S) /\ from \in S /\ m[from] = to
    BY DEF Copied
  <1> DEFINE A == Reachable(g, {to})
             B == Reachable(h, {from})
             C == {x \in S : m[x] \in A}
             D == {m[x] : x \in B}
  <1>2. to \in A /\ Closed(g, A) /\ from \in B /\ Closed(h, B)
    BY ReachableClosed
  <1>3. B \subseteq S
    BY <1>1, ReachableLeast DEF Simulates
  <1>4. Closed(h, C) /\ from \in C
    <2> HIDE DEF A
    <2>1. ASSUME NEW x \in C, NEW i \in DOMAIN h[x].items PROVE h[x].items[i] \in C
      <3>1. h[x].items[i] \in S /\ m[h[x].items[i]] = g[m[x]].items[i] /\ i \in DOMAIN g[m[x]].items
        BY <1>1 DEF Simulates, Closed
      <3>2. g[m[x]].items[i] \in A
        BY <1>2, <3>1 DEF Closed
      <3> QED  BY <3>1, <3>2
    <2>2. C \subseteq DOMAIN h
      BY <1>1 DEF Simulates, Closed
    <2> QED  BY <1>1, <1>2, <2>1, <2>2 DEF Closed
  <1>5. B \subseteq C
    <2> HIDE DEF C
    <2> QED  BY <1>4, ReachableLeast
  <1>6. Closed(g, D) /\ to \in D
    <2> HIDE DEF B
    <2>1. ASSUME NEW x \in B, NEW i \in DOMAIN g[m[x]].items PROVE g[m[x]].items[i] \in D
      <3>1. g[m[x]].items[i] = m[h[x].items[i]] /\ i \in DOMAIN h[x].items
        BY <1>1, <1>3 DEF Simulates
      <3>2. h[x].items[i] \in B
        BY <1>2, <3>1 DEF Closed
      <3> QED  BY <3>1, <3>2
    <2>2. D \subseteq DOMAIN g
      BY <1>1, <1>3 DEF Simulates
    <2> QED  BY <1>1, <1>2, <2>1, <2>2 DEF Closed
  <1>7. A \subseteq D
    <2> HIDE DEF D
    <2> QED  BY <1>6, ReachableLeast
  <1>8. \A x \in B : m[x] \in A /\ g[m[x]].kind = h[x].kind
    BY <1>1, <1>5 DEF Simulates
  <1>9. \A y \in A : \E x \in B : y = m[x]
    BY <1>7
  <1> HIDE DEF A, B, C, D
  <1>10. {g[y].kind : y \in A} = {h[x].kind : x \in B}
    BY <1>8, <1>9
  <1> QED  BY <1>10 DEF KindsFrom, A, B

-----------------------------------------------------------------------------
(* What _validate_snapshot_structure accepts *)

\* Nothing callable, no cycle, and none of the containers around it
FineFrom(h, r, around) ==
    \A x \in Reachable(h, {r}) :
        /\ h[x].kind # "callable"
        /\ x \notin Inside(h, x)
        /\ h[x].kind = "container" => x \notin around

\* One level of the recursion
ValidIn(valid, h, r, around) ==
    /\ h[r].kind # "callable"
    /\ h[r].kind = "container" =>
          /\ r \notin around
          /\ \A i \in DOMAIN h[r].items : valid[around \cup {r}][h[r].items[i]]

IsValidity(valid, h) ==
    valid = [around \in SUBSET DOMAIN h |-> [r \in DOMAIN h |-> ValidIn(valid, h, r, around)]]

(* An object is fine if it and what it contains are, inside of it. *)
LEMMA FineUnfold ==
    ASSUME NEW h, HeapOK(h), NEW around, NEW r \in DOMAIN h
    PROVE  FineFrom(h, r, around) <=>
              /\ h[r].kind # "callable"
              /\ h[r].kind = "container" =>
                    /\ r \notin around
                    /\ \A i \in DOMAIN h[r].items :
                          FineFrom(h, h[r].items[i], around \cup {r})
  <1> DEFINE I == Range(h[r].items)
             Good(x) == /\ h[x].kind # "callable"
                        /\ x \notin Inside(h, x)
                        /\ h[x].kind = "container" => x \notin around
  <1>1. I \subseteq DOMAIN h /\ \A i \in DOMAIN h[r].items : h[r].items[i] \in I
    BY HeapFacts DEF Range
  <1>2. Reachable(h, {r}) = {r} \cup Inside(h, r)
    BY ReachableUnfold DEF Inside
  <1>3. \A x : x \in Inside(h, r) <=> \E y \in I : x \in Reachable(h, {y})
    <2> SUFFICES ASSUME NEW x
                 PROVE  x \in Inside(h, r) <=> \E y \in I : x \in Reachable(h, {y})
      OBVIOUS
    <2> HIDE DEF I
    <2>1. x \in Reachable(h, I) <=> \E y \in I : x \in Reachable(h, {y})
      BY <1>1, ReachableUnion
    <2> QED  BY <2>1 DEF Inside, I
  <1>4. h[r].kind # "container" => I = {} /\ Inside(h, r) = {}
    <2> SUFFICES ASSUME h[r].kind # "container" PROVE I = {} /\ Inside(h, r) = {}
      OBVIOUS
    <2>1. I = {}
      BY DEF HeapOK, Range
    <2> HIDE DEF I
    <2> QED  BY <1>3, <2>1
  <1>5. ASSUME FineFrom(h, r, around)
        PROVE  /\ h[r].kind # "callable"
               /\ h[r].kind = "container" =>
                     /\ r \notin around
                     /\ \A i \in DOMAIN h[r].items :
                           FineFrom(h, h[r].items[i], around \cup {r})
    <2>1. r \in Reachable(h, {r}) /\ r \notin Inside(h, r)
      BY <1>2, <1>5 DEF FineFrom
    <2>2. ASSUME NEW y \in I PROVE FineFrom(h, y, around \cup {r})
      <3>1. Reachable(h, {y}) \subseteq Inside(h, r)
        BY <1>3
      <3>2. Reachable(h, {y}) \subseteq Reachable(h, {r}) /\ r \notin Reachable(h, {y})
        BY <1>2, <2>1, <3>1
      <3> QED  BY <1>5, <3>2 DEF FineFrom
    <2> HIDE DEF I
    <2> QED  BY <1>1, <1>5, <2>1, <2>2 DEF FineFrom
  <1>6. ASSUME h[r].kind # "callable",
               h[r].kind = "container" =>
                  /\ r \notin around
                  /\ \A i \in DOMAIN h[r].items :
                        FineFrom(h, h[r].items[i], around \cup {r})
        PROVE  FineFrom(h, r, around)
    <2>1. \A y \in I : FineFrom(h, y, around \cup {r}) /\ h[r].kind = "container"
      <3>1. CASE h[r].kind = "container"
        BY <1>6, <3>1 DEF Range
      <3>2. CASE h[r].kind # "container"
        BY <1>4, <3>2
      <3> QED  BY <3>1, <3>2
    <2> HIDE DEF I
    <2>2. ASSUME NEW x \in Inside(h, r)
          PROVE  /\ h[x].kind # "callable" /\ x \notin Inside(h, x)
                 /\ h[x].kind = "container" => x \notin around /\ x # r
      <3>1. PICK y \in I : x \in Reachable(h, {y})
        BY <1>3
      <3>2. FineFrom(h, y, around \cup {r})
        BY <2>1
      <3> QED  BY <3>1, <3>2 DEF FineFrom
    <2>3. r \notin Inside(h, r)
      BY <1>4, <2>2
    <2> QED  BY <1>2, <1>6, <2>2, <2>3 DEF FineFrom
  <1> QED  BY <1>5, <1>6

(* The recursion of _validate_snapshot_structure is well defined. *)
LEMMA ValidityExists ==
    ASSUME NEW h, HeapOK(h)
    PROVE  \E valid : IsValidity(valid, h)
  <1> DEFINE V == [around \in SUBSET DOMAIN h |-> [r \in DOMAIN h |-> FineFrom(h, r, around)]]
  <1>1. ASSUME NEW around \in SUBSET DOMAIN h, NEW r \in DOMAIN h
        PROVE  FineFrom(h, r, around) = ValidIn(V, h, r, around)
    <2>1. ASSUME NEW i \in DOMAIN h[r].items
          PROVE  V[around \cup {r}][h[r].items[i]] = FineFrom(h, h[r].items[i], around \cup {r})
      <3>1. h[r].items[i] \in DOMAIN h /\ around \cup {r} \in SUBSET DOMAIN h
        BY DEF HeapOK
      <3> QED  BY <3>1
    <2> HIDE DEF V
    <2>2. FineFrom(h, r, around) <=> ValidIn(V, h, r, around)
      BY <2>1, FineUnfold DEF ValidIn
    <2>3. FineFrom(h, r, around) \in BOOLEAN /\ ValidIn(V, h, r, around) \in BOOLEAN
      BY Zenon DEF FineFrom, ValidIn
    <2> QED  BY <2>2, <2>3
  <1>2. V = [around \in SUBSET DOMAIN h |-> [r \in DOMAIN h |-> ValidIn(V, h, r, around)]]
    BY <1>1
  <1> HIDE DEF V
  <1>3. IsValidity(V, h)
    BY <1>2 DEF IsValidity
  <1> QED  BY <1>3

(* ... and has one result: each container on the way is one less to be entered. *)
LEMMA ValidityIsFine ==
    ASSUME NEW h, HeapOK(h), NEW valid, IsValidity(valid, h),
           NEW around \in SUBSET DOMAIN h, NEW ref \in DOMAIN h
    PROVE  valid[around][ref] <=> FineFrom(h, ref, around)
  <1> DEFINE D == DOMAIN h
             Left(a) == Cardinality(D \ a)
             T == {n \in Nat : \A a \in SUBSET D : Left(a) < n =>
                                  \A r \in D : valid[a][r] <=> FineFrom(h, r, a)}
  <1>1. IsFiniteSet(D)
    <2>1. Len(h) \in Nat /\ D = 1..Len(h)
      BY HeapFacts
    <2> QED  BY ONLY <2>1, FS_Interval
  <1>2. \A a \in SUBSET D : Left(a) \in Nat
    <2>1. \A a \in SUBSET D : D \ a \subseteq D
      OBVIOUS
    <2> QED  BY <1>1, <2>1, FS_Subset, FS_CardinalityType
  <1>3. ASSUME NEW a \in SUBSET D, NEW r \in D, r \notin a PROVE Left(a \cup {r}) < Left(a)
    <2>1. /\ a \cup {r} \in SUBSET D /\ D \ (a \cup {r}) \subseteq D \ a
          /\ D \ (a \cup {r}) # D \ a /\ D \ a \subseteq D
      BY <1>3
    <2>2. IsFiniteSet(D \ a)
      BY <1>1, <2>1, FS_Subset
    <2>3. Left(a \cup {r}) <= Left(a) /\ Left(a \cup {r}) # Left(a)
      BY <2>1, <2>2, FS_Subset
    <2>4. Left(a \cup {r}) \in Nat /\ Left(a) \in Nat
      BY <1>2, <2>1
    <2> QED  BY <2>3, <2>4
  <1>4. ASSUME NEW a \in SUBSET D, NEW r \in D PROVE valid[a][r] = ValidIn(valid, h, r, a)
    <2>1. ASSUME NEW w, w = [b \in SUBSET D |-> [x \in D |-> ValidIn(valid, h, x, b)]]
          PROVE  w[a][r] = ValidIn(valid, h, r, a)
      BY <2>1
    <2>2. valid = [b \in SUBSET D |-> [x \in D |-> ValidIn(valid, h, x, b)]]
      BY Zenon DEF IsValidity
    <2> QED  BY <2>1, <2>2, Zenon
  <1> HIDE DEF Left
  <1>5. 0 \in T
    BY <1>2
  <1>6. ASSUME NEW n \in Nat, n \in T PROVE n + 1 \in T
    <2> SUFFICES ASSUME NEW a \in SUBSET D, Left(a) < n + 1, NEW r \in D
                 PROVE  valid[a][r] <=> FineFrom(h, r, a)
      OBVIOUS
    <2>1. CASE r \in a
      BY <1>4, <2>1, FineUnfold DEF ValidIn
    <2>2. CASE r \notin a
      <3>1. Left(a \cup {r}) < n /\ a \cup {r} \in SUBSET D
        BY <1>2, <1>3, <2>2
      <3>2. \A x \in D : valid[a \cup {r}][x] <=> FineFrom(h, x, a \cup {r})
        BY <1>6, <3>1
      <3>3. \A i \in DOMAIN h[r].items : h[r].items[i] \in D
        BY DEF HeapOK
      <3>4. \A i \in DOMAIN h[r].items :
                valid[a \cup {r}][h[r].items[i]] <=> FineFrom(h, h[r].items[i], a \cup {r})
        BY <3>2, <3>3
      <3>5. ValidIn(valid, h, r, a) <=> FineFrom(h, r, a)
        BY <3>4, FineUnfold DEF ValidIn
      <3> QED  BY <1>4, <3>5
    <2> QED  BY <2>1, <2>2
  <1>7. Left(around) + 1 \in T
    <2>1. Left(around) + 1 \in Nat
      BY <1>2
    <2> HIDE DEF T
    <2> QED  BY <1>5, <1>6, <2>1, SetInduction
  <1>8. Left(around) < Left(around) + 1
    BY <1>2
  <1> QED  BY <1>7, <1>8

(* _validate_snapshot_structure accepts what has nothing callable and no cycle. *)
LEMMA ValidStructureIsFine ==
    ASSUME NEW h, HeapOK(h), NEW ref \in DOMAIN h
    PROVE  ValidStructure(h, ref, {}) <=> FineFrom(h, ref, {})
  <1> DEFINE v == CHOOSE valid : IsValidity(valid, h)
  <1>1. ValidStructure(h, ref, {}) = v[{}][ref]
    BY Zenon DEF ValidStructure, IsValidity, ValidIn
  <1>2. IsValidity(v, h)
    BY ValidityExists
  <1> HIDE DEF v
  <1>3. v[{}][ref] <=> FineFrom(h, ref, {})
    BY <1>2, ValidityIsFine
  <1> QED  BY <1>1, <1>3

-----------------------------------------------------------------------------
(* What validate_query_parameter_values finds *)

\* What is to be looked at and what need not be looked into again
Pending(h) == [todo : Seq(DOMAIN h), seen : SUBSET DOMAIN h]

\* There is a set without a temporal value with a time zone that has all of `todo`
\* and, but for those seen, what its containers contain
NoneAware(h, p) ==
    \E C \in SUBSET DOMAIN h :
        /\ Range(p.todo) \subseteq C
        /\ \A r \in C : /\ h[r].kind # "aware"
                        /\ r \notin p.seen => Range(h[r].items) \subseteq C

\* Whether a value is looked into
Enters(h, p) == h[Head(p.todo)].kind = "container" /\ Head(p.todo) \notin p.seen

\* What is left after the first value
Remaining(h, p) ==
    [todo |-> (IF Enters(h, p) THEN h[Head(p.todo)].items ELSE << >>) \o Tail(p.todo),
     seen |-> IF Enters(h, p) THEN p.seen \cup {Head(p.todo)} ELSE p.seen]

\* One step of the search
FoundIn(found, h, p) ==
    IF p.todo = << >> THEN FALSE
    ELSE h[Head(p.todo)].kind = "aware" \/ found[Remaining(h, p)]

IsSearch(found, h) == found = [p \in Pending(h) |-> FoundIn(found, h, p)]

(* What is in two sequences, one after the other. *)
LEMMA RangeOfBoth ==
    ASSUME NEW S, NEW a \in Seq(S), NEW b \in Seq(S)
    PROVE  Range(a \o b) = Range(a) \cup Range(b)
  <1> DEFINE c == a \o b
             m == Len(a)
             n == Len(b)
  <1>1. /\ m \in Nat /\ n \in Nat /\ DOMAIN a = 1..m /\ DOMAIN b = 1..n /\ DOMAIN c = 1..(m + n)
        /\ \A i \in 1..m : c[i] = a[i]
        /\ \A i \in (m + 1)..(m + n) : c[i] = b[i - m]
    OBVIOUS
  <1> HIDE DEF c, m, n
  <1>2. ASSUME NEW i \in 1..(m + n) PROVE c[i] \in Range(a) \cup Range(b)
    <2>1. CASE i \in 1..m
      BY <1>1, <2>1 DEF Range
    <2>2. CASE i \notin 1..m
      <3>1. i - m \in 1..n /\ i \in (m + 1)..(m + n)
        BY <1>1, <2>2
      <3> QED  BY <1>1, <3>1 DEF Range
    <2> QED  BY <2>1, <2>2
  <1>3. ASSUME NEW i \in 1..m PROVE a[i] \in Range(c)
    <2>1. i \in 1..(m + n) /\ c[i] = a[i]
      BY <1>1
    <2> QED  BY <1>1, <2>1 DEF Range
  <1>4. ASSUME NEW i \in 1..n PROVE b[i] \in Range(c)
    <2>1. i + m \in 1..(m + n) /\ i + m \in (m + 1)..(m + n) /\ (i + m) - m = i
      BY <1>1
    <2>2. c[i + m] = b[i]
      BY <1>1, <2>1
    <2> QED  BY <1>1, <2>1, <2>2 DEF Range
  <1>5. Range(c) \subseteq Range(a) \cup Range(b)
    BY <1>1, <1>2 DEF Range
  <1>6. Range(a) \subseteq Range(c) /\ Range(b) \subseteq Range(c)
    <2>1. Range(a) = {a[i] : i \in 1..m} /\ Range(b) = {b[i] : i \in 1..n}
      BY <1>1 DEF Range
    <2> QED  BY <1>3, <1>4, <2>1
  <1> QED  BY <1>5, <1>6 DEF c

(* One step of the search: one value less, or one container more that was seen. *)
LEMMA RemainingPending ==
    ASSUME NEW h, HeapOK(h), NEW p \in Pending(h), p.todo # << >>
    PROVE  LET q == Remaining(h, p)
               ref == Head(p.todo)
           IN  /\ q \in Pending(h) /\ ref \in DOMAIN h /\ p.seen \subseteq DOMAIN h
               /\ Range(p.todo) = {ref} \cup Range(Tail(p.todo))
               /\ Enters(h, p) => /\ q.seen = p.seen \cup {ref} /\ ref \notin p.seen
                                  /\ Range(q.todo) = Range(h[ref].items) \cup Range(Tail(p.todo))
               /\ ~Enters(h, p) => /\ q.seen = p.seen /\ q.todo = Tail(p.todo)
                                   /\ Len(p.todo) = Len(q.todo) + 1
  <1> DEFINE D == DOMAIN h
             t == p.todo
             ref == Head(t)
             rest == Tail(t)
             items == h[ref].items
             q == Remaining(h, p)
  <1>1. t \in Seq(D) /\ p.seen \subseteq D
    BY DEF Pending
  <1> HIDE DEF D
  <1>2. ref \in D /\ rest \in Seq(D) /\ Len(t) = Len(rest) + 1 /\ Len(rest) \in Nat
    BY <1>1
  <1>3. items \in Seq(D)
    <2>1. items \in Seq(Nat) /\ \A i \in DOMAIN items : items[i] \in D
      BY <1>2, HeapFacts DEF HeapOK, D
    <2> HIDE DEF items
    <2> QED  BY <2>1
  <1>4. Range(t) = {ref} \cup Range(rest)
    <2>1. DOMAIN t = 1..Len(t) /\ DOMAIN rest = 1..Len(rest) /\ Len(t) \in Nat
      BY <1>1, <1>2
    <2>2. t[1] = ref /\ \A i \in 1..Len(rest) : rest[i] = t[i + 1]
      BY <1>1
    <2>3. ASSUME NEW x PROVE x \in Range(t) <=> x \in {ref} \cup Range(rest)
      <3> HIDE DEF ref, rest, t
      <3>1. ASSUME x \in Range(t) PROVE x \in {ref} \cup Range(rest)
        <4>1. PICK i \in 1..Len(t) : t[i] = x
          BY <2>1, <3>1 DEF Range
        <4>2. CASE i = 1
          BY <2>2, <4>1, <4>2
        <4>3. CASE i # 1
          <5>1. i - 1 \in 1..Len(rest) /\ (i - 1) + 1 = i
            BY <1>2, <2>1, <4>3
          <5>2. rest[i - 1] = x
            BY <2>2, <4>1, <5>1
          <5> QED  BY <2>1, <5>1, <5>2 DEF Range
        <4> QED  BY <4>2, <4>3
      <3>2. ASSUME x \in Range(rest) PROVE x \in Range(t)
        <4>1. PICK i \in 1..Len(rest) : rest[i] = x
          BY <2>1, <3>2 DEF Range
        <4>2. i + 1 \in 1..Len(t)
          BY <1>2, <2>1
        <4> QED  BY <2>1, <2>2, <4>1, <4>2 DEF Range
      <3>3. 1 \in 1..Len(t)
        BY <1>2, <2>1
      <3> QED  BY <2>1, <2>2, <3>1, <3>2, <3>3 DEF Range
    <2> QED  BY <2>3
  <1>5. CASE Enters(h, p)
    <2>1. q.todo = items \o rest /\ q.seen = p.seen \cup {ref} /\ q = [todo |-> q.todo, seen |-> q.seen]
      BY <1>5 DEF Remaining
    <2>2. ref \notin p.seen
      BY <1>5 DEF Enters
    <2> HIDE DEF ref, rest, items, t, q
    <2>3. q.todo \in Seq(D)
      BY <1>2, <1>3, <2>1
    <2>4. q \in Pending(h)
      BY <1>1, <1>2, <2>1, <2>3 DEF Pending, D
    <2>5. Range(q.todo) = Range(items) \cup Range(rest)
      BY <1>2, <1>3, <2>1, RangeOfBoth
    <2> QED  BY <1>1, <1>2, <1>4, <1>5, <2>1, <2>2, <2>4, <2>5 DEF ref, rest, items, t, q, D
  <1>6. CASE ~Enters(h, p)
    <2>1. q.todo = << >> \o rest /\ q.seen = p.seen /\ q = [todo |-> q.todo, seen |-> q.seen]
      BY <1>6 DEF Remaining
    <2> HIDE DEF ref, rest, items, t, q
    <2>2. << >> \o rest = rest
      BY <1>2
    <2>3. q \in Pending(h)
      BY <1>1, <1>2, <2>1, <2>2 DEF Pending, D
    <2> QED  BY <1>1, <1>2, <1>4, <1>6, <2>1, <2>2, <2>3 DEF ref, rest, items, t, q, D
  <1> QED  BY <1>5, <1>6

(* Going on with what is left decides the same. *)
LEMMA NoneAwareUnfold ==
    ASSUME NEW h, HeapOK(h), NEW p \in Pending(h), p.todo # << >>
    PROVE  NoneAware(h, p) <=> h[Head(p.todo)].kind # "aware" /\ NoneAware(h, Remaining(h, p))
  <1> DEFINE q == Remaining(h, p)
             ref == Head(p.todo)
             I == Range(h[ref].items)
  <1>1. /\ ref \in DOMAIN h /\ Range(p.todo) = {ref} \cup Range(Tail(p.todo))
        /\ Enters(h, p) => /\ q.seen = p.seen \cup {ref} /\ ref \notin p.seen
                           /\ Range(q.todo) = I \cup Range(Tail(p.todo))
        /\ ~Enters(h, p) => q.seen = p.seen /\ q.todo = Tail(p.todo)
    BY RemainingPending
  <1>2. ~Enters(h, p) => ref \in p.seen \/ I = {}
    BY <1>1 DEF Enters, HeapOK, Range
  <1> HIDE DEF q, ref, I
  <1>3. ASSUME NoneAware(h, p) PROVE h[ref].kind # "aware" /\ NoneAware(h, q)
    <2>1. PICK C \in SUBSET DOMAIN h :
              /\ Range(p.todo) \subseteq C
              /\ \A r \in C : /\ h[r].kind # "aware"
                              /\ r \notin p.seen => Range(h[r].items) \subseteq C
      BY <1>3 DEF NoneAware
    <2>2. ref \in C /\ Range(Tail(p.todo)) \subseteq C /\ h[ref].kind # "aware"
      BY <1>1, <2>1
    <2>3. Range(q.todo) \subseteq C
      <3>1. CASE Enters(h, p)
        BY <1>1, <2>1, <2>2, <3>1 DEF I
      <3>2. CASE ~Enters(h, p)
        BY <1>1, <2>2, <3>2
      <3> QED  BY <3>1, <3>2
    <2>4. p.seen \subseteq q.seen
      BY <1>1
    <2> QED  BY <2>1, <2>2, <2>3, <2>4 DEF NoneAware
  <1>4. ASSUME h[ref].kind # "aware", NoneAware(h, q) PROVE NoneAware(h, p)
    <2>1. PICK C \in SUBSET DOMAIN h :
              /\ Range(q.todo) \subseteq C
              /\ \A r \in C : /\ h[r].kind # "aware"
                              /\ r \notin q.seen => Range(h[r].items) \subseteq C
      BY <1>4 DEF NoneAware
    <2> DEFINE B == C \cup {ref}
    <2>2. B \in SUBSET DOMAIN h
      BY <1>1
    <2>3. Range(p.todo) \subseteq B
      BY <1>1, <2>1
    <2>4. ASSUME NEW r \in B
          PROVE  /\ h[r].kind # "aware"
                 /\ r \notin p.seen => Range(h[r].items) \subseteq B
      <3>1. CASE r = ref
        <4>1. r \notin p.seen => Range(h[r].items) \subseteq C
          BY <1>1, <1>2, <2>1, <3>1 DEF I
        <4> QED  BY <1>4, <3>1, <4>1
      <3>2. CASE r # ref
        BY <1>1, <2>1, <3>2
      <3> QED  BY <3>1, <3>2
    <2> HIDE DEF B
    <2> QED  BY <2>2, <2>3, <2>4 DEF NoneAware
  <1> QED  BY <1>3, <1>4 DEF q, ref

(* The search of validate_query_parameter_values is well defined. *)
LEMMA SearchExists ==
    ASSUME NEW h, HeapOK(h)
    PROVE  \E found : IsSearch(found, h)
  <1> DEFINE F == [p \in Pending(h) |-> ~NoneAware(h, p)]
  <1>1. ASSUME NEW p \in Pending(h) PROVE (~NoneAware(h, p)) = FoundIn(F, h, p)
    <2>1. CASE p.todo = << >>
      <3>1. NoneAware(h, p)
        <4>1. Range(p.todo) = {}
          BY <2>1 DEF Range
        <4> QED  BY <4>1 DEF NoneAware
      <3> QED  BY <2>1, <3>1 DEF FoundIn
    <2>2. CASE p.todo # << >>
      <3>1. Remaining(h, p) \in Pending(h)
        BY <2>2, RemainingPending
      <3>2. F[Remaining(h, p)] = ~NoneAware(h, Remaining(h, p))
        BY <3>1
      <3> HIDE DEF F
      <3>3. FoundIn(F, h, p) = (h[Head(p.todo)].kind = "aware" \/ ~NoneAware(h, Remaining(h, p)))
        BY <2>2, <3>2 DEF FoundIn
      <3>4. NoneAware(h, p) <=> h[Head(p.todo)].kind # "aware" /\ NoneAware(h, Remaining(h, p))
        BY <2>2, NoneAwareUnfold
      <3> QED  BY <3>3, <3>4
    <2> QED  BY <2>1, <2>2
  <1>2. F = [p \in Pending(h) |-> FoundIn(F, h, p)]
    BY <1>1
  <1> HIDE DEF F
  <1>3. IsSearch(F, h)
    BY <1>2 DEF IsSearch
  <1> QED  BY <1>3

(* ... and ends: with each step there is a container less to be looked into or, if
   not, a value less to be looked at. *)
LEMMA SearchFinds ==
    ASSUME NEW h, HeapOK(h), NEW found, IsSearch(found, h), NEW start \in Pending(h)
    PROVE  found[start] <=> ~NoneAware(h, start)
  <1> DEFINE D == DOMAIN h
             P == Pending(h)
             Left(p) == Cardinality(D \ p.seen)
             Right(p) == found[p] <=> ~NoneAware(h, p)
             T == {n \in Nat : \A p \in P : Left(p) < n => Right(p)}
  <1>1. IsFiniteSet(D)
    <2>1. Len(h) \in Nat /\ D = 1..Len(h)
      BY HeapFacts
    <2> QED  BY ONLY <2>1, FS_Interval
  <1>2. \A p \in P : Left(p) \in Nat /\ IsFiniteSet(D \ p.seen) /\ Len(p.todo) \in Nat
    <2>1. \A p \in P : p.todo \in Seq(D)
      BY DEF Pending
    <2>2. \A p \in P : D \ p.seen \subseteq D
      OBVIOUS
    <2> HIDE DEF D, P
    <2>3. \A p \in P : Len(p.todo) \in Nat
      BY <2>1
    <2>4. \A p \in P : Left(p) \in Nat /\ IsFiniteSet(D \ p.seen)
      BY <1>1, <2>2, FS_Subset, FS_CardinalityType
    <2> QED  BY <2>3, <2>4
  <1>3. ASSUME NEW p \in P PROVE found[p] = FoundIn(found, h, p)
    <2>1. ASSUME NEW w, w = [x \in P |-> FoundIn(found, h, x)]
          PROVE  w[p] = FoundIn(found, h, p)
      BY <2>1
    <2>2. found = [x \in P |-> FoundIn(found, h, x)]
      BY Zenon DEF IsSearch
    <2> QED  BY <2>1, <2>2, Zenon
  <1>4. ASSUME NEW p \in P, p.todo = << >> PROVE Right(p)
    <2>1. Range(p.todo) = {}
      BY <1>4 DEF Range
    <2>2. NoneAware(h, p)
      BY <2>1 DEF NoneAware
    <2>3. ~FoundIn(found, h, p)
      BY <1>4 DEF FoundIn
    <2> QED  BY <1>3, <2>2, <2>3
  <1>5. ASSUME NEW p \in P, p.todo # << >>, Right(Remaining(h, p)) PROVE Right(p)
    <2>1. NoneAware(h, p) <=> h[Head(p.todo)].kind # "aware" /\ NoneAware(h, Remaining(h, p))
      BY <1>5, NoneAwareUnfold
    <2>2. FoundIn(found, h, p) <=> (h[Head(p.todo)].kind = "aware" \/ found[Remaining(h, p)])
      BY <1>5 DEF FoundIn
    <2> QED  BY <1>3, <1>5, <2>1, <2>2
  <1>6. ASSUME NEW p \in P, p.todo # << >>
        PROVE  /\ Remaining(h, p) \in P
               /\ \/ Left(Remaining(h, p)) < Left(p)
                  \/ Left(Remaining(h, p)) = Left(p) /\ Len(p.todo) = Len(Remaining(h, p).todo) + 1
    <2> DEFINE q == Remaining(h, p)
    <2>1. /\ q \in P /\ Head(p.todo) \in D
          /\ Enters(h, p) => q.seen = p.seen \cup {Head(p.todo)} /\ Head(p.todo) \notin p.seen
          /\ ~Enters(h, p) => q.seen = p.seen /\ Len(p.todo) = Len(q.todo) + 1
      BY <1>6, RemainingPending
    <2> HIDE DEF q
    <2>2. CASE Enters(h, p)
      <3>1. D \ q.seen \subseteq D \ p.seen /\ D \ q.seen # D \ p.seen
        BY <2>1, <2>2
      <3>2. Left(q) <= Left(p) /\ Left(q) # Left(p)
        BY <1>2, <3>1, FS_Subset
      <3>3. Left(q) \in Nat /\ Left(p) \in Nat
        BY <1>2, <2>1
      <3>4. Left(q) < Left(p)
        BY <3>2, <3>3
      <3> QED  BY <2>1, <3>4 DEF q
    <2>3. CASE ~Enters(h, p)
      BY <2>1, <2>3 DEF q
    <2> QED  BY <2>2, <2>3
  <1>c. \A p \in P : Left(p) \in Nat
    BY <1>2
  <1> HIDE DEF Left, Right, P, D
  <1>7. 0 \in T
    <2>1. \A p \in P : ~(Left(p) < 0)
      BY <1>c
    <2> QED  BY <2>1
  <1>8. ASSUME NEW n \in Nat, n \in T PROVE n + 1 \in T
    <2> DEFINE U == {l \in Nat : \A p \in P : Left(p) < n + 1 /\ Len(p.todo) = l => Right(p)}
    <2>1. 0 \in U
      <3>1. \A p \in P : Len(p.todo) = 0 => p.todo = << >>
        BY DEF P, Pending
      <3> QED  BY <1>4, <3>1
    <2>2. ASSUME NEW l \in Nat, l \in U PROVE l + 1 \in U
      <3> SUFFICES ASSUME NEW p \in P, Left(p) < n + 1, Len(p.todo) = l + 1 PROVE Right(p)
        OBVIOUS
      <3> DEFINE q == Remaining(h, p)
      <3>1. p.todo # << >>
        OBVIOUS
      <3>2. q \in P /\ (Left(q) < Left(p) \/ (Left(q) = Left(p) /\ Len(p.todo) = Len(q.todo) + 1))
        BY <1>6, <3>1
      <3> HIDE DEF q
      <3>3. Left(q) \in Nat /\ Left(p) \in Nat /\ Len(q.todo) \in Nat
        BY <1>2, <3>2
      <3>4. CASE Left(q) < Left(p)
        <4>1. Left(q) < n
          BY <3>3, <3>4
        <4>2. Right(q)
          BY <1>8, <3>2, <4>1
        <4> QED  BY <1>5, <3>1, <4>2 DEF q
      <3>5. CASE Left(q) = Left(p) /\ Len(p.todo) = Len(q.todo) + 1
        <4>1. Left(q) < n + 1 /\ Len(q.todo) = l
          BY <3>3, <3>5
        <4>2. Right(q)
          BY <2>2, <3>2, <4>1
        <4> QED  BY <1>5, <3>1, <4>2 DEF q
      <3> QED  BY <3>2, <3>4, <3>5
    <2>3. Nat \subseteq U
      <3> HIDE DEF U
      <3> QED  BY <2>1, <2>2, SetInduction
    <2>4. ASSUME NEW p \in P, Left(p) < n + 1 PROVE Right(p)
      <3>1. Len(p.todo) \in U
        BY <1>2, <2>3
      <3> QED  BY <2>4, <3>1
    <2> QED  BY <2>4
  <1>s. start \in P
    BY DEF P
  <1>9. Left(start) + 1 \in T
    <2>1. Left(start) + 1 \in Nat
      BY <1>c, <1>s
    <2> HIDE DEF T
    <2> QED  BY <1>7, <1>8, <2>1, SetInduction
  <1>10. Left(start) < Left(start) + 1
    BY <1>c, <1>s
  <1>11. Right(start)
    BY <1>9, <1>10, <1>s
  <1> QED  BY <1>11 DEF Right

(* validate_query_parameter_values: a temporal value with a time zone is found
   exactly if one can be reached. *)
LEMMA AwareFoundExactly ==
    ASSUME NEW h, HeapOK(h), NEW refs \in Seq(DOMAIN h)
    PROVE  AwareFound(h, refs, {}) <=> "aware" \in KindsFrom(h, Range(refs))
  <1> DEFINE f == CHOOSE found : IsSearch(found, h)
             p == [todo |-> refs, seen |-> {}]
             R == Reachable(h, Range(refs))
  <1>1. AwareFound(h, refs, {}) = f[p]
    BY Zenon DEF AwareFound, IsSearch, Pending, FoundIn, Remaining, Enters
  <1>2. IsSearch(f, h)
    BY SearchExists
  <1> HIDE DEF f
  <1>3. p \in Pending(h)
    BY DEF Pending
  <1>4. p.todo = refs /\ p.seen = {}
    OBVIOUS
  <1> HIDE DEF p
  <1>5. f[p] <=> ~NoneAware(h, p)
    BY <1>2, <1>3, SearchFinds
  <1>6. Range(refs) \subseteq DOMAIN h
    BY DEF Range
  <1>7. Range(refs) \subseteq R /\ Closed(h, R)
    BY <1>6, ReachableClosed
  <1> HIDE DEF R
  <1>8. ASSUME NoneAware(h, p), NEW r \in R PROVE h[r].kind # "aware"
    <2>1. PICK C \in SUBSET DOMAIN h :
              /\ Range(refs) \subseteq C
              /\ \A x \in C : h[x].kind # "aware" /\ Range(h[x].items) \subseteq C
      BY <1>4, <1>8 DEF NoneAware
    <2>2. Closed(h, C)
      BY <2>1 DEF Closed, Range
    <2>3. R \subseteq C
      BY <2>1, <2>2, ReachableLeast DEF R
    <2> QED  BY <2>1, <2>3
  <1>9. ASSUME \A r \in R : h[r].kind # "aware" PROVE NoneAware(h, p)
    <2>1. R \in SUBSET DOMAIN h /\ \A r \in R : Range(h[r].items) \subseteq R
      BY <1>7 DEF Closed, Range
    <2> QED  BY <1>4, <1>7, <1>9, <2>1 DEF NoneAware
  <1>10. NoneAware(h, p) <=> "aware" \notin KindsFrom(h, Range(refs))
    BY <1>8, <1>9 DEF KindsFrom, R
  <1> QED  BY <1>1, <1>5, <1>10

-----------------------------------------------------------------------------
(* What a data source accepts *)

(* The kinds of what several objects reach are those of what one of them reaches. *)
LEMMA KindsUnion ==
    ASSUME NEW h, HeapOK(h), NEW refs, refs \subseteq DOMAIN h, NEW k
    PROVE  k \in KindsFrom(h, refs) <=> \E r \in refs : k \in KindsFrom(h, {r})
  <1>1. \A x : x \in Reachable(h, refs) <=> \E r \in refs : x \in Reachable(h, {r})
    BY ReachableUnion
  <1> QED  BY <1>1 DEF KindsFrom

(* A snapshot is made of the kinds of objects that the mapping is made of. *)
LEMMA SnapshotKinds ==
    ASSUME NEW h, HeapOK(h), NEW entries \in EntriesTo(DOMAIN h),
           NEW s, CopiedUpTo(s, Len(entries), h, entries)
    PROVE  /\ KindsFrom(s.heap, Range(Refs(s.entries))) = KindsFrom(h, Range(Refs(entries)))
           /\ HeapOK(s.heap) /\ Refs(s.entries) \in Seq(DOMAIN s.heap)
  <1> DEFINE g == s.heap
             n == Len(entries)
             new == s.entries
             A == Range(Refs(new))
             B == Range(Refs(entries))
  <1>1. /\ Extended(g, h) /\ new \in EntriesTo(New(g, h)) /\ Len(new) = n
        /\ \A i \in 1..n : Copied(g, new[i].ref, h, entries[i].ref)
    BY DEF CopiedUpTo
  <1>2. HeapOK(g) /\ New(g, h) \subseteq DOMAIN g
    BY <1>1 DEF Extended, Closed
  <1>3. /\ n \in Nat /\ DOMAIN entries = 1..n /\ DOMAIN new = 1..n
        /\ \A i \in 1..n : entries[i].ref \in DOMAIN h /\ new[i].ref \in DOMAIN g
    BY <1>1, <1>2, EntryFacts
  <1> HIDE DEF g, n, new
  <1>4. A = {new[i].ref : i \in 1..n} /\ B = {entries[i].ref : i \in 1..n}
    BY <1>3 DEF Refs, Range
  <1>5. A \subseteq DOMAIN g /\ B \subseteq DOMAIN h
    BY <1>3, <1>4
  <1>6. \A i \in 1..n : KindsFrom(g, {new[i].ref}) = KindsFrom(h, {entries[i].ref})
    BY <1>1, <1>2, <1>3, CopiedKinds
  <1>7. Refs(new) \in Seq(DOMAIN g)
    <2>1. Refs(new) \in [1..n -> DOMAIN g]
      BY <1>3 DEF Refs
    <2> QED  BY <1>3, <2>1
  <1> HIDE DEF A, B
  <1>8. ASSUME NEW k PROVE k \in KindsFrom(g, A) <=> k \in KindsFrom(h, B)
    <2>1. k \in KindsFrom(g, A) <=> \E r \in A : k \in KindsFrom(g, {r})
      BY <1>2, <1>5, KindsUnion
    <2>2. k \in KindsFrom(h, B) <=> \E r \in B : k \in KindsFrom(h, {r})
      BY <1>5, KindsUnion
    <2>3. (\E r \in A : k \in KindsFrom(g, {r})) <=> \E i \in 1..n : k \in KindsFrom(g, {new[i].ref})
      BY <1>4
    <2>4. (\E r \in B : k \in KindsFrom(h, {r})) <=> \E i \in 1..n : k \in KindsFrom(h, {entries[i].ref})
      BY <1>4
    <2> QED  BY <1>6, <2>1, <2>2, <2>3, <2>4
  <1>9. KindsFrom(g, A) = KindsFrom(h, B)
    BY <1>8
  <1> QED  BY <1>2, <1>7, <1>9 DEF g, new, A, B

(* All values can be pickled exactly if nothing that they reach is cyclic, callable
   or tied to a resource. *)
LEMMA SerializableExactly ==
    ASSUME NEW h, HeapOK(h), NEW entries \in EntriesTo(DOMAIN h)
    PROVE  LET roots == Range(Refs(entries))
           IN  (\A i \in DOMAIN entries : Serializable(h, entries[i].ref))
                 <=> /\ ~Cyclic(h, roots)
                     /\ KindsFrom(h, roots) \cap {"callable", "handle"} = {}
  <1> DEFINE B == Range(Refs(entries))
             R == Reachable(h, B)
             Good(x) == /\ h[x].kind # "callable" /\ h[x].kind # "handle"
                        /\ x \notin Inside(h, x)
  <1>1. \A i \in DOMAIN entries : entries[i].ref \in DOMAIN h
    BY EntryFacts
  <1>2. B = {entries[i].ref : i \in DOMAIN entries} /\ B \subseteq DOMAIN h
    BY <1>1 DEF Refs, Range
  <1>3. ASSUME NEW i \in DOMAIN entries
        PROVE  Serializable(h, entries[i].ref) <=> \A x \in Reachable(h, {entries[i].ref}) : Good(x)
    <2>1. ValidStructure(h, entries[i].ref, {}) <=> FineFrom(h, entries[i].ref, {})
      BY <1>1, ValidStructureIsFine
    <2> QED  BY <2>1 DEF Serializable, FineFrom
  <1> HIDE DEF B
  <1>4. \A x : x \in R <=> \E r \in B : x \in Reachable(h, {r})
    BY <1>2, ReachableUnion
  <1> HIDE DEF R
  <1>5. (\A i \in DOMAIN entries : \A x \in Reachable(h, {entries[i].ref}) : Good(x))
            <=> \A x \in R : Good(x)
    BY <1>2, <1>4
  <1>6. (\A x \in R : Good(x))
            <=> ~Cyclic(h, B) /\ KindsFrom(h, B) \cap {"callable", "handle"} = {}
    BY DEF R, Cyclic, KindsFrom
  <1> HIDE DEF Good
  <1> QED  BY <1>3, <1>5, <1>6 DEF B

Roots == Range(Refs(given))

KeysOf(entries) == {entries[i].key : i \in DOMAIN entries}

\* What AcceptedExactly asks for
Fine ==
    /\ ~Cyclic(heap, Roots)
    /\ KindsFrom(heap, Roots) \cap {"callable", "handle"} = {}
    /\ role = "query_parameters" => "aware" \notin KindsFrom(heap, Roots)
    /\ "unusable" \notin KeysOf(given)
    /\ role = "options" => "managed" \notin KeysOf(given)
    /\ 1 <= limits.target /\ limits.target <= limits.max /\ limits.max <= MaxTasks

(* The checks of the constructors decide just that: those of the values before they
   are copied, and the one of the copies, which is as good as one of the originals. *)
LEMMA AcceptedIffFine ==
    ASSUME HeapOK(heap), given \in EntriesTo(DOMAIN heap),
           limits.target \in Int, limits.max \in Int
    PROVE  Accepted <=> Fine
  <1>1. LimitsValid <=>
            1 <= limits.target /\ limits.target <= limits.max /\ limits.max <= MaxTasks
    BY ContractsAssumption DEF LimitsValid
  <1>2. (\A i \in DOMAIN given : Serializable(heap, given[i].ref)) <=>
            ~Cyclic(heap, Roots) /\ KindsFrom(heap, Roots) \cap {"callable", "handle"} = {}
    BY SerializableExactly DEF Roots
  <1>3. AwareFound(Snapshot.heap, Refs(Snapshot.entries), {}) <=> "aware" \in KindsFrom(heap, Roots)
    <2> DEFINE s == SnapshotAll(heap, given)
    <2>1. CopiedUpTo(s, Len(given), heap, given)
      BY SnapshotCopies
    <2> HIDE DEF s
    <2>2. /\ KindsFrom(s.heap, Range(Refs(s.entries))) = KindsFrom(heap, Roots)
          /\ HeapOK(s.heap) /\ Refs(s.entries) \in Seq(DOMAIN s.heap)
      BY <2>1, SnapshotKinds DEF Roots
    <2>3. AwareFound(s.heap, Refs(s.entries), {}) <=> "aware" \in KindsFrom(heap, Roots)
      BY <2>2, AwareFoundExactly
    <2> QED  BY <2>3 DEF Snapshot, s
  <1>4. /\ "unusable" \notin KeysOf(given) <=>
                \A i \in DOMAIN given : given[i].key # "unusable"
        /\ "managed" \notin KeysOf(given) <=>
                \A i \in DOMAIN given : given[i].key # "managed"
    BY DEF KeysOf
  <1>5. MappingValid <=>
            /\ \A i \in DOMAIN given : given[i].key # "unusable"
            /\ \A i \in DOMAIN given : Serializable(heap, given[i].ref)
            /\ role = "options" => \A i \in DOMAIN given : given[i].key # "managed"
    BY DEF MappingValid
  <1> QED  BY <1>1, <1>2, <1>3, <1>4, <1>5 DEF Accepted, Fine

\* Nothing is handed out, and so nothing changed, before a source is constructed
AcceptInv ==
    /\ changes \in Nat /\ limits.target \in Int /\ limits.max \in Int
    /\ pc \in {"construct", "refused"} => handed = << >>
    /\ pc = "refused" => ~Fine
    /\ pc = "constructed" /\ changes = 0 => Fine

(* The limits that a caller may give are integers. *)
LEMMA AcceptInit == Init => AcceptInv
  <1> SUFFICES ASSUME Init PROVE AcceptInv
    OBVIOUS
  <1>1. limits.target \in Int /\ limits.max \in Int
    <2>1. CASE limits = [target |-> 1, max |-> 1]
      BY <2>1
    <2>2. CASE limits \in [target : LimitValues, max : LimitValues]
      BY <2>2, ContractsAssumption
    <2> QED  BY <2>1, <2>2 DEF Init
  <1> QED  BY <1>1 DEF Init, AcceptInv

(* Construction decides as it should, and nothing else is decided later. *)
LEMMA AcceptStep == SnapshotInv /\ AcceptInv /\ [Next]_vars => AcceptInv'
  <1> SUFFICES ASSUME SnapshotInv, AcceptInv, [Next]_vars PROVE AcceptInv'
    OBVIOUS
  <1>1. HeapOK(heap) /\ given \in EntriesTo(DOMAIN heap)
    <2>1. PICK own : SnapshotOwns(own)
      BY DEF SnapshotInv
    <2>2. DOMAIN heap \ own \subseteq DOMAIN heap
      OBVIOUS
    <2> QED  BY <2>1, <2>2, EntriesToMore DEF SnapshotInv, SnapshotOwns
  <1>2. Accepted <=> Fine
    BY <1>1, AcceptedIffFine DEF AcceptInv
  <1>3. CASE Construct
    <2> DEFINE s == SnapshotAll(heap, given)
    <2>1. CopiedUpTo(s, Len(given), heap, given)
      BY <1>1, SnapshotCopies
    <2>2. heap' = s.heap
      BY <1>3 DEF Construct, Snapshot
    <2> HIDE DEF s
    <2>3. Extended(heap', heap)
      BY <2>1, <2>2 DEF CopiedUpTo
    <2>4. Roots' = Roots /\ given' = given /\ role' = role /\ limits' = limits
      BY <1>3 DEF Construct, Roots
    <2>5. Roots \subseteq DOMAIN heap
      BY <1>1, EntryFacts DEF Roots, Refs, Range
    <2>6. Cyclic(heap', Roots) <=> Cyclic(heap, Roots)
      BY <1>1, <2>3, <2>5, ExtendedCycles
    <2>7. KindsFrom(heap', Roots) = KindsFrom(heap, Roots)
      <3>1. Reachable(heap', Roots) = Reachable(heap, Roots)
        BY <1>1, <2>3, <2>5, ExtendedReach
      <3>2. Reachable(heap, Roots) \subseteq DOMAIN heap
        BY <1>1, <2>5, ReachableClosed DEF Closed
      <3>3. \A r \in DOMAIN heap : heap'[r] = heap[r]
        BY <2>3 DEF Extended
      <3> QED  BY <3>1, <3>2, <3>3 DEF KindsFrom
    <2>8. Fine
      BY <1>2, <1>3 DEF Construct
    <2>9. Fine'
      BY <2>4, <2>6, <2>7, <2>8 DEF Fine
    <2> QED  BY <1>3, <2>9 DEF Construct, AcceptInv
  <1>4. CASE Refuse
    <2>1. ~Fine
      BY <1>2, <1>4 DEF Refuse
    <2>2. Fine' <=> Fine
      BY <1>4 DEF Refuse, Fine, Roots
    <2> QED  BY <1>4, <2>1, <2>2 DEF Refuse, AcceptInv
  <1>5. CASE Group
    BY <1>5 DEF Group, AcceptInv
  <1>6. CASE HandOut
    BY <1>6 DEF HandOut, AcceptInv
  <1>7. ASSUME NEW ref, Change(ref), pc \notin {"construct", "refused"} PROVE AcceptInv'
    BY <1>7 DEF Change, AcceptInv
  <1>8. CASE CallerChanges
    BY <1>7, <1>8 DEF CallerChanges
  <1>9. CASE DriverChanges
    <2>1. PICK ref \in Reachable(heap, Range(Refs(handed))) : Change(ref)
      BY <1>9 DEF DriverChanges
    <2>2. handed # << >>
      <3> SUFFICES ASSUME handed = << >> PROVE FALSE
        OBVIOUS
      <3>1. Range(Refs(handed)) = {}
        BY DEF Refs, Range
      <3>2. Closed(heap, {})
        BY DEF Closed
      <3>3. Reachable(heap, Range(Refs(handed))) \subseteq {}
        BY <1>1, <3>1, <3>2, ReachableLeast
      <3> QED  BY <3>3
    <2>3. pc \notin {"construct", "refused"}
      BY <2>2 DEF AcceptInv
    <2> QED  BY <1>7, <2>1, <2>3
  <1>10. CASE UNCHANGED vars
    <2>1. Fine' <=> Fine
      BY <1>10 DEF vars, Fine, Roots
    <2> QED  BY <1>10, <2>1 DEF vars, AcceptInv
  <1> QED  BY <1>3, <1>4, <1>5, <1>6, <1>8, <1>9, <1>10 DEF Next

(* ResourceLimits, freeze_options, freeze_query_parameters, snapshot_serializable and
   validate_query_parameter_values: a source is refused exactly for what makes its
   limits or its mappings unfit, however its objects are shared or nested. *)
THEOREM AcceptedExactlyAlways == Spec => []AcceptedExactly
  <1>1. AcceptInv => AcceptedExactly
    BY DEF AcceptInv, AcceptedExactly, Fine, KindsFrom, KeysOf, Roots
  <1>2. Init => AcceptInv
    BY AcceptInit
  <1>3. SnapshotInv /\ AcceptInv /\ [Next]_vars => AcceptInv'
    BY AcceptStep
  <1> QED  BY <1>1, <1>2, <1>3, SnapshotInit, SnapshotStep, PTL DEF Spec
==============================================================================
