--------------------------- MODULE SourceContracts ---------------------------
(***************************************************************************)
(* What a data source takes from its caller and keeps                      *)
(* (_common/contracts.py): ResourceLimits, the snapshots of option and     *)
(* parameter mappings (freeze_options, freeze_query_parameters,            *)
(* snapshot_serializable), the fresh copies that driver calls and queries  *)
(* get of them (thaw_options, QuerySpec), and the groups of scan tasks     *)
(* that the limits allow.                                                  *)
(*                                                                         *)
(* Python objects are entries of a heap; containers (lists, tuples, sets,  *)
(* and the values of mappings, whose keys are plain) hold references, so   *)
(* objects may be shared or cyclic, and the caller and the drivers may     *)
(* change the containers they hold at any time.                            *)
(***************************************************************************)
EXTENDS Grouping

CONSTANTS CallerHeaps,   \* heaps of the caller, as sequences of objects
          Weights,       \* tables: identifiers with their weights
          LimitValues,   \* values for target_tasks and max_tasks, valid or not
          MaxTasks,      \* _MAX_TASKS
          MaxChanges,    \* bound: changes by the caller and by drivers
          MaxCalls,      \* bound: copies handed out
          Depth          \* bound: how far down values are compared

VARIABLES role,          \* "options" or "query_parameters"
          heap,          \* all objects there are
          given,         \* the mapping: a sequence of keys and references
          limits,        \* target_tasks and max_tasks
          weight,        \* the tablets or partitions, with weights
          pc,
          frozen,        \* the data source's snapshot of the mapping
          original,      \* history: what the mapping said at construction
          handed,        \* the last copy a driver got
          changes, calls,      \* number of changes and of copies so far
          adjacent, weighted   \* the groups of both connectors

vars == <<role, heap, given, limits, weight, pc, frozen, original, handed, changes,
          calls, adjacent, weighted>>

Object(kind, items) == [kind |-> kind, items |-> items]
Container(items) == Object("container", items)
Plain == Object("plain", << >>)

\* A value can be plain, a temporal value with a time zone, something callable,
\* or something that cannot be pickled (a file, a client, an SSLContext)
Kinds == {"plain", "aware", "callable", "handle", "container"}

\* References are to objects that exist, and only containers have any
HeapOK(h) ==
    /\ h \in Seq([kind : Kinds, items : Seq(Nat)])
    /\ \A r \in DOMAIN h :
          /\ \A i \in DOMAIN h[r].items : h[r].items[i] \in DOMAIN h
          /\ h[r].kind # "container" => h[r].items = << >>

\* The mappings refer to the first two objects
ASSUME ContractsAssumption ==
    /\ \A h \in CallerHeaps : HeapOK(h) /\ Len(h) >= 2
    /\ \A w \in Weights : /\ IsFiniteSet(DOMAIN w)
                           /\ DOMAIN w \subseteq Int
                           /\ w \in [DOMAIN w -> Int]
    /\ LimitValues \subseteq Int
    /\ MaxTasks \in Nat \ {0}
    /\ Depth \in Nat

Entry(key, ref) == [key |-> key, ref |-> ref]

\* "managed" is a key the connector sets itself, "unusable" one that is no
\* string or empty
Mappings == {<< >>, <<Entry("b", 1)>>, <<Entry("b", 1), Entry("a", 2)>>,
             <<Entry("managed", 1)>>, <<Entry("b", 1), Entry("unusable", 2)>>}

Init ==
    /\ role \in {"options", "query_parameters"}
    /\ \/ /\ heap \in CallerHeaps
          /\ given \in Mappings
          /\ limits = [target |-> 1, max |-> 1]
          /\ weight = [i \in {} |-> 0]
       \/ /\ heap = <<Plain>>
          /\ given = << >>
          /\ role = "options"
          /\ limits \in [target : LimitValues, max : LimitValues]
          /\ weight \in Weights
    /\ pc = "construct"
    /\ frozen = << >>
    /\ original = << >>
    /\ handed = << >>
    /\ changes = 0
    /\ calls = 0
    /\ adjacent = << >>
    /\ weighted = << >>

-----------------------------------------------------------------------------
(* snapshot_serializable *)

\* _validate_snapshot_structure: nothing callable, and no container inside of
\* itself; `active` are the containers around this one
ValidStructure(h, ref, active) ==
    LET valid[around \in SUBSET DOMAIN h] ==
            [r \in DOMAIN h |->
                /\ h[r].kind # "callable"
                /\ h[r].kind = "container" =>
                      /\ r \notin around
                      /\ \A i \in DOMAIN h[r].items :
                            valid[around \cup {r}][h[r].items[i]]]
    IN  valid[active][ref]

\* The objects that can be reached from a set of them, itself included: no
\* more steps are needed than there are objects
Reachable(h, refs) ==
    LET within[n \in 0..Len(h)] ==
            IF n = 0 THEN refs
            ELSE LET fewer == within[n - 1]
                 IN  fewer \cup UNION {Range(h[r].items) : r \in fewer}
    IN  within[Len(h)]

\* pickle.dumps and loads: new objects, shared as the old ones were
Pickled(h, ref) ==
    LET old == Sorted(Reachable(h, {ref}), <)
        New(r) == Len(h) + CHOOSE i \in DOMAIN old : old[i] = r
        copies == [i \in DOMAIN old |->
                      Object(h[old[i]].kind,
                             [k \in DOMAIN h[old[i]].items |-> New(h[old[i]].items[k])])]
    IN  [heap |-> h \o copies, ref |-> New(ref)]

Serializable(h, ref) ==
    /\ ValidStructure(h, ref, {})
    /\ \A r \in Reachable(h, {ref}) : h[r].kind # "handle"

\* Snapshots of all the values of a mapping, one after the other
SnapshotAll(h, entries) ==
    LET done[k \in 0..Len(entries)] ==
            IF k = 0 THEN [heap |-> h, entries |-> << >>]
            ELSE LET before == done[k - 1]
                     copy == Pickled(before.heap, entries[k].ref)
                 IN  [heap |-> copy.heap,
                      entries |-> Append(before.entries, Entry(entries[k].key, copy.ref))]
    IN  done[Len(entries)]

-----------------------------------------------------------------------------
(* Construction *)

\* Mutant: containers are not looked into
AwareAtTop(h, pending, visited) ==
    \E i \in DOMAIN pending : h[pending[i]].kind = "aware"

\* validate_query_parameter_values: each container is looked into once
AwareFound(h, pending, visited) ==
    LET found[p \in [todo : Seq(DOMAIN h), seen : SUBSET DOMAIN h]] ==
            IF p.todo = << >> THEN FALSE
            ELSE LET ref == Head(p.todo)
                     enter == h[ref].kind = "container" /\ ref \notin p.seen
                 IN  \/ h[ref].kind = "aware"
                     \/ found[[todo |-> (IF enter THEN h[ref].items ELSE << >>) \o Tail(p.todo),
                              seen |-> IF enter THEN p.seen \cup {ref} ELSE p.seen]]
    IN  found[[todo |-> pending, seen |-> visited]]

Refs(entries) == [i \in DOMAIN entries |-> entries[i].ref]

\* ResourceLimits.__post_init__; the other limits are checked in the same way
LimitsValid ==
    /\ limits.target \in 1..MaxTasks
    /\ limits.max \in 1..MaxTasks
    /\ limits.target <= limits.max

\* freeze_options and freeze_query_parameters, up to the snapshots
MappingValid ==
    /\ \A i \in DOMAIN given : /\ given[i].key # "unusable"
                               /\ Serializable(heap, given[i].ref)
    /\ role = "options" => \A i \in DOMAIN given : given[i].key # "managed"

\* freeze_options sorts by key; query parameters keep their order
Ordered(entries) ==
    IF role = "options" /\ Len(entries) = 2 THEN Reverse(entries) ELSE entries

\* What is to be read from a reference, down to a depth
Value(h, ref) ==
    LET read[d \in 0..Depth] ==
            IF d = 0 THEN [r \in DOMAIN h |-> Object(h[r].kind, << >>)]
            ELSE LET inner == read[d - 1]
                 IN  [r \in DOMAIN h |->
                         Object(h[r].kind,
                                [i \in DOMAIN h[r].items |-> inner[h[r].items[i]]])]
    IN  read[Depth][ref]

\* By key
Values(h, entries) ==
    {[key |-> entries[i].key, value |-> Value(h, entries[i].ref)] : i \in DOMAIN entries}

Snapshot == SnapshotAll(heap, given)

\* Whether everything the caller gave is taken
Accepted ==
    /\ LimitsValid
    /\ MappingValid
    /\ role = "query_parameters" =>
          ~AwareFound(Snapshot.heap, Refs(Snapshot.entries), {})

Construct ==
    /\ pc = "construct"
    /\ Accepted
    /\ heap' = Snapshot.heap
    /\ frozen' = Ordered(Snapshot.entries)
    /\ original' = Values(heap, given)
    /\ pc' = "constructed"
    /\ UNCHANGED <<role, given, limits, weight, handed, changes, calls, adjacent, weighted>>

\* ConfigurationError
Refuse ==
    /\ pc = "construct"
    /\ ~Accepted
    /\ pc' = "refused"
    /\ UNCHANGED <<role, heap, given, limits, weight, frozen, original, handed, changes,
                   calls, adjacent, weighted>>

-----------------------------------------------------------------------------
(* Use *)

\* Both connectors group what they discovered
Group ==
    /\ pc = "constructed"
    /\ adjacent' = GroupAdjacentIds(DOMAIN weight, limits.target, limits.max)
    /\ weighted' = GroupWeightedItems(weight, limits.target, limits.max)
    /\ pc' = "planned"
    /\ UNCHANGED <<role, heap, given, limits, weight, frozen, original, handed, changes,
                   calls>>

\* Mutant: the driver gets the snapshot itself
HandOutShared ==
    /\ pc = "planned"
    /\ calls < MaxCalls
    /\ handed' = frozen
    /\ calls' = calls + 1
    /\ UNCHANGED <<role, heap, given, limits, weight, pc, frozen, original, changes,
                   adjacent, weighted>>

\* thaw_options for a connection, or the QuerySpec of a task
HandOut ==
    /\ pc = "planned"
    /\ calls < MaxCalls
    /\ heap' = SnapshotAll(heap, frozen).heap
    /\ handed' = SnapshotAll(heap, frozen).entries
    /\ calls' = calls + 1
    /\ UNCHANGED <<role, given, limits, weight, pc, frozen, original, changes, adjacent,
                   weighted>>

\* A container is emptied, or gets another plain object
Change(ref) ==
    /\ changes < MaxChanges
    /\ heap[ref].kind = "container"
    /\ \/ heap' = [heap EXCEPT ![ref].items = << >>]
       \/ heap' = Append([heap EXCEPT ![ref].items = Append(@, Len(heap) + 1)], Plain)
    /\ changes' = changes + 1
    /\ UNCHANGED <<role, given, limits, weight, pc, frozen, original, handed, calls,
                   adjacent, weighted>>

CallerChanges ==
    /\ pc \in {"constructed", "planned"}
    /\ \E ref \in Reachable(heap, Range(Refs(given))) : Change(ref)

DriverChanges == \E ref \in Reachable(heap, Range(Refs(handed))) : Change(ref)

Next ==
    \/ Construct \/ Refuse \/ Group
    \/ HandOut \/ CallerChanges \/ DriverChanges

Spec == Init /\ [][Next]_vars

-----------------------------------------------------------------------------
(* Properties of the snapshots *)

(* What a data source was given stays what it was: neither the caller, who may
   go on using and changing its mappings, nor a driver, which may change the
   options it gets, can change what the next driver call or task is given. *)
SnapshotsIndependent ==
    pc \in {"constructed", "planned"} => Values(heap, frozen) = original

\* Containers that contain themselves, by following references
Inside(h, ref) == Reachable(h, Range(h[ref].items))
Cyclic(h, refs) == \E r \in Reachable(h, refs) : r \in Inside(h, r)

(* A source is constructed exactly if its limits are in order, its keys are
   non-empty strings, nothing that its mappings reach is cyclic, callable or
   cannot be pickled, no option is managed by the connector and no query
   parameter has a time zone.  An object
   that is only shared, within a value or between two, is no cycle. *)
AcceptedExactly ==
    LET roots == Range(Refs(given))
        kinds == {heap[r].kind : r \in Reachable(heap, roots)}
        keys == {given[i].key : i \in DOMAIN given}
        fine == /\ ~Cyclic(heap, roots)
                /\ kinds \cap {"callable", "handle"} = {}
                /\ role = "query_parameters" => "aware" \notin kinds
                /\ "unusable" \notin keys
                /\ role = "options" => "managed" \notin keys
                /\ 1 <= limits.target /\ limits.target <= limits.max /\ limits.max <= MaxTasks
    IN  (pc = "refused" => ~fine) /\ (pc = "constructed" /\ changes = 0 => fine)

-----------------------------------------------------------------------------
(* Properties of the groups *)

Items == DOMAIN weight
HasGroups == pc = "planned" /\ Items # {}

\* The groups are non-empty, disjoint, ascending and cover the input
Partitions(groups) ==
    /\ \A k \in DOMAIN groups :
          /\ groups[k] # << >>
          /\ \A i, j \in DOMAIN groups[k] : i < j => groups[k][i] < groups[k][j]
    /\ \A k, l \in DOMAIN groups :
          k # l => Range(groups[k]) \cap Range(groups[l]) = {}
    /\ UNION {Range(groups[k]) : k \in DOMAIN groups} = Items

(* Whatever limits were accepted, every discovered tablet and partition is in
   exactly one task and there are no more tasks than target_tasks allows; the
   tasks of Doris hold consecutive tablets, all but the last equally many. *)
GroupsPartition ==
    HasGroups =>
        /\ Partitions(adjacent) /\ Len(adjacent) <= limits.target
        /\ \A k, l \in DOMAIN adjacent : k < l =>
              \A i \in DOMAIN adjacent[k], j \in DOMAIN adjacent[l] :
                  adjacent[k][i] < adjacent[l][j]
        /\ \A k \in 1..(Len(adjacent) - 1) : Len(adjacent[k]) = Len(adjacent[1])
        /\ Partitions(weighted) /\ Len(weighted) <= limits.target

Load(S) == MapThenSumSet(LAMBDA i : weight[i], S)

\* Reference: the smallest possible load of the heaviest of m tasks
BestMakespan(m) ==
    Min({Max({Load({i \in Items : f[i] = k}) : k \in 1..m}) : f \in [Items -> 1..m]})

(* The greedy balance is as good as longest-processing-time scheduling is
   known to be: the heaviest task is within 4/3 - 1/(3m) of the best split of
   the partitions into m tasks. *)
WellBalanced ==
    HasGroups =>
        LET m == GroupCount(Cardinality(Items), limits.target, limits.max)
            heaviest == Max({Load(Range(weighted[k])) : k \in DOMAIN weighted})
        IN  3 * m * heaviest <= (4 * m - 1) * BestMakespan(m)
=============================================================================
