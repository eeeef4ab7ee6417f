-------------------------- MODULE ScanPlanningProofs --------------------------
(***************************************************************************)
(* Proofs about one scan of a table, for any rows, tablets or partitions,  *)
(* limits and number of writes: the inductive invariant of a scan, with    *)
(* one lemma per action, and the properties of ScanPlanning that follow    *)
(* from it.  That the groups partition what was discovered is proved in    *)
(* SharedLemmas.                                                           *)
(***************************************************************************)
EXTENDS ScanPlanning, SharedLemmas

-----------------------------------------------------------------------------
(* The inductive invariant *)

Discovering == {"bind", "query_plan", "engine", "columns", "parts", "fallback"}

\* Nothing has been planned or read yet
NothingYet ==
    /\ tasks = << >> /\ groups = << >> /\ outcome = "none" /\ planned = AllParts
    /\ \A r \in RowIds : got[r] = 0

\* What each step of the scan may rely on
PhaseInv ==
    /\ pc \in {"start", "count"} \cup Discovering => NothingYet
    /\ pc = "count" => CountAccepted
    /\ pc \in {"emit", "run"} \cup Discovering => request.count = "none" /\ outcome = "none"
    /\ error # "none" => pc \in {"fallback", "emit", "run", "done"}
    /\ pc = "fallback" => error # "none"
    /\ pc = "columns" => source.engine = "local"
    /\ pc = "parts" => source.engine = "local" /\ source.shadowed = "no"
    /\ pc \in {"bind", "query_plan"} => source.shadowed = "no"
    /\ pc = "run" => groups = << >>
    /\ outcome = "ok" => pc = "done"

\* A failed discovery: no task ever, or one unrestricted task
FallbackInv ==
    error # "none" =>
        IF FallsBack
        THEN \/ pc = "fallback"
             \/ groups = <<AllParts>> /\ tasks = << >>
             \/ groups = << >> /\ Len(tasks) = 1 /\ tasks[1].ids = AllParts
        ELSE tasks = << >> /\ pc \in {"fallback", "done"} /\ outcome # "ok"

\* Groups and tasks stay within the plan; where the virtual column is hidden
\* they are not restricted
PlanInv ==
    /\ \A k \in DOMAIN groups : groups[k] \subseteq planned
    /\ \A i \in DOMAIN tasks : tasks[i].ids \subseteq planned \/ tasks[i].limit = 0
    /\ source.shadowed # "no" =>
          /\ \A k \in DOMAIN groups : groups[k] = AllParts
          /\ \A i \in DOMAIN tasks : tasks[i].ids = AllParts

\* Nothing is read by two tasks
DisjointInv ==
    /\ \A k, l \in DOMAIN groups : k # l => groups[k] \cap groups[l] = {}
    /\ \A i, j \in DOMAIN tasks : i # j => tasks[i].ids \cap tasks[j].ids = {}
    /\ \A i \in DOMAIN tasks, k \in DOMAIN groups : tasks[i].ids \cap groups[k] = {}
    /\ \A k \in DOMAIN groups : groups[k] = {} => Len(groups) = 1 /\ tasks = << >>

\* A row Daft has was asked for, was read once, and, unless it was deleted
\* since, is where some finished task read
GotInv ==
    \A r \in RowIds :
        /\ got[r] <= 1
        /\ got[r] > 0 => r \in Wanted(RowIds)
        /\ got[r] > 0 /\ r \notin touched => table[r] # Absent
        /\ got[r] > 0 /\ table[r] # Absent =>
              /\ table[r] \in planned
              /\ \E i \in DOMAIN tasks : tasks[i].state = "done" /\ table[r] \in tasks[i].ids

\* The rows every task must account for
Kept == Selected(PresentRows) \ touched

\* Once there is a plan every row it must account for is in a group, or in a
\* task with the limit of the query
CoverInv ==
    pc \in {"emit", "run"} \/ (outcome = "ok" /\ request.count = "none") =>
        \A r \in Kept :
            \/ \E k \in DOMAIN groups : table[r] \in groups[k]
            \/ \E i \in DOMAIN tasks : table[r] \in tasks[i].ids /\ tasks[i].limit = DatabaseLimit

GotRows == {r \in RowIds : got[r] > 0}

\* A finished task has delivered its rows, unless the limit is met anyway
DoneInv ==
    \A i \in DOMAIN tasks :
        tasks[i].state = "done" /\ tasks[i].limit = DatabaseLimit =>
            \/ DatabaseLimit # NoLimit /\ Cardinality(GotRows) >= DatabaseLimit
            \/ \A r \in Wanted(Kept) : table[r] \in tasks[i].ids => got[r] > 0

\* What a scan that succeeded leaves
ResultInv ==
    outcome = "ok" =>
        IF request.count = "none"
        THEN /\ groups = << >> /\ \A i \in DOMAIN tasks : tasks[i].state = "done"
             /\ result \in Sized(GotRows, request.limit)
        ELSE CountAccepted /\ result = PresentRows

IInv ==
    /\ TypeOK /\ PhaseInv /\ FallbackInv /\ PlanInv /\ DisjointInv /\ GotInv
    /\ CoverInv /\ DoneInv /\ ResultInv

-----------------------------------------------------------------------------
(* Steps that make no plan and read nothing *)

(* The limit a scan can have. *)
LEMMA RequestFacts ==
    ASSUME PlanningAssumption, request \in Requests
    PROVE  /\ request.limit \in Nat \cup {NoLimit}
           /\ request.count = "none" => request.limit \in Limits \cup {NoLimit}
           /\ request.filter \in {"none", "pushed", "residual"}
  <1>1. CASE request \in Request({"none"}, {"known"}, {"none", "pushed", "residual"},
                                Limits \cup {NoLimit})
    BY <1>1 DEF PlanningAssumption, Request, NoLimit
  <1>2. CASE request \in Request({"none"}, {"unknown", "empty"}, {"none"}, {NoLimit})
    BY <1>2 DEF Request, NoLimit
  <1>3. CASE request \in Request({"all", "other"}, {"known"}, {"none", "pushed"}, {1, NoLimit})
    BY <1>3 DEF Request, NoLimit
  <1> QED  BY <1>1, <1>2, <1>3 DEF Requests

(* The parts of the invariant that only depend on the plan and the rows. *)
LEMMA Frame ==
    ASSUME IInv,
           UNCHANGED <<source, request, table, groups, tasks, got, planned, touched>>
    PROVE  /\ PlanInv' /\ DisjointInv' /\ GotInv' /\ DoneInv'
           /\ Kept' = Kept /\ GotRows' = GotRows /\ PresentRows' = PresentRows
           /\ DatabaseLimit' = DatabaseLimit
           /\ NothingYet /\ outcome' = "none" => NothingYet'
  <1>1. /\ Kept' = Kept /\ GotRows' = GotRows /\ PresentRows' = PresentRows
        /\ DatabaseLimit' = DatabaseLimit
    BY DEF Kept, Selected, PresentRows, GotRows, DatabaseLimit, AllParts
  <1>2. PlanInv'
    BY DEF IInv, PlanInv
  <1>3. DisjointInv'
    BY DEF IInv, DisjointInv
  <1>4. GotInv'
    BY DEF IInv, GotInv, Wanted
  <1>5. DoneInv'
    <2>1. \A R : Wanted(R)' = Wanted(R)
      BY DEF Wanted
    <2> QED  BY <1>1 DEF IInv, DoneInv, Wanted
  <1>6. NothingYet /\ outcome' = "none" => NothingYet'
    BY DEF NothingYet
  <1> QED  BY <1>1, <1>2, <1>3, <1>4, <1>5, <1>6

(* The invariant holds when a scan begins. *)
LEMMA InitInv == ASSUME PlanningAssumption, Init PROVE IInv
  <1>1. TypeOK
    BY DEF Init, TypeOK, PlanningAssumption, AllParts
  <1>2. NothingYet
    BY DEF Init, NothingYet
  <1>3. PhaseInv /\ FallbackInv
    BY <1>2 DEF Init, PhaseInv, FallbackInv, Discovering
  <1>4. PlanInv /\ DisjointInv /\ GotInv /\ CoverInv /\ DoneInv /\ ResultInv
    BY DEF Init, PlanInv, DisjointInv, GotInv, CoverInv, DoneInv, ResultInv
  <1> QED  BY <1>1, <1>3, <1>4 DEF IInv

(* An unaccepted count ends the scan; an accepted one goes to the database. *)
LEMMA CountStep == ASSUME PlanningAssumption, IInv, Count PROVE IInv'
  <1> USE DEF Count, Fail
  <1>1. PlanInv' /\ DisjointInv' /\ GotInv' /\ DoneInv'
        /\ (NothingYet /\ outcome' = "none" => NothingYet')
    BY Frame
  <1>2. TypeOK' /\ NothingYet /\ request' = request /\ error = "none"
    BY DEF IInv, TypeOK, PhaseInv
  <1>3. outcome' # "ok" /\ pc' \in {"count", "done"}
        /\ (pc' = "count" => CountAccepted' /\ outcome' = "none")
    BY <1>2 DEF NothingYet, CountAccepted
  <1>4. PhaseInv' /\ FallbackInv' /\ CoverInv' /\ ResultInv'
    BY <1>1, <1>2, <1>3 DEF PhaseInv, FallbackInv, CoverInv, ResultInv, Discovering
  <1> QED  BY <1>1, <1>2, <1>4 DEF IInv

(* Discovery moves on, or fails. *)
LEMMA DiscoveryStep ==
    ASSUME PlanningAssumption, IInv,
           pc \in {"bind", "query_plan", "engine", "columns", "parts"},
           pc' \in Discovering, error' \in {"none", "recoverable", "fatal"},
           error' # "none" <=> pc' = "fallback",
           pc' = "columns" => source.engine = "local",
           pc' = "parts" => source.engine = "local" /\ source.shadowed = "no",
           pc' \in {"bind", "query_plan"} => source.shadowed = "no",
           UNCHANGED <<source, request, table, groups, tasks, got, outcome, result,
                       planned, touched, writes>>
    PROVE  IInv'
  <1>1. PlanInv' /\ DisjointInv' /\ GotInv' /\ DoneInv'
        /\ (NothingYet /\ outcome' = "none" => NothingYet')
    BY Frame
  <1>2. NothingYet /\ request.count = "none" /\ error = "none" /\ outcome = "none"
    BY DEF IInv, PhaseInv, Discovering, NothingYet
  <1>3. TypeOK'
    BY DEF IInv, TypeOK, Discovering
  <1>4. NothingYet'
    BY <1>1, <1>2
  <1>5. PhaseInv'
    BY <1>2, <1>4 DEF PhaseInv, Discovering
  <1>6. FallbackInv' /\ CoverInv' /\ ResultInv'
    BY <1>2, <1>4 DEF FallbackInv, CoverInv, ResultInv, Discovering, NothingYet
  <1> QED  BY <1>1, <1>3, <1>5, <1>6 DEF IInv

(* _materialize_plan_sql binds the parameters of the planning query. *)
LEMMA BindStep == ASSUME PlanningAssumption, IInv, Bind PROVE IInv'
  <1>1. source.shadowed = "no" /\ error = "none"
    BY DEF IInv, PhaseInv, Bind
  <1> QED  BY <1>1, DiscoveryStep DEF Bind, Discovering

(* A query of discovery fails. *)
LEMMA DiscoveryFailsStep == ASSUME PlanningAssumption, IInv, DiscoveryFails PROVE IInv'
  BY DiscoveryStep DEF DiscoveryFails, Discovering

(* The scan ends without a result. *)
LEMMA FailStep ==
    ASSUME PlanningAssumption, IInv, pc' = "done", NEW reason,
           reason \in {"compatibility", "discovery", "fatal", "transport"}, outcome' = reason,
           pc = "fallback" => ~FallsBack,
           UNCHANGED <<source, request, table, error, groups, tasks, got, result,
                       planned, touched, writes>>
    PROVE  IInv'
  <1>1. PlanInv' /\ DisjointInv' /\ GotInv' /\ DoneInv'
    BY Frame
  <1>2. TypeOK'
    BY DEF IInv, TypeOK
  <1>3. PhaseInv' /\ CoverInv' /\ ResultInv'
    BY DEF PhaseInv, CoverInv, ResultInv, Discovering
  <1>4. FallbackInv'
    <2>1. CASE error = "none"
      BY <2>1 DEF FallbackInv
    <2>2. CASE error # "none" /\ ~FallsBack
      <3>1. ~FallsBack'
        BY <2>2 DEF FallsBack
      <3> QED  BY <2>2, <3>1 DEF IInv, FallbackInv
    <2>3. CASE error # "none" /\ FallsBack
      <3>1. FallsBack' /\ pc # "fallback"
        BY <2>3 DEF FallsBack
      <3> QED  BY <2>3, <3>1 DEF IInv, FallbackInv, AllParts
    <2> QED  BY <2>1, <2>2, <2>3
  <1> QED  BY <1>1, <1>2, <1>3, <1>4 DEF IInv

-----------------------------------------------------------------------------
(* Steps that make the plan *)

\* Disjoint groups that hold every row there is to account for
GoodPlan ==
    /\ groups \in Seq(SUBSET AllParts) /\ planned \subseteq AllParts
    /\ \A k \in DOMAIN groups :
          groups[k] \subseteq planned /\ (groups[k] = {} => Len(groups) = 1)
    /\ \A k, l \in DOMAIN groups : k # l => groups[k] \cap groups[l] = {}
    /\ source.shadowed # "no" => \A k \in DOMAIN groups : groups[k] = AllParts
    /\ \A r \in Kept : \E k \in DOMAIN groups : table[r] \in groups[k]

(* A good plan, made before anything was read. *)
LEMMA PlanMade ==
    ASSUME PlanningAssumption, IInv, NothingYet, request.count = "none", GoodPlan',
           pc' = "emit", error # "none" => FallsBack /\ groups' = <<AllParts>>,
           UNCHANGED <<source, request, table, error, tasks, got, outcome, result,
                       touched, writes>>
    PROVE  IInv'
  <1>1. TypeOK'
    BY DEF IInv, TypeOK, GoodPlan, AllParts
  <1>2. tasks' = << >> /\ outcome' = "none" /\ \A r \in RowIds : got'[r] = 0
    BY DEF NothingYet
  <1>3. PhaseInv'
    BY <1>2 DEF PhaseInv, Discovering
  <1>4. FallbackInv'
    <2>1. error # "none" => FallsBack'
      BY DEF FallsBack
    <2>2. AllParts' = AllParts
      BY DEF AllParts
    <2> QED  BY <1>2, <2>1, <2>2 DEF FallbackInv
  <1>5. PlanInv'
    BY <1>2 DEF PlanInv, GoodPlan
  <1>6. DisjointInv'
    BY <1>2 DEF DisjointInv, GoodPlan
  <1>7. GotInv'
    BY <1>2 DEF GotInv
  <1>8. CoverInv'
    BY DEF CoverInv, GoodPlan
  <1>9. DoneInv' /\ ResultInv'
    BY <1>2 DEF DoneInv, ResultInv
  <1> QED  BY <1>1, <1>3, <1>4, <1>5, <1>6, <1>7, <1>8, <1>9 DEF IInv

(* One task for the whole table. *)
LEMMA WholeTable ==
    ASSUME PlanningAssumption, IInv, NothingYet, request.count = "none",
           groups' = <<AllParts>>, pc' = "emit", error # "none" => FallsBack,
           UNCHANGED <<source, request, table, error, tasks, got, outcome, result,
                       planned, touched, writes>>
    PROVE  IInv'
  <1>1. /\ AllParts # {} /\ AllParts' = AllParts
        /\ groups' \in Seq(SUBSET AllParts) /\ Len(groups') = 1 /\ DOMAIN groups' = {1}
        /\ groups'[1] = AllParts /\ planned' = AllParts
    BY DEF AllParts, NothingYet
  <1>2. \A r \in Kept' : table'[r] \in AllParts
    BY DEF IInv, TypeOK, Kept, Selected, PresentRows
  <1>3. GoodPlan'
    BY <1>1, <1>2 DEF GoodPlan
  <1> QED  BY <1>3, PlanMade

(* get_tasks rejects the columns, plans one task, or starts discovery. *)
LEMMA PlanStep == ASSUME PlanningAssumption, IInv, Plan PROVE IInv'
  <1>1. NothingYet /\ error = "none" /\ pc = "start" /\ request.count = "none" /\ outcome = "none"
    BY DEF IInv, PhaseInv, Plan, NothingYet
  <1>2. CASE ~ColumnsAccepted /\ Fail("compatibility") /\ UNCHANGED groups
    BY <1>1, <1>2, FailStep DEF Plan, Fail
  <1>3. CASE /\ ColumnsAccepted /\ PlannedWithoutDiscovery /\ groups' = <<AllParts>>
             /\ pc' = "emit" /\ UNCHANGED outcome
    BY <1>1, <1>3, WholeTable DEF Plan
  <1>4. CASE /\ ColumnsAccepted /\ ~PlannedWithoutDiscovery /\ pc' = FirstDiscoveryStep
             /\ UNCHANGED <<groups, outcome>>
    <2>1. UNCHANGED <<source, request, table, error, groups, tasks, got, outcome, result,
                      planned, touched, writes>>
      BY <1>4 DEF Plan
    <2>2. PlanInv' /\ DisjointInv' /\ GotInv' /\ DoneInv'
          /\ (NothingYet /\ outcome' = "none" => NothingYet')
      BY <2>1, Frame
    <2>3. source.kind \in {"doris", "clickhouse"} /\ (source.kind = "doris" => source.shadowed = "no")
      BY DEF IInv, TypeOK, Sources
    <2>4. \/ pc' = "engine"
          \/ pc' \in {"bind", "query_plan"} /\ source.shadowed = "no"
      BY <1>4, <2>3 DEF FirstDiscoveryStep
    <2>5. TypeOK'
      BY <2>1, <2>4 DEF IInv, TypeOK
    <2>6. NothingYet' /\ error' = "none" /\ request'.count = "none" /\ outcome' = "none"
      BY <1>1, <2>1, <2>2
    <2>7. PhaseInv' /\ FallbackInv' /\ CoverInv' /\ ResultInv'
      BY <2>1, <2>4, <2>6 DEF PhaseInv, FallbackInv, CoverInv, ResultInv, Discovering
    <2> QED  BY <2>2, <2>5, <2>7 DEF IInv
  <1> QED  BY <1>2, <1>3, <1>4 DEF Plan

(* The handler of DiscoveryError raises, or plans one task. *)
LEMMA FallBackStep == ASSUME PlanningAssumption, IInv, FallBack PROVE IInv'
  <1>1. NothingYet /\ error # "none" /\ request.count = "none"
    BY DEF IInv, PhaseInv, FallBack, Discovering
  <1>2. CASE FallsBack
    BY <1>1, <1>2, WholeTable DEF FallBack
  <1>3. CASE ~FallsBack
    <2>1. Raised \in {"fatal", "discovery"}
      BY DEF Raised
    <2> QED  BY <1>3, <2>1, FailStep DEF FallBack, Fail
  <1> QED  BY <1>2, <1>3

(* system.tables: another engine is read in one task. *)
LEMMA CheckEngineStep == ASSUME PlanningAssumption, IInv, CheckEngine PROVE IInv'
  <1>1. NothingYet /\ error = "none" /\ request.count = "none" /\ pc = "engine"
    BY DEF IInv, PhaseInv, CheckEngine, Discovering
  <1>2. CASE source.engine = "local"
    BY <1>1, <1>2, DiscoveryStep DEF CheckEngine, Discovering
  <1>3. CASE source.engine # "local"
    BY <1>1, <1>3, WholeTable DEF CheckEngine, OneTask
  <1> QED  BY <1>2, <1>3

(* system.columns: a hidden virtual column means one task. *)
LEMMA CheckColumnsStep == ASSUME PlanningAssumption, IInv, CheckColumns PROVE IInv'
  <1>1. /\ NothingYet /\ error = "none" /\ request.count = "none" /\ pc = "columns"
        /\ source.engine = "local"
    BY DEF IInv, PhaseInv, CheckColumns, Discovering
  <1>2. CASE VirtualColumnVisible
    BY <1>1, <1>2, DiscoveryStep DEF CheckColumns, VirtualColumnVisible, Discovering
  <1>3. CASE ~VirtualColumnVisible
    BY <1>1, <1>3, WholeTable DEF CheckColumns, OneTask
  <1> QED  BY <1>2, <1>3

(* Groups that partition the identifiers are a good plan, if the identifiers
   are where the rows are. *)
LEMMA PartitionIsPlan ==
    ASSUME PlanningAssumption, IInv, NothingYet, request.count = "none", error = "none",
           source.shadowed = "no", NEW ids, ids \subseteq Parts, NEW m \in Nat, NEW part,
           Partitioned(part, m, ids), groups' = [k \in 1..m |-> part[k]],
           \A r \in Kept : table[r] \in ids,
           planned' = UNION {groups'[k] : k \in DOMAIN groups'}, pc' = "emit",
           UNCHANGED <<source, request, table, error, tasks, got, outcome, result,
                       touched, writes>>
    PROVE  IInv'
  <1>1. /\ groups' \in Seq(SUBSET AllParts) /\ DOMAIN groups' = 1..m
        /\ \A k \in 1..m : groups'[k] = part[k]
    <2>1. \A k \in 1..m : part[k] \in SUBSET AllParts
      BY DEF Partitioned, AllParts
    <2>2. groups' \in [1..m -> SUBSET AllParts]
      BY <2>1
    <2> QED  BY <2>2
  <1>2. planned' \subseteq ids /\ \A k \in 1..m : groups'[k] \subseteq planned'
    BY <1>1 DEF Partitioned
  <1>3. Kept' = Kept /\ AllParts' = AllParts
    BY DEF Kept, Selected, PresentRows, AllParts
  <1>4. \A r \in Kept' : \E k \in 1..m : table'[r] \in groups'[k]
    BY <1>1, <1>3 DEF Partitioned
  <1>5. /\ \A k \in 1..m : groups'[k] # {}
        /\ \A k, l \in 1..m : k # l => groups'[k] \cap groups'[l] = {}
    BY <1>1 DEF Partitioned
  <1>6. planned' \subseteq AllParts
    BY <1>2 DEF AllParts
  <1>7. GoodPlan'
    BY <1>1, <1>2, <1>3, <1>4, <1>5, <1>6 DEF GoodPlan
  <1> QED  BY <1>7, PlanMade

(* _query_plan: the tablets FE names, in adjacent groups. *)
LEMMA QueryPlanStep == ASSUME PlanningAssumption, IInv, QueryPlan PROVE IInv'
  <1>1. /\ NothingYet /\ error = "none" /\ request.count = "none" /\ pc = "query_plan"
        /\ source.shadowed = "no"
    BY DEF IInv, PhaseInv, QueryPlan, Discovering
  <1> DEFINE adjacent(ids) == GroupAdjacentIds(ids, TargetTasks, MaxTasks)
  <1>2. PICK ids \in PlannedTablets :
            groups' = IF ids = {} THEN <<{}>>
                      ELSE [k \in DOMAIN adjacent(ids) |-> Range(adjacent(ids)[k])]
    BY DEF QueryPlan
  <1> HIDE DEF adjacent
  <1>3. ids \subseteq Parts /\ \A r \in Kept : table[r] \in ids
    BY <1>2 DEF PlannedTablets, Kept
  <1>4. /\ pc' = "emit" /\ planned' = UNION {groups'[k] : k \in DOMAIN groups'}
        /\ UNCHANGED <<source, request, table, error, tasks, got, outcome, result,
                       touched, writes>>
    BY DEF QueryPlan
  <1>5. CASE ids = {}
    <2>1. groups' = <<{}>> /\ DOMAIN groups' = {1} /\ groups'[1] = {} /\ Len(groups') = 1
      BY <1>2, <1>5
    <2>2. planned' = {}
      BY <1>4, <2>1
    <2>3. Kept' = {}
      BY <1>3, <1>4, <1>5 DEF Kept, Selected, PresentRows
    <2>4. groups' \in Seq(SUBSET AllParts')
      BY <2>1
    <2>5. GoodPlan'
      BY <1>1, <1>4, <2>1, <2>2, <2>3, <2>4 DEF GoodPlan
    <2> QED  BY <1>1, <1>4, <2>5, PlanMade
  <1>6. CASE ids # {}
    <2>1. IsFiniteSet(ids) /\ ids \subseteq Int /\ TargetTasks \in Nat \ {0} /\ MaxTasks \in Nat \ {0}
      <3>1. ids \in SUBSET Parts /\ IsFiniteSet(Parts)
        BY <1>3 DEF PlanningAssumption
      <3>2. IsFiniteSet(ids)
        BY <3>1, FS_Subset
      <3> QED  BY <3>1, <3>2 DEF PlanningAssumption
    <2>2. PICK m \in Nat : /\ DOMAIN adjacent(ids) = 1..m
                           /\ Partitioned([k \in 1..m |-> Range(adjacent(ids)[k])], m, ids)
      <3>1. Grouped(adjacent(ids), ids, TargetTasks, MaxTasks)
        BY <1>6, <2>1, AdjacentGroupsPartition DEF adjacent
      <3> QED  BY <3>1 DEF Grouped
    <2> DEFINE part == [k \in 1..m |-> Range(adjacent(ids)[k])]
    <2>3. Partitioned(part, m, ids) /\ groups' = [k \in 1..m |-> part[k]]
      BY <1>2, <1>6, <2>2
    <2> HIDE DEF part
    <2> QED  BY <1>1, <1>3, <1>4, <2>3, PartitionIsPlan
  <1> QED  BY <1>5, <1>6

(* system.parts: the active partitions, balanced by their rows. *)
LEMMA ReadPartsStep == ASSUME PlanningAssumption, IInv, ReadParts PROVE IInv'
  <1>1. /\ NothingYet /\ error = "none" /\ request.count = "none" /\ pc = "parts"
        /\ source.shadowed = "no" /\ source.engine = "local"
    BY DEF IInv, PhaseInv, ReadParts, Discovering
  <1> DEFINE weight(ids) == [p \in ids |-> Cardinality({r \in RowIds : table[r] = p})]
             weighted(ids) == GroupWeightedItems(weight(ids), TargetTasks, MaxTasks)
  <1>2. PICK ids \in ActivePartitions :
            groups' = IF ids = {} THEN <<AllParts>>
                      ELSE [k \in DOMAIN weighted(ids) |-> Range(weighted(ids)[k])]
    BY DEF ReadParts
  <1>3. ids = {table[r] : r \in PresentRows}
    BY <1>1, <1>2 DEF ActivePartitions
  <1>4. ids \subseteq Parts /\ \A r \in Kept : table[r] \in ids
    BY <1>3 DEF IInv, TypeOK, PresentRows, AllParts, Kept, Selected
  <1>5. weight(ids) \in [ids -> Int]
    <2>1. ASSUME NEW p \in ids PROVE Cardinality({r \in RowIds : table[r] = p}) \in Int
      <3> DEFINE R == {r \in RowIds : table[r] = p}
      <3>1. R \subseteq RowIds
        OBVIOUS
      <3> HIDE DEF R
      <3>2. Cardinality(R) \in Int
        BY <3>1, FS_Subset, FS_CardinalityType DEF PlanningAssumption
      <3> QED  BY <3>2 DEF R
    <2> QED  BY <2>1
  <1> HIDE DEF weight
  <1>6. /\ pc' = "emit" /\ planned' = UNION {groups'[k] : k \in DOMAIN groups'}
        /\ UNCHANGED <<source, request, table, error, tasks, got, outcome, result,
                       touched, writes>>
    BY DEF ReadParts
  <1>7. CASE ids = {}
    <2>1. groups' = <<AllParts>> /\ DOMAIN groups' = {1} /\ groups'[1] = AllParts
      BY <1>2, <1>7
    <2>2. planned' = planned
      BY <1>1, <1>6, <2>1 DEF NothingYet
    <2> QED  BY <1>1, <1>6, <2>1, <2>2, WholeTable
  <1>8. CASE ids # {}
    <2>1. IsFiniteSet(ids) /\ ids \subseteq Int /\ TargetTasks \in Nat \ {0} /\ MaxTasks \in Nat \ {0}
      <3>1. ids \in SUBSET Parts /\ IsFiniteSet(Parts)
        BY <1>4 DEF PlanningAssumption
      <3>2. IsFiniteSet(ids)
        BY <3>1, FS_Subset
      <3> QED  BY <3>1, <3>2 DEF PlanningAssumption
    <2>2. PICK m \in Nat : /\ DOMAIN weighted(ids) = 1..m
                           /\ Partitioned([k \in 1..m |-> Range(weighted(ids)[k])], m, ids)
      <3> DEFINE w == weight(ids)
      <3>1. w \in [ids -> Int] /\ weighted(ids) = GroupWeightedItems(w, TargetTasks, MaxTasks)
        BY <1>5
      <3> HIDE DEF w, weighted
      <3>2. Grouped(GroupWeightedItems(w, TargetTasks, MaxTasks), ids, TargetTasks, MaxTasks)
        BY <1>8, <2>1, <3>1, WeightedGroupsPartition
      <3> QED  BY <3>1, <3>2 DEF Grouped
    <2> HIDE DEF weighted
    <2> DEFINE part == [k \in 1..m |-> Range(weighted(ids)[k])]
    <2>3. Partitioned(part, m, ids) /\ groups' = [k \in 1..m |-> part[k]]
      BY <1>2, <1>8, <2>2
    <2> HIDE DEF part
    <2> QED  BY <1>1, <1>4, <1>6, <2>3, PartitionIsPlan
  <1> QED  BY <1>7, <1>8

-----------------------------------------------------------------------------
(* Steps of the tasks, and of others *)

(* The next group becomes a task. *)
LEMMA EmitTaskStep == ASSUME PlanningAssumption, IInv, EmitTask PROVE IInv'
  <1> DEFINE n == Len(tasks)
             g == Len(groups)
             h == Head(groups)
             t == TaskFor(h)
             Task == [ids : SUBSET AllParts, limit : Limits \cup {0, NoLimit}, state : {"new", "done"}]
  <1>1. /\ pc = "emit" /\ pc' = "emit" /\ request.count = "none" /\ outcome = "none"
        /\ UNCHANGED <<source, request, table, error, got, outcome, result, planned, touched, writes>>
    BY DEF EmitTask, IInv, PhaseInv
  <1>2. /\ groups \in Seq(SUBSET AllParts) /\ groups # << >> /\ tasks \in Seq(Task)
        /\ tasks' = Append(tasks, t) /\ groups' = Tail(groups)
    BY DEF EmitTask, IInv, TypeOK
  <1>3. DatabaseLimit \in Limits \cup {NoLimit} \cup {0}
    BY <1>1, RequestFacts DEF IInv, TypeOK, DatabaseLimit
  <1>4. h \in SUBSET AllParts /\ h = groups[1] /\ g \in Nat /\ g >= 1 /\ DOMAIN groups = 1..g
    BY <1>2
  <1>5. t \in Task /\ t.state = "new"
    BY <1>3, <1>4 DEF TaskFor
  <1>6. \/ h = {} /\ t.ids = AllParts /\ t.limit = 0
        \/ h # {} /\ t.ids = h /\ t.limit = DatabaseLimit
    BY DEF TaskFor
  <1> HIDE DEF t, h, Task
  <1>7. /\ n \in Nat /\ DOMAIN tasks = 1..n /\ DOMAIN tasks' = 1..(n + 1) /\ Len(tasks') = n + 1
        /\ tasks'[n + 1] = t /\ \A i \in 1..n : tasks'[i] = tasks[i]
        /\ tasks' \in Seq(Task)
    BY <1>2, <1>5
  <1>8. /\ groups' \in Seq(SUBSET AllParts) /\ DOMAIN groups' = 1..(g - 1) /\ Len(groups') = g - 1
        /\ \A k \in 1..(g - 1) : groups'[k] = groups[k + 1]
    BY <1>2, <1>4
  <1> HIDE DEF n, g
  <1>9. h = {} => n = 0 /\ g = 1 /\ tasks = << >>
    <2>1. h = {} => Len(groups) = 1 /\ tasks = << >>
      <3>1. 1 \in DOMAIN groups
        BY <1>4
      <3> QED  BY <1>4, <3>1 DEF IInv, DisjointInv
    <2> QED  BY <2>1 DEF n, g
  <1>10. TypeOK'
    BY <1>1, <1>7, <1>8 DEF IInv, TypeOK, Task, AllParts
  <1>11. PhaseInv'
    BY <1>1 DEF IInv, PhaseInv, Discovering
  <1>12. FallbackInv'
    <2>1. SUFFICES ASSUME error # "none" PROVE FallbackInv'
      BY <1>1 DEF FallbackInv
    <2>2. FallsBack /\ FallsBack'
      BY <1>1, <2>1 DEF IInv, FallbackInv, FallsBack
    <2>3. groups = <<AllParts>> /\ tasks = << >>
      BY <1>1, <1>2, <2>1, <2>2 DEF IInv, FallbackInv
    <2>4. h = AllParts /\ h # {} /\ n = 0
      BY <1>4, <2>3 DEF AllParts, n
    <2>5. groups' = << >> /\ Len(tasks') = 1 /\ tasks'[1].ids = AllParts
      BY <1>2, <1>6, <1>7, <2>3, <2>4
    <2> QED  BY <2>2, <2>5 DEF FallbackInv, AllParts
  <1>13. PlanInv'
    <2>1. \A k \in DOMAIN groups' : groups'[k] \subseteq planned'
      BY <1>1, <1>4, <1>8 DEF IInv, PlanInv
    <2>2. t.ids \subseteq planned' \/ t.limit = 0
      BY <1>1, <1>4, <1>6 DEF IInv, PlanInv
    <2>3. \A i \in DOMAIN tasks' : tasks'[i].ids \subseteq planned' \/ tasks'[i].limit = 0
      BY <1>1, <1>7, <2>2 DEF IInv, PlanInv
    <2>4. source.shadowed # "no" =>
             /\ \A k \in DOMAIN groups' : groups'[k] = AllParts
             /\ \A i \in DOMAIN tasks' : tasks'[i].ids = AllParts
      <3>1. source.shadowed # "no" => \A k \in DOMAIN groups' : groups'[k] = AllParts
        BY <1>4, <1>8 DEF IInv, PlanInv
      <3>2. source.shadowed # "no" => t.ids = AllParts
        BY <1>4, <1>6 DEF IInv, PlanInv
      <3>3. source.shadowed # "no" => \A i \in DOMAIN tasks' : tasks'[i].ids = AllParts
        BY <1>7, <3>2 DEF IInv, PlanInv
      <3> QED  BY <3>1, <3>3
    <2> QED  BY <1>1, <2>1, <2>3, <2>4 DEF PlanInv, AllParts
  <1>14. DisjointInv'
    <2>1. CASE h = {}
      <3>1. DOMAIN groups' = {} /\ DOMAIN tasks' = {1}
        BY <1>7, <1>8, <1>9, <2>1
      <3> QED  BY <3>1 DEF DisjointInv
    <2>2. CASE h # {}
      <3>1. t.ids = groups[1]
        BY <1>4, <1>6, <2>2
      <3>2. \A k \in 1..(g - 1) : k + 1 \in DOMAIN groups /\ k + 1 # 1
        BY <1>4
      <3>3. \A k, l \in DOMAIN groups' : k # l => groups'[k] \cap groups'[l] = {}
        <4>1. ASSUME NEW k \in 1..(g - 1), NEW l \in 1..(g - 1), k # l
              PROVE  groups[k + 1] \cap groups[l + 1] = {}
          <5>1. k + 1 # l + 1
            BY <1>4, <4>1
          <5> QED  BY <3>2, <5>1 DEF IInv, DisjointInv
        <4> QED  BY <1>8, <4>1
      <3>4. \A k \in DOMAIN groups' : t.ids \cap groups'[k] = {}
        BY <1>4, <1>8, <3>1, <3>2 DEF IInv, DisjointInv
      <3>5. \A i \in 1..n : tasks[i].ids \cap t.ids = {}
        BY <1>4, <1>7, <3>1 DEF IInv, DisjointInv
      <3>6. \A i \in DOMAIN tasks', k \in DOMAIN groups' : tasks'[i].ids \cap groups'[k] = {}
        BY <1>7, <1>8, <3>2, <3>4 DEF IInv, DisjointInv
      <3>7. \A i, j \in DOMAIN tasks' : i # j => tasks'[i].ids \cap tasks'[j].ids = {}
        BY <1>7, <3>5 DEF IInv, DisjointInv
      <3>8. \A k \in DOMAIN groups' : groups'[k] # {}
        <4>1. ASSUME NEW k \in DOMAIN groups', groups'[k] = {} PROVE FALSE
          <5>1. Len(groups) = 1
            BY <1>8, <3>2, <4>1 DEF IInv, DisjointInv
          <5> QED  BY <1>4, <1>8, <4>1, <5>1 DEF g
        <4> QED  BY <4>1
      <3> QED  BY <3>3, <3>6, <3>7, <3>8 DEF DisjointInv
    <2> QED  BY <2>1, <2>2
  <1>15. GotInv'
    <2>1. ASSUME NEW r \in RowIds, got'[r] > 0, table'[r] # Absent
          PROVE  \E i \in DOMAIN tasks' : tasks'[i].state = "done" /\ table'[r] \in tasks'[i].ids
      <3>1. PICK i \in DOMAIN tasks : tasks[i].state = "done" /\ table[r] \in tasks[i].ids
        BY <1>1, <2>1 DEF IInv, GotInv
      <3>2. i \in DOMAIN tasks' /\ tasks'[i] = tasks[i]
        BY <1>7
      <3> QED  BY <1>1, <3>1, <3>2
    <2> QED  BY <1>1, <2>1 DEF IInv, GotInv, Wanted
  <1>16. Kept' = Kept /\ DatabaseLimit' = DatabaseLimit /\ GotRows' = GotRows
    BY <1>1 DEF Kept, Selected, PresentRows, DatabaseLimit, GotRows
  <1>17. CoverInv'
    <2>1. ASSUME NEW r \in Kept
          PROVE  \/ \E k \in DOMAIN groups' : table[r] \in groups'[k]
                 \/ \E i \in DOMAIN tasks' :
                       table[r] \in tasks'[i].ids /\ tasks'[i].limit = DatabaseLimit
      <3>1. \/ \E k \in DOMAIN groups : table[r] \in groups[k]
            \/ \E i \in DOMAIN tasks : table[r] \in tasks[i].ids /\ tasks[i].limit = DatabaseLimit
        BY <1>1 DEF IInv, CoverInv
      <3>2. CASE \E i \in DOMAIN tasks : table[r] \in tasks[i].ids /\ tasks[i].limit = DatabaseLimit
        <4>1. PICK i \in DOMAIN tasks : table[r] \in tasks[i].ids /\ tasks[i].limit = DatabaseLimit
          BY <3>2
        <4>2. i \in DOMAIN tasks' /\ tasks'[i] = tasks[i]
          BY <1>7
        <4> QED  BY <4>1, <4>2
      <3>3. CASE \E k \in DOMAIN groups : table[r] \in groups[k]
        <4>1. PICK k \in DOMAIN groups : table[r] \in groups[k]
          BY <3>3
        <4>2. CASE k = 1
          <5>1. table[r] \in t.ids /\ t.limit = DatabaseLimit
            BY <1>4, <1>6, <4>1, <4>2
          <5>2. n + 1 \in DOMAIN tasks' /\ tasks'[n + 1] = t
            BY <1>7
          <5> QED  BY <5>1, <5>2
        <4>3. CASE k # 1
          <5>1. k - 1 \in 1..(g - 1) /\ (k - 1) + 1 = k
            BY <1>4, <4>3
          <5>2. k - 1 \in DOMAIN groups' /\ groups'[k - 1] = groups[k]
            BY <1>8, <5>1
          <5> QED  BY <4>1, <5>2
        <4> QED  BY <4>2, <4>3
      <3> QED  BY <3>1, <3>2, <3>3
    <2> QED  BY <1>1, <1>16, <2>1 DEF CoverInv
  <1>18. DoneInv'
    <2>1. \A i \in DOMAIN tasks' : tasks'[i].state = "done" => i \in DOMAIN tasks /\ tasks'[i] = tasks[i]
      BY <1>5, <1>7
    <2>2. \A R : Wanted(R)' = Wanted(R)
      BY <1>1 DEF Wanted
    <2> QED  BY <1>1, <1>16, <2>1, <2>2 DEF IInv, DoneInv, Wanted
  <1>19. ResultInv'
    BY <1>1 DEF ResultInv
  <1> QED  BY <1>10, <1>11, <1>12, <1>13, <1>14, <1>15, <1>17, <1>18, <1>19 DEF IInv

(* get_tasks is exhausted. *)
LEMMA LastTaskEmittedStep == ASSUME PlanningAssumption, IInv, LastTaskEmitted PROVE IInv'
  <1>1. PlanInv' /\ DisjointInv' /\ GotInv' /\ DoneInv' /\ Kept' = Kept /\ DatabaseLimit' = DatabaseLimit
    BY Frame DEF LastTaskEmitted
  <1>2. TypeOK' /\ PhaseInv'
    BY DEF LastTaskEmitted, IInv, TypeOK, PhaseInv, Discovering
  <1>3. FallbackInv'
    BY DEF LastTaskEmitted, IInv, FallbackInv, FallsBack, AllParts
  <1>4. CoverInv'
    BY <1>1 DEF LastTaskEmitted, IInv, CoverInv
  <1>5. ResultInv'
    BY DEF LastTaskEmitted, IInv, PhaseInv, ResultInv
  <1> QED  BY <1>1, <1>2, <1>3, <1>4, <1>5 DEF IInv

(* A failing task ends the scan. *)
LEMMA TaskFailsStep == ASSUME PlanningAssumption, IInv, TaskFails PROVE IInv'
  BY FailStep DEF TaskFails, Fail

(* The database answers the count. *)
LEMMA RunCountStep == ASSUME PlanningAssumption, IInv, RunCount PROVE IInv'
  <1>1. PlanInv' /\ DisjointInv' /\ GotInv' /\ DoneInv' /\ PresentRows' = PresentRows
    BY Frame DEF RunCount
  <1>2. CountAccepted /\ CountAccepted' /\ request'.count = "all" /\ error = "none"
    BY DEF RunCount, IInv, PhaseInv, CountAccepted
  <1>3. TypeOK'
    BY DEF RunCount, IInv, TypeOK, PresentRows
  <1>4. PhaseInv' /\ FallbackInv' /\ CoverInv' /\ ResultInv'
    BY <1>1, <1>2 DEF RunCount, PhaseInv, Discovering, FallbackInv, CoverInv, ResultInv
  <1> QED  BY <1>1, <1>3, <1>4 DEF IInv

(* All tasks are done: Daft applies the limit of the query. *)
LEMMA FinishStep == ASSUME PlanningAssumption, IInv, Finish PROVE IInv'
  <1>1. /\ PlanInv' /\ DisjointInv' /\ GotInv' /\ DoneInv' /\ Kept' = Kept /\ GotRows' = GotRows
        /\ DatabaseLimit' = DatabaseLimit
    BY Frame DEF Finish
  <1>2. request.count = "none" /\ request' = request /\ groups' = << >> /\ pc = "run"
    BY DEF Finish, IInv, PhaseInv
  <1>3. result' \in Sized(GotRows, request.limit)
    BY DEF Finish, GotRows
  <1>4. TypeOK'
    <2>1. result' \subseteq RowIds
      BY <1>3 DEF Sized, GotRows
    <2> QED  BY <2>1 DEF Finish, IInv, TypeOK
  <1>5. PhaseInv'
    BY DEF Finish, PhaseInv, Discovering
  <1>6. FallbackInv'
    BY <1>2 DEF Finish, IInv, FallbackInv, FallsBack, AllParts
  <1>7. CoverInv'
    BY <1>1, <1>2 DEF Finish, IInv, CoverInv
  <1>8. ResultInv'
    <2>1. result' \in Sized(GotRows', request'.limit)
      BY <1>1, <1>2, <1>3
    <2>2. \A i \in DOMAIN tasks' : tasks'[i].state = "done"
      BY DEF Finish
    <2> QED  BY <1>2, <2>1, <2>2 DEF ResultInv, Sized
  <1> QED  BY <1>1, <1>4, <1>5, <1>6, <1>7, <1>8 DEF IInv

(* What a LIMIT leaves. *)
LEMMA SizedFacts ==
    ASSUME NEW rows, IsFiniteSet(rows), NEW limit \in Nat \cup {NoLimit}, NEW s \in Sized(rows, limit)
    PROVE  /\ s \subseteq rows /\ IsFiniteSet(s) /\ Cardinality(s) \in Nat /\ Cardinality(rows) \in Nat
           /\ limit = NoLimit => s = rows
           /\ limit # NoLimit => Cardinality(s) = limit \/ s = rows
           /\ limit = 0 => s = {}
  <1>1. s \in SUBSET rows
    BY DEF Sized
  <1>2. IsFiniteSet(s) /\ (Cardinality(rows) = Cardinality(s) => rows = s)
    BY <1>1, FS_Subset
  <1>3. Cardinality(s) \in Nat /\ Cardinality(rows) \in Nat
    BY <1>2, FS_CardinalityType
  <1>4. limit = NoLimit => s = rows
    BY <1>2 DEF Sized
  <1>5. limit # NoLimit =>
           /\ Cardinality(s) = limit \/ Cardinality(s) = Cardinality(rows)
           /\ Cardinality(s) <= limit
    <2>1. SUFFICES ASSUME limit # NoLimit
                   PROVE  /\ Cardinality(s) = limit \/ Cardinality(s) = Cardinality(rows)
                          /\ Cardinality(s) <= limit
      OBVIOUS
    <2> DEFINE b == Cardinality(rows)
    <2>2. Cardinality(s) = Min({limit, b})
      BY <2>1 DEF Sized
    <2>3. limit \in Nat /\ b \in Nat
      BY <1>3, <2>1
    <2> HIDE DEF b
    <2>4. \E x \in {limit, b} : \A y \in {limit, b} : x <= y
      BY <2>3
    <2>5. Min({limit, b}) \in {limit, b} /\ \A y \in {limit, b} : Min({limit, b}) <= y
      BY <2>4 DEF Min
    <2>6. Cardinality(s) \in {limit, b} /\ Cardinality(s) <= limit
      BY <2>2, <2>5
    <2> QED  BY <2>6 DEF b
  <1>6. limit = 0 => s = {}
    <2>1. limit = 0 => Cardinality(s) = 0
      BY <1>3, <1>5 DEF NoLimit
    <2> QED  BY <1>2, <2>1, FS_EmptySet
  <1> QED  BY <1>1, <1>2, <1>3, <1>4, <1>5, <1>6

(* A task runs to its end and Daft is given its rows. *)
LEMMA RunTaskStep == ASSUME PlanningAssumption, IInv, RunTask PROVE IInv'
  <1>1. PICK i \in DOMAIN tasks :
            /\ tasks[i].state = "new"
            /\ tasks' = [tasks EXCEPT ![i].state = "done"]
            /\ \E rows \in Sized(TaskRows(tasks[i]), tasks[i].limit) :
                  got' = [r \in RowIds |-> got[r] + IF r \in Wanted(rows) THEN 1 ELSE 0]
    BY DEF RunTask
  <1>2. PICK rows \in Sized(TaskRows(tasks[i]), tasks[i].limit) :
            got' = [r \in RowIds |-> got[r] + IF r \in Wanted(rows) THEN 1 ELSE 0]
    BY <1>1
  <1>3. /\ pc \in {"emit", "run"} /\ request.count = "none" /\ outcome = "none"
        /\ UNCHANGED <<source, request, table, pc, error, groups, outcome, result, planned,
                       touched, writes>>
    BY DEF RunTask, IInv, PhaseInv
  <1> DEFINE Task == [ids : SUBSET AllParts, limit : Limits \cup {0, NoLimit}, state : {"new", "done"}]
  <1>4. /\ tasks \in Seq(Task) /\ tasks[i] \in Task /\ tasks' \in Seq(Task)
        /\ DOMAIN tasks' = DOMAIN tasks /\ Len(tasks') = Len(tasks)
        /\ \A j \in DOMAIN tasks : tasks'[j].ids = tasks[j].ids /\ tasks'[j].limit = tasks[j].limit
        /\ tasks'[i].state = "done"
        /\ \A j \in DOMAIN tasks : j # i => tasks'[j] = tasks[j]
    <2>1. tasks \in Seq(Task)
      BY DEF IInv, TypeOK
    <2>2. tasks[i] \in Task
      <3> HIDE DEF Task
      <3> QED  BY <2>1
    <2> DEFINE new == [tasks[i] EXCEPT !.state = "done"]
    <2>3. new \in Task /\ new.state = "done" /\ new.ids = tasks[i].ids /\ new.limit = tasks[i].limit
      BY <2>2
    <2>4. tasks' = [tasks EXCEPT ![i] = new]
      BY <1>1
    <2> HIDE DEF new, Task
    <2> QED  BY <2>1, <2>2, <2>3, <2>4
  <1>5. /\ TaskRows(tasks[i]) \subseteq Selected({r \in PresentRows : table[r] \in tasks[i].ids})
        /\ TaskRows(tasks[i]) \subseteq RowIds
        /\ TaskRows(tasks[i]) = Selected({r \in PresentRows : table[r] \in tasks[i].ids})
    BY DEF TaskRows, Selected, PresentRows, IInv, PlanInv
  <1>6. /\ rows \subseteq TaskRows(tasks[i]) /\ IsFiniteSet(rows) /\ Cardinality(rows) \in Nat
        /\ tasks[i].limit = NoLimit => rows = TaskRows(tasks[i])
        /\ tasks[i].limit # NoLimit => Cardinality(rows) = tasks[i].limit \/ rows = TaskRows(tasks[i])
        /\ tasks[i].limit = 0 => rows = {}
    <2>1. IsFiniteSet(TaskRows(tasks[i]))
      BY <1>5, FS_Subset DEF PlanningAssumption
    <2>2. tasks[i].limit \in Nat \cup {NoLimit}
      <3>1. tasks[i].limit \in Limits \cup {0, NoLimit}
        BY <1>4
      <3>2. Limits \subseteq Nat
        BY DEF PlanningAssumption
      <3> DEFINE l == tasks[i].limit
      <3> HIDE DEF Task, l
      <3>3. l \in Limits \cup {0, NoLimit} => l \in Nat \cup {NoLimit}
        BY <3>2
      <3> QED  BY <3>1, <3>3 DEF l
    <2> DEFINE R == TaskRows(tasks[i])
               L == tasks[i].limit
    <2>3. IsFiniteSet(R) /\ L \in Nat \cup {NoLimit} /\ rows \in Sized(R, L)
      BY <1>2, <2>1, <2>2
    <2> HIDE DEF R, L, Task
    <2>4. /\ rows \subseteq R /\ IsFiniteSet(rows) /\ Cardinality(rows) \in Nat
          /\ L = NoLimit => rows = R
          /\ L # NoLimit => Cardinality(rows) = L \/ rows = R
          /\ L = 0 => rows = {}
      BY <2>3, SizedFacts
    <2> QED  BY <2>4 DEF R, L
  <1>7. \A r \in rows : r \in RowIds /\ table[r] # Absent /\ table[r] \in tasks[i].ids
    BY <1>5, <1>6 DEF Selected, PresentRows
  <1>8. \A r \in RowIds : got[r] \in Nat
    BY DEF IInv, TypeOK
  <1>9. ASSUME NEW r \in RowIds
        PROVE  /\ r \in Wanted(rows) => got'[r] = got[r] + 1 /\ r \in rows
               /\ r \notin Wanted(rows) => got'[r] = got[r]
    BY <1>2, <1>8 DEF Wanted
  <1> HIDE DEF Task
  <1>10. ASSUME NEW r \in rows PROVE got[r] = 0
    <2>1. SUFFICES ASSUME got[r] > 0 PROVE FALSE
      BY <1>7, <1>8
    <2>2. PICK j \in DOMAIN tasks : tasks[j].state = "done" /\ table[r] \in tasks[j].ids
      BY <1>7, <2>1 DEF IInv, GotInv
    <2>3. j # i
      BY <1>1, <2>2
    <2> QED  BY <1>7, <2>2, <2>3 DEF IInv, DisjointInv
  <1>11. TypeOK'
    <2>1. got' \in [RowIds -> Nat]
      BY <1>2, <1>8
    <2> QED  BY <1>3, <1>4, <2>1 DEF IInv, TypeOK, Task, AllParts
  <1>12. PhaseInv'
    BY <1>3 DEF IInv, PhaseInv, Discovering
  <1>13. FallbackInv'
    <2>1. SUFFICES ASSUME error # "none" PROVE FallbackInv'
      BY <1>3 DEF FallbackInv
    <2>2. FallsBack /\ FallsBack' /\ tasks # << >>
      BY <1>3, <2>1 DEF IInv, FallbackInv, FallsBack
    <2>3. groups = << >> /\ Len(tasks) = 1 /\ tasks[1].ids = AllParts
      BY <1>3, <2>1, <2>2 DEF IInv, FallbackInv
    <2>4. 1 \in DOMAIN tasks
      BY <1>4, <2>3
    <2> QED  BY <1>3, <1>4, <2>2, <2>3, <2>4 DEF FallbackInv, AllParts
  <1>14. PlanInv'
    BY <1>3, <1>4 DEF IInv, PlanInv, AllParts
  <1>15. DisjointInv'
    <2>1. tasks = << >> => tasks' = << >>
      BY <1>1
    <2> QED  BY <1>3, <1>4, <2>1 DEF IInv, DisjointInv
  <1>16. GotInv'
    <2>1. ASSUME NEW r \in RowIds
          PROVE  /\ got'[r] <= 1
                 /\ got'[r] > 0 => r \in Wanted(RowIds)
                 /\ got'[r] > 0 /\ r \notin touched => table[r] # Absent
                 /\ got'[r] > 0 /\ table[r] # Absent =>
                       /\ table[r] \in planned
                       /\ \E j \in DOMAIN tasks' :
                             tasks'[j].state = "done" /\ table[r] \in tasks'[j].ids
      <3>1. CASE r \in Wanted(rows)
        <4>1. r \in rows /\ got'[r] = 1 /\ r \in Wanted(RowIds)
          BY <1>9, <1>10, <3>1 DEF Wanted
        <4>2. table[r] \in tasks[i].ids /\ table[r] # Absent
          BY <1>7, <4>1
        <4>3. table[r] \in planned
          BY <1>6, <4>1, <4>2 DEF IInv, PlanInv
        <4>4. i \in DOMAIN tasks' /\ tasks'[i].state = "done" /\ table[r] \in tasks'[i].ids
          BY <1>4, <4>2
        <4> QED  BY <4>1, <4>2, <4>3, <4>4
      <3>2. CASE r \notin Wanted(rows)
        <4>1. got'[r] = got[r]
          BY <1>9, <3>2
        <4>2. \A j \in DOMAIN tasks : tasks[j].state = "done" => tasks'[j] = tasks[j]
          BY <1>1, <1>4
        <4> QED  BY <1>4, <4>1, <4>2 DEF IInv, GotInv
      <3> QED  BY <3>1, <3>2
    <2> QED  BY <1>3, <2>1 DEF GotInv, Wanted
  <1>17. Kept' = Kept /\ DatabaseLimit' = DatabaseLimit /\ \A R : Wanted(R)' = Wanted(R)
    BY <1>3 DEF Kept, Selected, PresentRows, DatabaseLimit, Wanted
  <1>18. CoverInv'
    <2>1. ASSUME NEW r \in Kept
          PROVE  \/ \E k \in DOMAIN groups : table[r] \in groups[k]
                 \/ \E j \in DOMAIN tasks' :
                       table[r] \in tasks'[j].ids /\ tasks'[j].limit = DatabaseLimit
      BY <1>3, <1>4 DEF IInv, CoverInv
    <2> QED  BY <1>3, <1>17, <2>1 DEF CoverInv
  <1>19. /\ GotRows \subseteq GotRows' /\ Wanted(rows) \subseteq GotRows'
         /\ IsFiniteSet(GotRows') /\ Cardinality(GotRows') \in Nat
         /\ Cardinality(GotRows) \in Nat /\ Cardinality(GotRows) <= Cardinality(GotRows')
    <2>1. GotRows \subseteq GotRows'
      BY <1>8, <1>9 DEF GotRows
    <2>2. Wanted(rows) \subseteq GotRows'
      <3>1. Wanted(rows) \subseteq RowIds
        BY <1>7 DEF Wanted
      <3> QED  BY <1>8, <1>9, <3>1 DEF GotRows
    <2>3. GotRows' \in SUBSET RowIds
      BY DEF GotRows
    <2>4. IsFiniteSet(GotRows')
      BY <2>3, FS_Subset DEF PlanningAssumption
    <2>5. IsFiniteSet(GotRows) /\ Cardinality(GotRows) <= Cardinality(GotRows')
      BY <2>1, <2>4, FS_Subset
    <2> QED  BY <2>1, <2>2, <2>4, <2>5, FS_CardinalityType
  <1>20. DatabaseLimit \in Nat \cup {NoLimit}
    BY RequestFacts DEF DatabaseLimit, IInv, TypeOK
  <1>21. DoneInv'
    <2>1. ASSUME NEW j \in DOMAIN tasks, tasks'[j].state = "done", tasks[j].limit = DatabaseLimit
          PROVE  \/ DatabaseLimit # NoLimit /\ Cardinality(GotRows') >= DatabaseLimit
                 \/ \A r \in Wanted(Kept) : table[r] \in tasks[j].ids => got'[r] > 0
      <3>1. CASE j # i
        <4>1. \/ DatabaseLimit # NoLimit /\ Cardinality(GotRows) >= DatabaseLimit
              \/ \A r \in Wanted(Kept) : table[r] \in tasks[j].ids => got[r] > 0
          BY <1>4, <2>1, <3>1 DEF IInv, DoneInv
        <4>2. CASE DatabaseLimit # NoLimit /\ Cardinality(GotRows) >= DatabaseLimit
          BY <1>19, <1>20, <4>2
        <4>3. CASE \A r \in Wanted(Kept) : table[r] \in tasks[j].ids => got[r] > 0
          <5>1. Wanted(Kept) \subseteq RowIds
            BY DEF Wanted, Kept, Selected, PresentRows
          <5> QED  BY <1>8, <1>9, <4>3, <5>1
        <4> QED  BY <4>1, <4>2, <4>3
      <3>2. CASE j = i /\ rows = TaskRows(tasks[i])
        <4>1. ASSUME NEW r \in Wanted(Kept), table[r] \in tasks[i].ids PROVE got'[r] > 0
          <5>1. r \in RowIds /\ r \in TaskRows(tasks[i])
            BY <1>5, <4>1 DEF Wanted, Kept, Selected, PresentRows
          <5>2. r \in Wanted(rows)
            BY <3>2, <4>1, <5>1 DEF Wanted
          <5> QED  BY <1>8, <1>9, <5>1, <5>2
        <4> QED  BY <3>2, <4>1
      <3>3. CASE j = i /\ rows # TaskRows(tasks[i])
        <4>1. DatabaseLimit # NoLimit /\ Cardinality(rows) = DatabaseLimit /\ DatabaseLimit \in Nat
          BY <1>6, <1>20, <2>1, <3>3
        <4>2. CASE request.filter = "residual"
          <5>1. DatabaseLimit = 0
            BY <4>1, <4>2 DEF DatabaseLimit
          <5> QED  BY <1>19, <4>1, <5>1
        <4>3. CASE request.filter # "residual"
          <5>1. request.filter \in {"none", "pushed"}
            BY <4>3, RequestFacts DEF IInv, TypeOK
          <5>2. Wanted(rows) = rows
            BY <1>5, <1>6, <5>1 DEF Wanted, Selected
          <5>3. rows \in SUBSET GotRows'
            BY <1>19, <5>2
          <5>4. Cardinality(rows) <= Cardinality(GotRows')
            BY <1>19, <5>3, FS_Subset
          <5> QED  BY <1>19, <4>1, <5>4
        <4> QED  BY <4>2, <4>3
      <3> QED  BY <3>1, <3>2, <3>3
    <2>2. \A R : Wanted(R)' = Wanted(R)
      BY <1>17
    <2>3. Wanted(Kept)' = Wanted(Kept)
      BY <1>3, <1>17 DEF Wanted
    <2> QED  BY <1>3, <1>4, <1>17, <2>1, <2>3 DEF DoneInv
  <1>22. ResultInv'
    BY <1>3 DEF ResultInv
  <1> QED  BY <1>11, <1>12, <1>13, <1>14, <1>15, <1>16, <1>18, <1>21, <1>22 DEF IInv

(* Somebody else inserts or deletes a row. *)
LEMMA WriteStep == ASSUME PlanningAssumption, IInv, Write PROVE IInv'
  <1>1. PICK w \in RowIds \ touched, p \in AllParts :
            /\ table[w] = Absent \/ p = Absent
            /\ table[w] # p
            /\ table' = [table EXCEPT ![w] = p]
            /\ touched' = touched \cup {w}
    BY DEF Write
  <1>2. /\ pc \notin {"start", "done"} /\ writes < MaxWrites /\ writes' = writes + 1
        /\ UNCHANGED <<source, request, pc, error, groups, tasks, got, outcome, result, planned>>
    BY DEF Write
  <1>3. table \in [RowIds -> AllParts] /\ \A r \in RowIds : r # w => table'[r] = table[r]
    BY <1>1 DEF IInv, TypeOK
  <1>4. table'[w] = p
    BY <1>1, <1>3
  <1>5. TypeOK'
    <2>1. table' \in [RowIds -> AllParts] /\ touched' \subseteq RowIds
      BY <1>1, <1>3 DEF IInv, TypeOK
    <2>2. writes' \in 0..MaxWrites
      BY <1>2 DEF IInv, TypeOK, PlanningAssumption
    <2> QED  BY <1>2, <2>1, <2>2 DEF IInv, TypeOK, AllParts
  <1>6. PhaseInv' /\ FallbackInv'
    BY <1>2 DEF IInv, PhaseInv, FallbackInv, Discovering, NothingYet, CountAccepted, FallsBack,
       AllParts
  <1>7. PlanInv' /\ DisjointInv'
    BY <1>2 DEF IInv, PlanInv, DisjointInv, AllParts
  <1>8. GotInv'
    <2>1. ASSUME NEW r \in RowIds
          PROVE  /\ got[r] <= 1
                 /\ got[r] > 0 => r \in Wanted(RowIds)
                 /\ got[r] > 0 /\ r \notin touched' => table'[r] # Absent
                 /\ got[r] > 0 /\ table'[r] # Absent =>
                       /\ table[r] = table'[r] /\ table[r] \in planned
                       /\ \E j \in DOMAIN tasks : tasks[j].state = "done" /\ table[r] \in tasks[j].ids
      <3>1. CASE r # w
        BY <1>1, <1>3, <3>1 DEF IInv, GotInv
      <3>2. CASE r = w
        BY <1>1, <1>4, <3>2 DEF IInv, GotInv
      <3> QED  BY <3>1, <3>2
    <2> QED  BY <1>2, <2>1 DEF GotInv, Wanted
  <1>9. /\ \A r \in Kept' : r \in Kept /\ table'[r] = table[r]
        /\ DatabaseLimit' = DatabaseLimit /\ GotRows' = GotRows
    BY <1>1, <1>2, <1>3 DEF Kept, Selected, PresentRows, DatabaseLimit, GotRows
  <1>10. CoverInv'
    BY <1>2, <1>9 DEF IInv, CoverInv
  <1>11. DoneInv'
    <2>1. \A r \in Wanted(Kept)' : r \in Wanted(Kept) /\ table'[r] = table[r]
      BY <1>2, <1>9 DEF Wanted
    <2> QED  BY <1>2, <1>9, <2>1 DEF IInv, DoneInv
  <1>12. ResultInv'
    BY <1>2 DEF IInv, PhaseInv, ResultInv
  <1> QED  BY <1>5, <1>6, <1>7, <1>8, <1>10, <1>11, <1>12 DEF IInv

-----------------------------------------------------------------------------
(* The invariant, and what follows from it *)

(* The invariant holds in every state of a scan: one step for each action of
   get_tasks, discovery, the tasks, Daft and the writers. *)
THEOREM Invariant == Spec => []IInv
  <1>1. Init => IInv
    BY InitInv, PlanningAssumption
  <1>2. IInv /\ [Next]_vars => IInv'
    <2> SUFFICES ASSUME IInv, [Next]_vars PROVE IInv'
      OBVIOUS
    <2> USE PlanningAssumption
    <2>1. CASE Count
      BY <2>1, CountStep
    <2>2. CASE Plan
      BY <2>2, PlanStep
    <2>3. CASE DiscoveryFails
      BY <2>3, DiscoveryFailsStep
    <2>4. CASE FallBack
      BY <2>4, FallBackStep
    <2>5. CASE Bind
      BY <2>5, BindStep
    <2>6. CASE QueryPlan
      BY <2>6, QueryPlanStep
    <2>7. CASE CheckEngine
      BY <2>7, CheckEngineStep
    <2>8. CASE CheckColumns
      BY <2>8, CheckColumnsStep
    <2>9. CASE ReadParts
      BY <2>9, ReadPartsStep
    <2>10. CASE EmitTask
      BY <2>10, EmitTaskStep
    <2>11. CASE LastTaskEmitted
      BY <2>11, LastTaskEmittedStep
    <2>12. CASE RunTask
      BY <2>12, RunTaskStep
    <2>13. CASE TaskFails
      BY <2>13, TaskFailsStep
    <2>14. CASE Finish
      BY <2>14, FinishStep
    <2>15. CASE RunCount
      BY <2>15, RunCountStep
    <2>16. CASE Write
      BY <2>16, WriteStep
    <2>17. CASE UNCHANGED vars
      <3>1. UNCHANGED <<source, request, table, groups, tasks, got, planned, touched>>
            /\ UNCHANGED <<pc, error, outcome, result, writes>>
        BY <2>17 DEF vars
      <3>2. /\ PlanInv' /\ DisjointInv' /\ GotInv' /\ DoneInv' /\ Kept' = Kept /\ GotRows' = GotRows
            /\ PresentRows' = PresentRows /\ DatabaseLimit' = DatabaseLimit
        BY <3>1, Frame
      <3>3. TypeOK' /\ PhaseInv' /\ FallbackInv'
        BY <3>1 DEF IInv, TypeOK, PhaseInv, FallbackInv, NothingYet, CountAccepted, FallsBack,
           AllParts
      <3>4. CoverInv' /\ ResultInv'
        BY <3>1, <3>2 DEF IInv, CoverInv, ResultInv, CountAccepted, Sized
      <3> QED  BY <3>2, <3>3, <3>4 DEF IInv
    <2> QED  BY <2>1, <2>2, <2>3, <2>4, <2>5, <2>6, <2>7, <2>8, <2>9, <2>10, <2>11, <2>12,
                <2>13, <2>14, <2>15, <2>16, <2>17 DEF Next
  <1> QED  BY <1>1, <1>2, PTL DEF Spec

(* The variables of a scan keep their types. *)
THEOREM TypeCorrect == Spec => []TypeOK
  <1>1. IInv => TypeOK
    BY DEF IInv
  <1> QED  BY <1>1, Invariant, PTL

(* Only the exact count that Daft asked for is answered by the database. *)
THEOREM CountsExact == Spec => []CountExact
  <1>1. IInv => CountExact
    BY DEF IInv, ResultInv, CountExact, CountAccepted, Wanted
  <1> QED  BY <1>1, Invariant, PTL

(* No task reads outside of the plan, whatever is written after it was made. *)
THEOREM OnlyPlannedIsRead == Spec => []ReadsOnlyPlanned
  <1>1. IInv => ReadsOnlyPlanned
    BY DEF IInv, GotInv, ReadsOnlyPlanned
  <1> QED  BY <1>1, Invariant, PTL

(* A failed discovery ends the scan, or leaves one task that reads everything. *)
THEOREM FallbackDeliberate == Spec => []FallbackIsDeliberate
  <1>1. ASSUME IInv PROVE FallbackIsDeliberate
    <2>1. CASE error = "none"
      BY <2>1 DEF FallbackIsDeliberate
    <2>2. CASE error # "none" /\ (error = "fatal" \/ source.policy = "error")
      BY <1>1, <2>2 DEF IInv, FallbackInv, FallsBack, FallbackIsDeliberate
    <2>3. CASE error # "none" /\ ~(error = "fatal" \/ source.policy = "error")
      <3>1. source.policy \in {"single", "error"}
        BY <1>1 DEF IInv, TypeOK, Sources
      <3>2. FallsBack
        BY <1>1, <2>3, <3>1 DEF IInv, TypeOK, FallsBack
      <3>3. \/ tasks = << >>
            \/ Len(tasks) = 1 /\ tasks[1].ids = AllParts
        BY <1>1, <2>3, <3>2 DEF IInv, FallbackInv, PhaseInv, Discovering, NothingYet
      <3>4. Len(tasks) <= 1 /\ \A i \in DOMAIN tasks : tasks[i].ids = AllParts
        <4>1. CASE tasks = << >>
          BY <4>1
        <4>2. CASE Len(tasks) = 1 /\ tasks[1].ids = AllParts
          <5>1. DOMAIN tasks = {1}
            BY <1>1, <4>2 DEF IInv, TypeOK
          <5> QED  BY <4>2, <5>1
        <4> QED  BY <3>3, <4>1, <4>2
      <3> QED  BY <2>3, <3>4 DEF FallbackIsDeliberate
    <2> QED  BY <2>1, <2>2, <2>3
  <1> QED  BY <1>1, Invariant, PTL

(* When a scan succeeds the limit is met, or every row asked for was read
   unless somebody wrote to it. *)
LEMMA AllDelivered ==
    ASSUME IInv, outcome = "ok", request.count = "none"
    PROVE  \/ /\ DatabaseLimit # NoLimit /\ DatabaseLimit = request.limit
              /\ Cardinality(GotRows) >= request.limit
           \/ \A r \in Wanted(PresentRows \ touched) : got[r] > 0
  <1>1. DatabaseLimit # NoLimit => DatabaseLimit = request.limit
    BY DEF DatabaseLimit
  <1>2. SUFFICES ASSUME ~(DatabaseLimit # NoLimit /\ Cardinality(GotRows) >= DatabaseLimit),
                        NEW r \in Wanted(PresentRows \ touched)
                 PROVE  got[r] > 0
    BY <1>1
  <1>3. r \in Wanted(Kept) /\ r \in Kept
    BY DEF Wanted, Kept, Selected
  <1>4. groups = << >> /\ \A i \in DOMAIN tasks : tasks[i].state = "done"
    BY DEF IInv, ResultInv
  <1>5. PICK i \in DOMAIN tasks : table[r] \in tasks[i].ids /\ tasks[i].limit = DatabaseLimit
    BY <1>3, <1>4 DEF IInv, CoverInv
  <1> QED  BY <1>2, <1>3, <1>4, <1>5 DEF IInv, DoneInv

(* A scan without limit returns every row that satisfies the filter exactly
   once, unless somebody wrote to it. *)
THEOREM RowsExactlyOnce == Spec => []ExactlyOnce
  <1>1. ASSUME IInv PROVE ExactlyOnce
    <2>1. SUFFICES ASSUME outcome = "ok", request.count = "none", request.limit = NoLimit,
                          NEW r \in RowIds
                   PROVE  /\ got[r] <= 1
                          /\ r \notin touched => got[r] = IF r \in Wanted(PresentRows) THEN 1 ELSE 0
      BY DEF ExactlyOnce
    <2>2. got[r] \in Nat /\ got[r] <= 1
      BY <1>1 DEF IInv, TypeOK, GotInv
    <2>3. DatabaseLimit = NoLimit
      BY <2>1 DEF DatabaseLimit
    <2>4. r \notin touched /\ r \in Wanted(PresentRows) => got[r] > 0
      <3>1. \A q \in Wanted(PresentRows \ touched) : got[q] > 0
        BY <1>1, <2>1, <2>3, AllDelivered
      <3> QED  BY <3>1 DEF Wanted
    <2>5. r \notin touched /\ got[r] > 0 => r \in Wanted(PresentRows)
      BY <1>1 DEF IInv, GotInv, Wanted, PresentRows
    <2> QED  BY <2>2, <2>4, <2>5
  <1> QED  BY <1>1, Invariant, PTL

(* A limit costs no rows. *)
THEOREM LimitCostsNothing == Spec => []LimitMet
  <1>1. ASSUME IInv PROVE LimitMet
    <2>1. SUFFICES ASSUME outcome = "ok", request.count = "none", request.limit # NoLimit
                   PROVE  /\ result \subseteq Wanted(RowIds)
                          /\ Cardinality(result) >=
                                Min({request.limit, Cardinality(Wanted(PresentRows \ touched))})
      BY DEF LimitMet
    <2> DEFINE limit == request.limit
               W == Wanted(PresentRows \ touched)
               c == Cardinality(W)
    <2>2. result \in Sized(GotRows, limit)
      BY <1>1, <2>1 DEF IInv, ResultInv
    <2>3. GotRows \in SUBSET RowIds /\ W \in SUBSET RowIds
      BY DEF GotRows, Wanted, PresentRows
    <2>4. IsFiniteSet(GotRows) /\ IsFiniteSet(W)
      BY <2>3, PlanningAssumption, FS_Subset DEF PlanningAssumption
    <2>5. c \in Nat /\ limit \in Nat
      <3>1. c \in Nat
        BY <2>4, FS_CardinalityType
      <3>2. limit \in Nat
        BY <1>1, <2>1, PlanningAssumption, RequestFacts DEF IInv, TypeOK
      <3> QED  BY <3>1, <3>2
    <2>6. GotRows \subseteq Wanted(RowIds)
      BY <1>1 DEF IInv, GotInv, GotRows
    <2>7. Cardinality(GotRows) >= limit \/ W \subseteq GotRows
      <3>1. CASE Cardinality(GotRows) >= request.limit
        BY <3>1
      <3>2. CASE \A r \in W : got[r] > 0
        BY <2>3, <3>2 DEF GotRows
      <3> QED  BY <1>1, <2>1, <3>1, <3>2, AllDelivered
    <2>8. Min({limit, c}) <= limit /\ Min({limit, c}) <= c /\ Min({limit, c}) \in Nat
      <3> HIDE DEF limit, c
      <3>1. \E x \in {limit, c} : \A y \in {limit, c} : x <= y
        BY <2>5
      <3>2. Min({limit, c}) \in {limit, c} /\ \A y \in {limit, c} : Min({limit, c}) <= y
        BY <3>1 DEF Min
      <3> QED  BY <2>5, <3>2
    <2>9. limit # NoLimit
      BY <2>1
    <2> HIDE DEF limit
    <2>10. /\ result \subseteq GotRows /\ Cardinality(result) \in Nat
           /\ Cardinality(result) = limit \/ result = GotRows
      BY <2>2, <2>4, <2>5, <2>9, SizedFacts
    <2>11. Cardinality(result) >= limit \/ Cardinality(result) >= c
      <3>1. CASE Cardinality(result) = limit
        BY <2>5, <3>1
      <3>2. CASE result = GotRows
        <4>1. CASE Cardinality(GotRows) >= limit
          BY <3>2, <4>1
        <4>2. CASE W \subseteq GotRows
          <5> HIDE DEF W
          <5>1. Cardinality(W) <= Cardinality(GotRows)
            BY <2>4, <4>2, FS_Subset
          <5> QED  BY <2>5, <2>10, <3>2, <5>1
        <4> QED  BY <2>7, <4>1, <4>2
      <3> QED  BY <2>10, <3>1, <3>2
    <2> HIDE DEF c
    <2>12. Cardinality(result) >= Min({limit, c})
      BY <2>5, <2>8, <2>10, <2>11
    <2> QED  BY <2>6, <2>10, <2>12 DEF limit, c
  <1> QED  BY <1>1, Invariant, PTL
=============================================================================
