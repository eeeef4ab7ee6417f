---------------------------- MODULE ScanPlanning ----------------------------
(***************************************************************************)
(* One scan of a table: DorisDataSource.get_tasks or                       *)
(* ClickHouseDataSource.get_tasks with the discovery behind it             *)
(* (discover_tablets, discover_partitions), the queries of the tasks it    *)
(* emits, and what Daft makes of their rows.  Discovery and every task are *)
(* queries of their own with no common snapshot; the table is written to   *)
(* between them.                                                           *)
(*                                                                         *)
(* A row is a model value that is in one tablet (Doris) or partition       *)
(* (ClickHouse) or absent; the rows in Hits satisfy the user's filter.     *)
(* Rows that unsafe_where_sql excludes are not modelled: the fragment is   *)
(* part of the planning query and of every task.                           *)
(***************************************************************************)
EXTENDS Grouping

CONSTANTS RowIds,       \* rows the table may have
          Hits,         \* those that satisfy the filter
          Parts,        \* tablet or partition identifiers, integers
          Limits,       \* limits a scan may ask for
          TargetTasks, MaxTasks,
          MaxWrites     \* bound: writes by others during a scan

NoLimit == -1
Absent == 0

ASSUME PlanningAssumption ==
    /\ IsFiniteSet(RowIds) /\ Hits \subseteq RowIds
    /\ IsFiniteSet(Parts) /\ Parts \subseteq Nat \ {Absent}
    /\ Limits \subseteq Nat
    /\ TargetTasks \in Nat \ {0} /\ MaxTasks \in Nat \ {0}
    /\ MaxWrites \in Nat

VARIABLES source,     \* the configured data source
          request,    \* Daft's Pushdowns
          table,      \* the tablet or partition each row is in
          pc,         \* the next step of the scan
          error,      \* what discovery raised
          groups,     \* groups of tablet or partition ids still to be emitted
          tasks,      \* tasks emitted so far
          got,        \* how often Daft was given each row
          outcome, result,
          planned,    \* history: the tablets or partitions the plan covers
          touched,    \* history: rows written since the scan began
          writes

vars == <<source, request, table, pc, error, groups, tasks, got, outcome, result,
          planned, touched, writes>>

\* engine: whether system.parts shows all of a ClickHouse table ("local");
\* shadowed: a physical _partition_id column, known to the source's schema
\* ("schema"), or only to the server because it was added later ("server")
Sources ==
    [kind : {"doris"}, split : {"single", "auto"}, policy : {"single", "error"},
     params : BOOLEAN, engine : {"local"}, shadowed : {"no"}]
    \cup
    [kind : {"clickhouse"}, split : {"single", "auto"},
     policy : {"single", "error"}, params : {FALSE},
     engine : {"local", "other"}, shadowed : {"no", "schema", "server"}]

\* filter: "pushed" compiles to SQL completely, "residual" does not
Request(count, columns, filters, limits) ==
    [count : count, columns : columns, filter : filters, limit : limits]

Requests ==
    Request({"none"}, {"known"}, {"none", "pushed", "residual"}, Limits \cup {NoLimit})
    \cup Request({"none"}, {"unknown", "empty"}, {"none"}, {NoLimit})
    \cup Request({"all", "other"}, {"known"}, {"none", "pushed"}, {1, NoLimit})

\* A task reads one group, or the whole table when ids is AllParts
AllParts == Parts \cup {Absent}

PresentRows == {r \in RowIds : table[r] # Absent}

\* Rows the query asks for, and the rows its SQL asks the database for
Wanted(rows) == IF request.filter = "none" THEN rows ELSE rows \cap Hits
Selected(rows) == IF request.filter = "pushed" THEN rows \cap Hits ELSE rows

TypeOK ==
    /\ source \in Sources
    /\ request \in Requests
    /\ table \in [RowIds -> AllParts]
    /\ pc \in {"start", "count", "bind", "query_plan", "engine", "columns",
               "parts", "fallback", "emit", "run", "done"}
    /\ error \in {"none", "recoverable", "fatal"}
    /\ groups \in Seq(SUBSET AllParts)
    /\ tasks \in Seq([ids : SUBSET AllParts, limit : Limits \cup {0, NoLimit},
                      state : {"new", "done"}])
    /\ got \in [RowIds -> Nat]
    /\ outcome \in {"none", "ok", "compatibility", "discovery", "fatal", "transport"}
    /\ result \subseteq RowIds
    /\ planned \subseteq AllParts
    /\ touched \subseteq RowIds
    /\ writes \in 0..MaxWrites

Init ==
    /\ source \in Sources
    /\ request \in Requests
    /\ table \in [RowIds -> AllParts]
    /\ pc = "start"
    /\ error = "none"
    /\ groups = << >>
    /\ tasks = << >>
    /\ got = [r \in RowIds |-> 0]
    /\ outcome = "none"
    /\ result = {}
    /\ planned = AllParts
    /\ touched = {}
    /\ writes = 0

-----------------------------------------------------------------------------
(* get_tasks *)

Fail(reason) ==
    /\ pc' = "done"
    /\ outcome' = reason

\* Mutant: a filtered count is pushed down
CountAcceptedFiltered == request.count = "all" /\ request.limit = NoLimit

\* count_pushdown, and the limit check behind it: nothing but the exact
\* global count without filter and limit is accepted
CountAccepted ==
    request.count = "all" /\ request.filter = "none" /\ request.limit = NoLimit

Count ==
    /\ pc = "start"
    /\ request.count # "none"
    /\ IF CountAccepted
       THEN pc' = "count" /\ UNCHANGED outcome
       ELSE Fail("compatibility")
    /\ UNCHANGED <<source, request, table, error, groups, tasks, got, result,
                   planned, touched, writes>>

\* Mutant: the limit is always pushed down
DatabaseLimitAlways == request.limit

\* safe_database_limit
DatabaseLimit ==
    IF request.limit = 0 \/ request.filter # "residual" THEN request.limit
    ELSE NoLimit

\* required_scan_columns knows every column, and there is at least one
ColumnsAccepted == request.columns = "known"

\* _partition_groups and _tablet_plan return one unrestricted group at once
PlannedWithoutDiscovery ==
    source.split = "single" \/ DatabaseLimit = 0 \/ source.shadowed = "schema"

FirstDiscoveryStep ==
    CASE source.kind = "clickhouse" -> "engine"
      [] source.kind = "doris" /\ source.params -> "bind"
      [] OTHER -> "query_plan"

Plan ==
    /\ pc = "start"
    /\ request.count = "none"
    /\ \/ ~ColumnsAccepted /\ Fail("compatibility") /\ UNCHANGED groups
       \/ /\ ColumnsAccepted /\ PlannedWithoutDiscovery
          /\ groups' = <<AllParts>>
          /\ pc' = "emit"
          /\ UNCHANGED outcome
       \/ /\ ColumnsAccepted /\ ~PlannedWithoutDiscovery
          /\ pc' = FirstDiscoveryStep
          /\ UNCHANGED <<groups, outcome>>
    /\ UNCHANGED <<source, request, table, error, tasks, got, result, planned,
                   touched, writes>>

-----------------------------------------------------------------------------
(* Discovery, on a thread of its own *)

\* DiscoveryError is recoverable; authentication, permission and missing
\* objects are not
DiscoveryFails ==
    /\ pc \in {"bind", "query_plan", "engine", "columns", "parts"}
    /\ error' \in {"recoverable", "fatal"}
    /\ pc' = "fallback"
    /\ UNCHANGED <<source, request, table, groups, tasks, got, outcome, result,
                   planned, touched, writes>>

\* Mutant: catches every error, not only DiscoveryError
FallsBackAlways == source.policy = "single"

FallsBack == error = "recoverable" /\ source.policy = "single"

Raised == IF error = "fatal" THEN "fatal" ELSE "discovery"

\* except DiscoveryError: raise, or warn and read everything in one task
FallBack ==
    /\ pc = "fallback"
    /\ IF FallsBack
       THEN groups' = <<AllParts>> /\ pc' = "emit" /\ UNCHANGED outcome
       ELSE Fail(Raised) /\ UNCHANGED groups
    /\ UNCHANGED <<source, request, table, error, tasks, got, result, planned, touched,
                   writes>>

\* _materialize_plan_sql: PyMySQL escapes the parameters on a connection
Bind ==
    /\ pc = "bind"
    /\ pc' = "query_plan"
    /\ UNCHANGED <<source, request, table, error, groups, tasks, got, outcome,
                   result, planned, touched, writes>>

\* What FE's _query_plan may answer: it prunes tablets, but none that holds a
\* row of the planning SQL; the identifiers are distinct and positive
PlannedTablets ==
    {ids \in SUBSET Parts : {table[r] : r \in Selected(PresentRows)} \subseteq ids}

QueryPlan ==
    /\ pc = "query_plan"
    /\ \E ids \in PlannedTablets :
          LET adjacent == GroupAdjacentIds(ids, TargetTasks, MaxTasks)
          IN  groups' = IF ids = {} THEN <<{}>>
                        ELSE [k \in DOMAIN adjacent |-> Range(adjacent[k])]
    /\ planned' = UNION {groups'[k] : k \in DOMAIN groups'}
    /\ pc' = "emit"
    /\ UNCHANGED <<source, request, table, error, tasks, got, outcome, result,
                   touched, writes>>

OneTask ==
    /\ groups' = <<AllParts>>
    /\ pc' = "emit"

\* system.tables: only a local MergeTree engine shows all of its parts
CheckEngine ==
    /\ pc = "engine"
    /\ IF source.engine = "local" THEN pc' = "columns" /\ UNCHANGED groups
       ELSE OneTask
    /\ UNCHANGED <<source, request, table, error, tasks, got, outcome, result,
                   planned, touched, writes>>

\* Mutant: only the schema of the source is looked at
VirtualColumnAssumed == TRUE

\* system.columns: a physical _partition_id hides the virtual column
VirtualColumnVisible == source.shadowed = "no"

CheckColumns ==
    /\ pc = "columns"
    /\ IF VirtualColumnVisible THEN pc' = "parts" /\ UNCHANGED groups
       ELSE OneTask
    /\ UNCHANGED <<source, request, table, error, tasks, got, outcome, result,
                   planned, touched, writes>>

\* system.parts: the active partitions, heavier with more rows.  One server
\* of another engine shows only some of them.
ActivePartitions ==
    IF source.engine = "local" THEN {{table[r] : r \in PresentRows}}
    ELSE SUBSET {table[r] : r \in PresentRows}

ReadParts ==
    /\ pc = "parts"
    /\ \E ids \in ActivePartitions :
          LET weight == [p \in ids |-> Cardinality({r \in RowIds : table[r] = p})]
              weighted == GroupWeightedItems(weight, TargetTasks, MaxTasks)
          IN  groups' = IF ids = {} THEN <<AllParts>>
                        ELSE [k \in DOMAIN weighted |-> Range(weighted[k])]
    /\ planned' = UNION {groups'[k] : k \in DOMAIN groups'}
    /\ pc' = "emit"
    /\ UNCHANGED <<source, request, table, error, tasks, got, outcome, result,
                   touched, writes>>

-----------------------------------------------------------------------------
(* Tasks *)

\* Mutant: a plan without tablets scans the table
TaskForUnrestricted(group) ==
    [ids |-> IF group = {} THEN AllParts ELSE group,
     limit |-> DatabaseLimit, state |-> "new"]

\* A Doris plan without tablets becomes one LIMIT 0 task over the table
TaskFor(group) ==
    IF group = {} THEN [ids |-> AllParts, limit |-> 0, state |-> "new"]
    ELSE [ids |-> group, limit |-> DatabaseLimit, state |-> "new"]

EmitTask ==
    /\ pc = "emit"
    /\ groups # << >>
    /\ tasks' = Append(tasks, TaskFor(Head(groups)))
    /\ groups' = Tail(groups)
    /\ UNCHANGED <<source, request, table, pc, error, got, outcome, result,
                   planned, touched, writes>>

LastTaskEmitted ==
    /\ pc = "emit"
    /\ groups = << >>
    /\ pc' = "run"
    /\ UNCHANGED <<source, request, table, error, groups, tasks, got, outcome,
                   result, planned, touched, writes>>

\* The rows a task's SQL selects at this moment.  A partition predicate on a
\* table with a physical _partition_id compares the wrong column.
TaskRows(task) ==
    IF task.ids # AllParts /\ source.shadowed # "no" THEN {}
    ELSE Selected({r \in PresentRows : table[r] \in task.ids})

Sized(rows, limit) ==
    {s \in SUBSET rows :
        Cardinality(s) = IF limit = NoLimit THEN Cardinality(rows)
                         ELSE Min({limit, Cardinality(rows)})}

\* Daft applies the filter, pushed or not, to what a task returns.  It may
\* start a task as soon as it has been emitted.
RunTask ==
    /\ pc \in {"emit", "run"}
    /\ \E i \in DOMAIN tasks :
          /\ tasks[i].state = "new"
          /\ tasks' = [tasks EXCEPT ![i].state = "done"]
          /\ \E rows \in Sized(TaskRows(tasks[i]), tasks[i].limit) :
                got' = [r \in RowIds |->
                          got[r] + IF r \in Wanted(rows) THEN 1 ELSE 0]
    /\ UNCHANGED <<source, request, table, pc, error, groups, outcome, result,
                   planned, touched, writes>>

\* A task that fails ends the scan; it is not replayed another way
TaskFails ==
    /\ pc \in {"emit", "run"}
    /\ \E i \in DOMAIN tasks : tasks[i].state = "new"
    /\ Fail("transport")
    /\ UNCHANGED <<source, request, table, error, groups, tasks, got, result,
                   planned, touched, writes>>

\* Daft's global limit over the rows of all tasks
Finish ==
    /\ pc = "run"
    /\ \A i \in DOMAIN tasks : tasks[i].state = "done"
    /\ result' \in Sized({r \in RowIds : got[r] > 0}, request.limit)
    /\ pc' = "done"
    /\ outcome' = "ok"
    /\ UNCHANGED <<source, request, table, error, groups, tasks, got, planned, touched,
                   writes>>

\* SELECT count(*): the one task of an accepted count
RunCount ==
    /\ pc = "count"
    /\ result' = PresentRows
    /\ pc' = "done"
    /\ outcome' = "ok"
    /\ UNCHANGED <<source, request, table, error, groups, tasks, got, planned, touched,
                   writes>>

-----------------------------------------------------------------------------
(* Others write to the table *)

Write ==
    /\ pc \notin {"start", "done"}
    /\ writes < MaxWrites
    /\ writes' = writes + 1
    /\ \E r \in RowIds \ touched, p \in AllParts :
          /\ table[r] = Absent \/ p = Absent       \* insert or delete
          /\ table[r] # p
          /\ table' = [table EXCEPT ![r] = p]
          /\ touched' = touched \cup {r}
    /\ UNCHANGED <<source, request, pc, error, groups, tasks, got, outcome, result,
                   planned>>

Next ==
    \/ Count \/ Plan \/ DiscoveryFails \/ FallBack
    \/ Bind \/ QueryPlan \/ CheckEngine \/ CheckColumns \/ ReadParts
    \/ EmitTask \/ LastTaskEmitted \/ RunTask \/ TaskFails \/ Finish
    \/ RunCount \/ Write

Spec == Init /\ [][Next]_vars

-----------------------------------------------------------------------------
(* Properties *)

(* A scan without limit returns every row of the table that nobody wrote to
   meanwhile exactly once if it satisfies the filter, and no row twice:
   whether it was split or not, pruned, or fell back to one task, and
   whatever is inserted and deleted around those rows. *)
ExactlyOnce ==
    outcome = "ok" /\ request.count = "none" /\ request.limit = NoLimit =>
        \A r \in RowIds :
            /\ got[r] <= 1
            /\ r \notin touched =>
                  got[r] = IF r \in Wanted(PresentRows) THEN 1 ELSE 0

(* A limit costs no rows: the limit is pushed to the tasks only where Daft
   cannot discard what they return, so the scan has as many rows as were
   asked for whenever the untouched part of the table has them. *)
LimitMet ==
    outcome = "ok" /\ request.count = "none" /\ request.limit # NoLimit =>
        /\ result \subseteq Wanted(RowIds)
        /\ Cardinality(result) >=
              Min({request.limit, Cardinality(Wanted(PresentRows \ touched))})

(* A count that is answered by the database is the count Daft asked for:
   filtered, limited or other counts are never pushed down. *)
CountExact ==
    outcome = "ok" /\ request.count # "none" =>
        /\ request.count = "all" /\ request.limit = NoLimit
        /\ \A r \in RowIds \ touched : r \in result <=> r \in Wanted(PresentRows)

(* No task reads outside of what was planned.  In particular a Doris plan
   without tablets reads nothing, also when rows arrive after it was made:
   it never turns into a scan of the table. *)
ReadsOnlyPlanned ==
    \A r \in RowIds : got[r] > 0 /\ table[r] # Absent => table[r] \in planned

(* A fatal discovery failure, or any under the "error" policy, ends the scan
   before a task exists; after another one the scan is one task that reads
   the whole table. *)
FallbackIsDeliberate ==
    error # "none" =>
        IF error = "fatal" \/ source.policy = "error"
        THEN tasks = << >> /\ outcome # "ok"
        ELSE Len(tasks) <= 1 /\ \A i \in DOMAIN tasks : tasks[i].ids = AllParts

=============================================================================
