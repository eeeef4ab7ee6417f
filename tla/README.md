# Verification of daft-olap-connectors

TLA+ specifications of the Doris and ClickHouse read connectors in
`src/daft_olap`, the TLC configurations that check them on small instances, and
TLAPS proofs of the results that matter most for every value of the constants.
Paths below are relative to the repository.

## 1. The system

The package gives Daft two scan-only data sources. A scan has two halves.

*Planning* happens once, in the driver process. `get_tasks` of a data source
receives Daft's pushdowns (columns, filter, limit, count), compiles the filter
to SQL if it can compile all of it, asks the database for tablets (Doris) or
partitions (ClickHouse), groups them, and emits one task per group, or one task
for the whole table when splitting is off, impossible, or has failed and the
policy allows it.

*Reading* happens once per task, wherever Daft runs it. A task is an
asynchronous generator over one SQL query. ClickHouse is read with an
asynchronous client. Doris is read with blocking drivers (PyMySQL or ADBC
Flight SQL) that one dedicated worker thread per task drives.

Nothing is persisted and nothing is shared between tasks, so there is no crash
recovery and no lock. What is hard is inside one read (a coroutine, a worker
thread and a consumer that may cancel, close or drop it at any await, with
drivers that may raise at every call, also while they are being closed) and
between planning and the reads (no common snapshot, rows that must come exactly
once although the table is written to).

### Components

| Component | State it keeps | Operations | Talks to |
|---|---|---|---|
| `doris/transports/mysql.py`, `MySqlBatchReader` | connection, cursor, lifecycle, adaptive fetch size | `_open`, `_fetch`, `_close` | PyMySQL; called on the task thread only |
| `doris/transports/_pymysql.py`, `SSCursorLifecycle` | what has been validated of the private driver state | `validate_cursor`, `validate_result`, `close` | the reader above |
| `doris/transports/flight.py`, `FlightBatchReader` | connection, cursor, record batch reader | `_open`, `_fetch`, `_close` | ADBC; called on the task thread only |
| `doris/transports/_thread.py`, `TaskThread` | executor, close future | `call`, `close`, `_shutdown` | executor and event loop |
| `stream_query` of both Doris transports | `failure`, the batch being sliced | one asynchronous generator | the task thread, the consumer |
| `clickhouse/transport.py`, `stream_query` | client, stream context, `failure` | one asynchronous generator | clickhouse-connect, the consumer |
| `doris/task.py`, `clickhouse/task.py` | a frozen description of the query | `read` | iterates the generators above |
| `_common/contracts.py` | none | `iter_batch_slices`, `group_adjacent_ids`, `group_weighted_items`, limits, options | everyone |
| `doris/datasource.py`, `clickhouse/datasource.py` | configuration and schema, frozen | `get_tasks` | discovery, Daft |
| `doris/discovery.py`, `clickhouse/discovery.py` | none beyond a call | `discover_schema`, `discover_tablets`, `_materialize_plan_sql`, `discover_partitions` | information schema, FE HTTP API, system tables |
| `_compat.py` | none | `count_pushdown`, `required_scan_columns`, `safe_database_limit`, `compile_filter` | Daft's `Pushdowns` |
| `_common/predicate_ir.py`, `doris/sql.py`, `clickhouse/sql.py` | none | the predicate IR, its renderers, `build_select`, scanners of trusted fragments | transports, discovery |
| `doris/schema.py`, `clickhouse/schema.py` | none | type parsers | schema discovery |
| `*/errors.py`, `identifiers.py`, `redaction.py`, `*/api.py` | none | translation, validation, facades | everyone |

What makes each of them correct:

* a **reader** opens its connection only in `_open`, gives it back in `_close`
  whatever failed, serves consecutive rows, and reports the end only at the end;
  giving up a MySQL result must not read the rest of it;
* a **Doris read** leaks no connection and no thread under any order of cancel,
  close, drop and failure, calls the reader's methods in the order they are
  written for, pulls rows only on demand, and reports the first failure;
* a **ClickHouse read** leaves its stream before its client and closes both;
* **slicing** respects both limits, is maximal, loses nothing, and ends;
* **grouping** is a partition within the task budget, and balanced;
* a **data source** accepts exactly the limits and option trees that are sound,
  and what it keeps of them cannot be changed from outside, nor can one copy it
  hands out reach another;
* a **scan** returns every row that nobody wrote to exactly once, satisfies its
  limit, answers only the counts it can, and falls back only deliberately;
* a **pushed filter** selects exactly what Daft's filter selects;
* a **trusted fragment** reaches the database as it was written, with values in
  place of its markers and of nothing else;
* a **type declaration** is understood as what it means or refused, and a schema
  that was accepted can be read;
* a **metadata query** returns what it opened, reports every failure as a
  class that `get_tasks` treats the right way, and takes a plan from sound
  answers only.

## 2. Modules

```
ReadSession ............ abstract: what one read promises to Daft
   ^ safety proved, liveness by TLC              ^ safety part only, proved
DorisStream                                   ClickHouseStream
   | EXTENDS SyncReader, RowDelivery             | EXTENDS RowDelivery
SyncReader ............. abstract: what a blocking reader promises to its thread
   ^ implemented by (TLC and proved)
MySqlReader, FlightReader

RowDelivery ............ the slice loop of every stream_query
BatchSlicing ........... how large the slices are
Grouping ............... how tablets and partitions become tasks, extended by
   ScanPlanning             planning, fallback and the queries of the tasks
   SourceContracts          limits, options and parameters of a data source
UnsafeFragment ......... the scanners of trusted fragments, extended by
   PredicatePushdown        filter -> IR -> SQL and parameters -> rows
ClickHouseTypes, DorisTypes  the type parsers, both extended by
   SchemaPlan               rows of DESCRIBE -> schema -> projection of a task
   SchemaMeaning            what the declarations mean, and that they are so read
MetadataQuery .......... the synchronous queries of planning and their errors
```

The composition is by contract. `DorisStream` does not repeat the readers: it
extends the abstract `SyncReader` and drives it through the worker thread, and
`MySqlReader` and `FlightReader` are each proved to implement `SyncReader` by a
refinement mapping of their program counter to its `phase`. The obligation in
the other direction, that the thread calls the reader only in phases in which
its method is written to be called, is `CallsInOrder` of `DorisStream`. In the
same way `RowDelivery` takes any non-empty slice and `BatchSlicing` says which.

The proofs are in modules of their own, each of which extends what it is about:

| Module | Proves about |
|---|---|
| `SharedLemmas` | `Grouping`, and what several proofs need: one more slice, sorting, smallest counterexamples |
| `MySqlReaderProofs`, `FlightReaderProofs` | the readers, and that they implement `SyncReader` |
| `DorisStreamProofs` | `DorisStream`, and that it implements the safety part of `ReadSession` |
| `ClickHouseStreamProofs` | `ClickHouseStream`, the same, and `BatchSlicing` |
| `ScanPlanningProofs` | `ScanPlanning` |
| `SourceContractsProofs` | `SourceContracts` |
| `QueryProofs` | `MetadataQuery`, the Doris half of `SchemaPlan`, `PredicatePushdown` |

Modules that are proved about together (`BatchSlicing` with `ClickHouseStream`; the
three of `QueryProofs`) name their specification after themselves: `SlicingSpec`,
`SchemaSpec`, `PushdownSpec`. The recursions of the code over objects, trees and
text are recursive functions wherever a theorem depends on them, because the prover
has no use for a RECURSIVE operator; only `SchemaMeaning`, which no theorem is
about, has any. A recursion over a tree becomes a function of the height n whose value
is a function on the trees of that height (`Trees[n]`), a search with a work list
becomes a function of the number of rounds.

### SyncReader

`phase` is the reader's life; a call runs from a `Start` to a `Finish` action
because other threads can see the state in between: `Connect` happens inside
`_open`, `Release` inside `_close`. `ret` is the value or exception of the last
call.

### MySqlReader

Every call into PyMySQL is an action, and each may raise. `pc` names the next
call; `conn` and `cursor` are the attributes of the reader; `attached`, `active`
are PyMySQL's own `cursor.connection` and `result.unbuffered_active`;
`validCursor`, `validResult` are the lifecycle's record of what it has
validated. `StartClose` chooses among the three branches of `_close`;
`ReadActive` to `CursorLast` are the steps of `SSCursorLifecycle.close`, in
which every step is attempted although earlier ones raised (`Attempt`).
PyMySQL's side (`Execute`, `FetchedRows`, `CloseCursor`) is external: an
`SSCursor` reads the end-of-result packet only when a row is asked for that is
not there, and closing an attached cursor with an active result reads all of it.
Values are abstracted to `bytes`, the size of the values of the first n rows, the
text offsets that come with each of them included. The `nbytes` that `_fetch` looks
at is not additive: each batch adds one more offset per text column and bitmaps
rounded up to whole bytes, which is any member of `Extras`, chosen for each batch
anew.

### FlightReader

The three ADBC handles, one action per driver call, `_close` in the order of
the code. All three are tried; which of several failures surfaces (the last one, from
nested `finally` blocks) is not told apart, only that one did. Only the end of the stream is told apart
from a batch; an Arrow batch may be empty.

### DorisStream

`co` is the await (or yield) the coroutine is suspended at, and an action is one
resumption up to the next suspension. `queue` and `running` are the executor's
work queue and the worker; `call` and `closeFuture` the futures of the last call
and of the close; `executor` and `loop` what is left to shut down. Three parties
interleave: `Worker`, `Loop`, `Consumer`. External behaviour that the code
relies on:

* cancelling the future of a queued call makes the worker skip it, cancelling
  one that runs does not disturb it (`CancelQueued`, `Answer`);
* a shield keeps the cancellation of the waiter from the close (`CloseCancelled`
  changes neither `queue` nor `closeFuture`);
* `_shutdown` is registered before the shield, so it runs before the coroutine
  is resumed (`CloseReturns` wants `executor = "down"`);
* the loop's asyncgen hook closes a generator that was dropped
  (`FinalizerRuns`), which matters because `DorisTask.read` does not use
  `aclosing()`.

### ClickHouseStream

The same consumer, but every await (`get_async_client`, `query_arrow_stream`,
the next batch, leaving the stream, closing the client) is on the event loop and
unshielded. `client` and `stream` distinguish `"closing"` from `"released"` and
`"interrupted"`.

### BatchSlicing, Grouping

`iter_batch_slices` with one action per iteration of its loops, for any byte
function that grows with the length of a slice. Grouping is pure. `Sorted` puts an
element where as many others stand before it as its place says, `GroupAdjacentIds`
cuts the sorted identifiers into runs, and `Buckets` is the loop of the greedy
balance as a recursive function of the number of items placed.

### ScanPlanning

A table is a function from rows to the tablet or partition they are in; others
insert and delete rows while the scan runs (`Write`). `Plan`, the discovery
actions, `FallBack` and `EmitTask` follow `get_tasks` and the discovery
functions of both connectors; `RunTask` evaluates the SQL of one task at the
moment it runs, and applies Daft's residual filter; `Finish` applies Daft's
global limit. FE's pruning is any superset of the tablets that hold a selected
row. A `_partition_id` column of the table may hide the virtual one, known to the
schema or added after it was read.

### SourceContracts

Python objects are entries of `heap`; a container holds references, so the
mapping a caller passes may share objects or contain itself. `Construct` is
`ResourceLimits` and the freezing of the mapping: it refuses, or copies.
`frozen` is what the data source keeps, `handed` the last copy that a driver
call or a query got (`thaw_options`, `QuerySpec`). Caller and driver go on
changing the containers they can reach, at any time. Options are sorted and must
not use a key that the connector manages; query parameters keep their order and
must not reach a datetime with a time zone; the keys of both are non-empty strings. `Group` applies both groupings to
what was discovered, under the limits that were accepted. Two values are compared
`Depth` references deep, which is as far as one can look into a cyclic one.

### UnsafeFragment, PredicatePushdown

A filter, its IR and its SQL are trees. `Compile` is `compile_filter`,
`BuildSelect` the clauses and parameters of `build_select` in the three
parameter styles (positional `%s`, inline Flight literals, named ClickHouse
parameters), `Execute` the driver that puts the parameters back. The result is
compared, row by row and in three-valued logic, with the meaning of the filter
in Daft. `MaxHeight` bounds how deep a filter is nested; a compiled one is one
higher, because BETWEEN becomes a conjunction.

A trusted fragment is a sequence of token classes (quote, backtick, backslash,
colon, percent, name, placeholder, other). `UnsafeFragment` has the scanners of
both dialects, the rewriting of markers to the driver's style, the doubling of
percent signs, and Python's `%` formatting as the driver applies it. The
reference the result is compared with is the fragment with values put in place
of the markers that stand outside of quotes.

### ClickHouseTypes, DorisTypes, SchemaPlan

A ClickHouse declaration is a sequence of tokens. `ClickHouseTypes` follows
`split_type_arguments`, which keeps track of brackets, quotes and escapes, and
the recursion of the parser, its validation and the rewriting to the type the
column is transported as. A Doris declaration is a base and its arguments.
`SchemaPlan` goes on from the rows of DESCRIBE to the schema, its probing, the
choice of columns and the projection with its casts. What a
declaration means is given to the model beside its text, as a tree the text was
written from, or as none; the code sees only the text. `SchemaMeaning` writes the
trees down and compares (`TypesUnderstood`). The type tables are
reduced to one type of each group that the code treats alike.

### MetadataQuery

The five synchronous functions of planning share their shape: open, ask, look at
the answers, close in a `finally`. Every call may raise a driver error with any
combination of the signals the translators look at, an error of the connector,
or a `BaseException`. The answer of the planning endpoint is a record: how many
bytes are sent and how many the JSON document has, what follows it, the members
that are looked at (`code`, `data`, `status`, `exception`, `partitions`), each
possibly missing or of another type, and the tablet identifiers, among them
one that is negative, one that is no number, and two that are the same tablet.
`ReadBody` reads up to the limit and one byte more. An HTTP error status is an
`HTTPError`, which is the response itself: `discover_tablets` reads its code and
never closes it, so that the response stays open until the exception is collected
(`httpStatus` tells these answers apart, and `ResourcesReturned` says that they are
the only ones left open). The JSON decoder may give up on any body with an exception
that is no `JSONDecodeError` (`DecoderGivesUp`).

## 3. Runs

| Run | Instance | Distinct states | What it shows |
|---|---|---|---|
| `mysql_reader` | 7 rows, batches of 4 rows or 6 bytes, six results, 0 or 3 bytes added to a batch | 8411 | a failure at any of the driver calls: no drain, first failure kept, fetch size adapts and stays positive, implements `SyncReader` |
| `flight_reader` | 5 rows, batches up to 3 | 164 | a failure at any call: all handles closed, innermost first, implements `SyncReader` |
| `doris_stream` | 4 rows, batches up to 3, 3 cancellations | 4449 | six safety properties, two liveness properties, implements `ReadSession` with its liveness |
| `clickhouse_stream` | 4 rows, batches up to 3, 3 cancellations | 1135 | client closed, and the stream left first; the reading ends; safety part of `ReadSession` |
| `batch_slicing` | up to 6 rows of 1, 3 or 9 bytes plus a bitmap, 5 rows or 8 bytes a slice | 54905 | limits, maximality, coverage, termination |
| `source_contracts` | every graph of 3 objects, 2 changes, 2 copies; up to 5 items with weights 0, 2, 3; limits 0 to 4 against a maximum of 3 | 557977 | exactly the sound inputs are accepted, snapshots and copies are independent, both groupings are ordered partitions within budget and the greedy one is within the 4/3 bound of an optimal split |
| `scan_planning` | 3 rows, 2 of them selected, 3 parts, limits 0 to 2, at most 3 tasks, one write | 1797738 | exactly once, limits, counts, nothing read outside of the plan, deliberate fallback |
| `metadata_query` | a body limit of 2 | 1272806 | resources returned but for the response of an HTTP error status, fatal failures stay fatal, every failure visible, a plan only from a sound answer of at most the limit |
| `predicate_pushdown` | some 4400 filters up to depth three over {NULL, 0, 1, 2}; every short fragment in three styles with a few filters | 873008 | the statement selects exactly what the filter accepts, the fragment arrives as it was written |
| `schema_plan` | every sequence of up to 5 tokens, also after `Tuple`, every small type tree, results of DESCRIBE with up to two columns | 46244 | types are understood as written, an accepted schema renders, Doris values fit their Arrow types |

Why the bounds are enough. In the streams the control depends on rows only
through "a batch is empty, has one slice or has more", "there is another batch"
and "this was the last": four rows in batches of up to three reach all of them,
and three cancellations cover one during the call, one during the close and one
more. `mysql_reader` uses results in which a batch fits, is too
large only by what Arrow adds, must shrink, or is a single oversized row. `scan_planning` needs two groups, a row that a filter
rejects, a row that is inserted or deleted meanwhile, and a limit below and above what is there.
`source_contracts` needs a cycle, an object shared by two containers, and a
change after each of construction and copy; three objects hold all of that. Five
tokens are enough for a fragment or type to open a quote, escape its end, close
it, and go on; deeper nesting comes from the trees. The body limit of two is
met exactly, missed by one and exceeded by one. Most of the safety properties are in
addition proved for all values (section 4); for them the bounds do not matter.
Deadlock is not checked where a read or scan is over and really stops: that is every
run.

Every bound that limits the environment is a constant: `MaxCancels` (cancel
requests), `MaxWrites` (writes during a scan), `MaxChanges` (changes by caller
and drivers), `MaxCalls` (copies handed out), `MaxObjects`, `MaxItems`,
`MaxTokens`, `MaxRows`, `MaxHeight` (nesting of a filter), `Depth` (how far values
are compared). `MaxTasks` and `MaxBody` are limits of the code.

### Fairness

`DorisStream` assumes weak fairness of the worker and of what the event loop
does by itself: blocking driver calls end, because both drivers are given
connect, read and query timeouts, and a running loop runs callbacks that are
ready. The consumer is given none: it may stop asking, never close, never
cancel. Liveness is therefore stated from the moment it has closed, dropped,
cancelled or exhausted the read. `ClickHouseStream` assumes weak fairness of the
loop for the same reason. `BatchSlicing` assumes that a running generator goes on.

### Where code and documentation differ

Two runs state what a document says and expect TLC to refute it.

* `clickhouse_cancellation_kept`: `docs/errors.md` says `CancelledError` and
  `GeneratorExit` are never converted; an exception out of the stream's exit
  takes their place and becomes a connector error.
* `planning_failures_reported`: `docs/errors.md` gives failures of the planning
  endpoint as `DiscoveryError`; an `http.client.HTTPException` is caught by no
  clause of `discover_tablets` and reaches the caller as it is, without the
  fallback the policy asks for. The `RecursionError` or `ValueError` that
  `json.loads` may raise takes the same way.

The models also follow the code, and not the words about it, in four places that
need no run of their own.

* The docstring of the ClickHouse `stream_query` says it closes stream and client
  on every exit path; `ClientClosed` is as much as holds: a cancellation that
  arrives during the unshielded close of the client interrupts that close. It is
  also the reason why `ClickHouseStream` implements the safety part of
  `ReadSession` only.
* `docs/errors.md` gives invalid secret references as `ConfigurationError`;
  schema discovery resolves the secret inside its `try` and raises `SchemaError`.
* Percent signs are doubled in trusted fragments; those in a quoted identifier are
  not, so a column with one in its name cannot be read with a driver that formats
  the statement. `FragmentFaithful` is stated for the other columns.
* `validate_query_parameter_values` looks for datetimes with a time zone in the
  values of mappings, not in their keys; keys are plain in `SourceContracts`.

## 4. Proofs

All for every value of the constants. The assumptions are those of the modules:
row counts, limits and bounds are naturals, batch limits and numbers of tasks are
positive (which `ResourceLimits` validates), the bytes of a slice or of the values of
a result grow with its rows, what Arrow adds to a batch is a natural, a table has finitely many rows and tablets or partitions, the
objects of a caller refer to objects only, and a filter has the arguments that Daft's
visitor passes on.

**MySqlReaderProofs** proves `TypeOK`, `NeverDrains`, `FirstFailureRaised`,
`FetchSizeAdapts` and that the reader implements `SyncReader`. None of them is
inductive by itself.
`IInv` adds which handles exist at which step (`HandleInv`), that the steps
which close the cursor are reached only with an inactive result or a detached
cursor (`DrainInv`), and that the recorded failure is the head of the history
(`FailureInv`). Type correctness contains the one numerical fact that matters:
the adapted fetch size is never zero, since `fetchmany(0)` would look like the
end of the result. `FetchSizeAdapts` speaks of the values of a batch, not of its
`nbytes`: a batch after the first may exceed `batch_bytes`, but by no more than what
Arrow adds to it, whatever that is. It rests on a second invariant, `AdaptInv`: with
rows of equal size, once a batch was fetched the fetch size is one or the values of so
many rows fit; what was added to the batch it was computed from only makes it smaller
(`FittingFits`). That the values of n rows of equal size have n times the bytes of one is an induction,
written as the choice of a smallest counterexample (`LeastNumber`).

**FlightReaderProofs** proves `TypeOK`, `NothingLeftOpen`, `InnermostFirst` and
the refinement of `SyncReader`, from which handles may be open at each step.

**DorisStreamProofs** proves `TypeOK`, `NoLeak`, `CloseIsLast`, `CallsInOrder`,
`RowsInOrder`, `CompleteAtEnd`, `FailureReported` and `DemandDriven`. The core of
its inductive invariant is `ThreadInv`: for each suspension of the coroutine, the
exact contents of the queue, what runs, and the phase of the reader. While a call
is awaited the queue holds that call or the worker runs it; once the close is
submitted the queue is the close, alone or behind one dead call, or the worker
still runs the call that was given up with the close behind it, or runs the
close, or has ended it. That the connection can still come into being in that
third case is why `NoLeak` needs the whole of it. `DataInv` ties `served`, the
batch being sliced and the rows delivered together; `FailInv` ties `failure`,
the future of the last call and the outcome. The invariant is preserved action
by action, in one lemma for each part and each of the three parties. From it
follows that a Doris read implements the safety part of `ReadSession`: the worker
acquires and releases the resource, also when the coroutine is gone, and the
coroutine ends otherwise than cancelled only after the release.

**ClickHouseStreamProofs** proves `TypeOK`, `ClientClosed` (which contains that
the stream is left before the client), `RowsInOrder` and the refinement of the safety
part of `ReadSession`. `HandleInv` says which of client and stream exist at each
await, `DataInv` where batch and consumer stand, `EndInv` that a generator unwinds
without a failure only at the end of the result. The facts about one yield that both
streams need are in `SharedLemmas`.

The same module proves `SlicingTypeOK`, `WithinLimits`, `AsLargeAsAllowed` and
`CoversBatch` of `BatchSlicing`. `SearchInv` is the invariant of the bisection: `size`
fits and `low` is one above it, or both are still one; one row more than `high` does
not fit, or `high` is still the upper end, which does not fit either. With the
assumption that bytes grow with rows, this is maximality once the interval is empty.

**SharedLemmas** proves what both groupings return: groups that are not
empty, that partition what was given, and that are no more than was asked for and
allowed (`AdjacentGroupsPartition`, `WeightedGroupsPartition`); the adjacent ones
are in ascending order and equally long but for the last (`AdjacentGroupsOrdered`).
`PlacesAreTaken` is why `Sorted` sorts: counting what stands before an element is an
injection into as many places as there are elements, hence a bijection. The runs of
`group_adjacent_ids` then are arithmetic (`RoundedUp`, `RunsCoverPlaces`). For
`group_weighted_items`, `PlacingExists` shows that the loop defines a function and
`BucketsPartition` that after k items the buckets hold the first k, each once; both
are inductions by a smallest counterexample.

**ScanPlanningProofs** proves from this all properties of `ScanPlanning`: `TypeOK`,
`ExactlyOnce`, `LimitMet`, `CountExact`, `ReadsOnlyPlanned` and
`FallbackIsDeliberate`. They are
statements about the end of a scan, and what makes them true is spread over its
steps. `IInv` says what each step may rely on (`PhaseInv`); that groups and tasks
stay within the plan, and are not restricted where the virtual column is hidden
(`PlanInv`); that no two of them overlap (`DisjointInv`); that a row Daft has is,
unless it was deleted since, where some finished task read, which with
disjointness is why no later task can deliver it again (`GotInv`); that each row
that was left alone is in a group or in a task with the limit of the query
(`CoverInv`); and that a finished task has delivered its rows, unless the limit is
met already (`DoneInv`). `Write` is why `GotInv` is stated for rows that are still
present. A row of the model is written to at most once during a scan (one that is
deleted and inserted again is another row), so one that was read can only disappear.
TLC checked the parts of this invariant on the instance of `scan_planning`, also with
two writes, before they were proved.

**SourceContractsProofs** proves `SnapshotsIndependent`, `AcceptedExactly` and
`GroupsPartition`, for every heap of a caller in which references lead to objects
(`ContractsAssumption`), with any sharing and any cycles.

* A snapshot stays because the heap falls into two parts (`SnapshotInv`): the objects
  that the snapshot owns, and the rest; neither refers to the other, and the caller,
  the drivers and the copies they were handed start in the rest. A change can then
  only reach the rest. That construction and every copy establish this is a fact
  about pickle: its copy consists of new objects and looks like the original, and
  objects that look alike have the same value at every depth.
* A mapping is accepted exactly if what it reaches is in order. The code decides this
  with a recursive descent that fails on a container it is inside of, and a search
  that passes over containers it has seen; the property speaks of what can be reached
  and of cycles. Both programs are shown to have one result (the descent by the number
  of containers it has not entered, the search by the values left and the containers
  not yet seen) and this result to be that of the property. `AcceptInv` adds that
  nothing was handed out, and so nothing changed, before construction.
* `GroupInv`: groups are made only under limits that were checked, and the theorems
  of `SharedLemmas` apply.

**QueryProofs** has three parts.

*Metadata queries*: `TypeOK`, `ResourcesReturned`, `FatalStaysFatal`,
`FailureVisible` and `PlanExact`, for every body limit and every answer. `IInv`
adds which resource is open at which step (`HandleInv`), how many of its queries
a function has asked (`CountInv`), that nothing has failed before the closing
starts and what becomes of what did (`FailureInv`), and that an answer got through
the checks exactly if it was sound, unless an interrupt came or the decoder gave up
(`AnswerInv`): a check
that was passed cannot be seen in the outcome alone.

*Doris schemas*: `DorisValuesFit`, from the rule that a declaration without
parentheses has no arguments (`DeclarationsAssumption`), case by case over the types
that are accepted.

*Filters*: `PushdownExact`, for filters of every height, three parameter styles, any
table and any split. The argument has three layers.

1. What is compiled means the same (`CompiledMeansTheSame`), by induction on the
   height: for each visitor method, SQL's three-valued value of the predicate is that
   of Daft's expression, unknown included. This is where the refusals of the compiler
   matter: without them IN over a list with a NULL, or a comparison with NULL, would
   differ.
2. What the renderer wrote, the driver reads back (`RenderRestored`): binding the
   text of a predicate behind any number of other parameters gives the predicate
   again, and uses exactly its own parameters. By induction on the height, and in each
   node over the operands from left to right, with the count of parameters carried
   along. For `%s` it needs that the parameters of the statement have those of the
   predicate at the places the renderer counted to; for named parameters, that every
   name has one value.
3. The clauses do not disturb each other: the parameters are those of the fragment,
   the predicate and the split, side by side (`ThreeParts`); their names are different
   (a name of the connector's own is refused in a fragment); and scanning and
   formatting the comparison of the fragment puts its own parameter, and no other, in
   the place of its marker.

`PushdownInv` then only says that what is rendered and bound is what was compiled.

Only model-checked, and why:

* liveness and everything under fairness: `CloseCompletes`, `GivenUpEnds`,
  `ReadingEnds`, `Terminates`, and the liveness part of `ReadSession` for
  `DorisStream`; the prover has no rules for fairness;
* `WellBalanced`: that the greedy balance is within 4/3 of the best is a theorem of
  its own about optimal schedules;
* `FragmentFaithful`: every fragment through the scanners of both dialects against a
  reference that finds literals in another way; what is proved of them is what the
  fragment of `PushdownExact` needs;
* `TypesUnderstood` and `AcceptedSchemaRenders`: both are about parsing again what was
  put together from parts (the tree a declaration was written from; the type a column
  is transported as), with a parser that splits and strips sequences of any length.

The type invariants, `NothingLeftOpen` of the Flight reader and
`RowsInOrder` of the ClickHouse stream are only proved: no run repeats them.

## 5. Not modelled

* Values and their Arrow conversion: a batch is positions and bytes, a
  conversion may fail. How a value is written as a literal is left to its class
  (accepted by the style or not).
* Escaped and doubled backticks in the field names of ClickHouse tuples, letter
  case and white space inside of Doris declarations, and the complete tables of
  types and error codes, which are data.
* What others do to a table beyond inserting and deleting rows: rows do not move
  between tablets or partitions, and no column is added or changed after discovery, so
  neither between planning and a task nor between two tasks.
* The switch of clickhouse-connect to binding by the server for a statement that
  matches its own `{name:Type}` placeholders: parameters are formatted by the client.
* Messages and their redaction: wording.
* The public facades, which pass their arguments on, the release and service
  scripts and the benchmarks, which are tools around the package.
* What a driver has allocated when its connect is cancelled or fails: it has not
  handed anything to this code yet.
* A second `read` of the same task object: Daft reads a task once.

## 6. Plan

1. Core: readers, task thread, streams, their abstract specifications, slicing,
   grouping, scan planning, pushdown, metadata queries (done).
2. Trusted fragments in both dialects, composed with the pushdown (done).
3. Type parsers, and from the rows of DESCRIBE to the projection (done).
4. The query-plan answer, its size limit, and the snapshots of options and
   parameters (done).
5. Proofs: `FetchSizeAdapts` of the MySQL reader, the groupings, all properties of
   `ScanPlanning` and of `MetadataQuery` (done).
6. Proofs: `SourceContracts`, the schemas of Doris, and that a pushed filter selects
   what Daft's filter selects, through compiler, renderer and driver (done).
7. Left: `FragmentFaithful` for fragments of every length, the ClickHouse type parser,
   and that the loads of the greedy balance differ by at most the heaviest item.
