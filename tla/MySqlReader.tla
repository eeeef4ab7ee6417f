----------------------------- MODULE MySqlReader -----------------------------
(***************************************************************************)
(* MySqlBatchReader (doris/transports/mysql.py) and the SSCursorLifecycle  *)
(* it closes through (doris/transports/_pymysql.py): every call into       *)
(* PyMySQL is a step of its own, and every one of them may raise.          *)
(*                                                                         *)
(* The reader is driven by one thread, so the calls do not interleave; the *)
(* environment chooses which call comes next (DorisStream models who does  *)
(* the choosing).  A PyMySQL result is `active` while rows of it, or its   *)
(* end-of-result packet, are still on the wire: closing an attached cursor *)
(* with an active result reads all of them.                                *)
(***************************************************************************)
EXTENDS Integers, Sequences

CONSTANTS Rows,        \* rows of the result
          BatchRows,   \* ResourceLimits.batch_rows
          BatchBytes,  \* ResourceLimits.batch_bytes
          Results,     \* the results considered: bytes of their first n rows' values
          Extras       \* what Arrow may hold for a batch beside its rows' values

ASSUME MySqlAssumption ==
    /\ Rows \in Nat
    /\ BatchRows \in Nat \ {0}
    /\ BatchBytes \in Nat \ {0}
    /\ Results \subseteq [0..Rows -> Nat]
    /\ \A f \in Results : \A m, n \in 0..Rows : m <= n => f[m] <= f[n]
    /\ Extras \subseteq Nat

VARIABLES pc,           \* the next step of the call that is running
          conn,         \* self._connection: "none", "open", "released"
          cursor,       \* self._cursor: "none", "open", "closed"
          attached,     \* cursor.connection still refers to the connection
          validCursor,  \* lifecycle._validated_cursor
          validResult,  \* lifecycle._validated_result
          active,       \* result.unbuffered_active of the PyMySQL result
          failure,      \* the failure close will raise: the step it came from
          drained,      \* history: a close entered PyMySQL's unread-row drain
          failures,     \* history: the close steps that raised, in order
          served, fetchRows, lastBatch, bytes, ret

resourceVars == <<conn, cursor, attached, validCursor, validResult, active>>
dataVars == <<served, fetchRows, lastBatch>>
closeVars == <<failure, drained, failures>>
vars == <<pc, resourceVars, dataVars, closeVars, bytes, ret>>

OpenSteps == {"connect", "cursor", "validate_cursor", "execute",
              "validate_result", "describe"}
CloseSteps == {"read_active", "cursor_first", "connection_last",
               "connection_first", "deactivate", "detach", "cursor_last",
               "connection_only", "raise"}
\* "raise" is the end of close: it returns, or raises the recorded failure
Resting == {"created", "ready", "eof", "broken", "closed"}

TypeOK ==
    /\ pc \in OpenSteps \cup CloseSteps \cup Resting \cup {"fetch"}
    /\ conn \in {"none", "open", "released"}
    /\ cursor \in {"none", "open", "closed"}
    /\ attached \in BOOLEAN /\ active \in BOOLEAN /\ drained \in BOOLEAN
    /\ validCursor \in BOOLEAN /\ validResult \in BOOLEAN
    /\ failure \in CloseSteps \cup {"none"}
    /\ failures \in Seq(CloseSteps)
    /\ served \in 0..Rows
    /\ fetchRows \in 1..BatchRows
    /\ lastBatch \in 0..BatchRows
    /\ bytes \in Results
    /\ ret \in {"none", "ok", "rows", "end", "error"}

Init ==
    /\ pc = "created"
    /\ conn = "none"
    /\ cursor = "none"
    /\ attached = FALSE
    /\ validCursor = FALSE
    /\ validResult = FALSE
    /\ active = FALSE
    /\ failure = "none"
    /\ drained = FALSE
    /\ failures = << >>
    /\ served = 0
    /\ fetchRows = BatchRows
    /\ lastBatch = 0
    /\ bytes \in Results
    /\ ret = "none"

-----------------------------------------------------------------------------
(* _open *)

Raise ==
    /\ pc' = "broken"
    /\ ret' = "error"

StartOpen ==
    /\ pc = "created"
    /\ pc' = "connect"
    /\ UNCHANGED <<resourceVars, dataVars, closeVars, bytes, ret>>

\* self._connection = factory(**kwargs)
Connect ==
    /\ pc = "connect"
    /\ \/ /\ conn' = "open"
          /\ pc' = "cursor"
          /\ UNCHANGED ret
       \/ Raise /\ UNCHANGED conn
    /\ UNCHANGED <<cursor, attached, validCursor, validResult, active,
                   dataVars, closeVars, bytes>>

\* self._cursor = self._connection.cursor(), and the lifecycle that owns both
OpenCursor ==
    /\ pc = "cursor"
    /\ \/ /\ cursor' = "open"
          /\ attached' = TRUE
          /\ pc' = "validate_cursor"
          /\ UNCHANGED ret
       \/ Raise /\ UNCHANGED <<cursor, attached>>
    /\ UNCHANGED <<conn, validCursor, validResult, active,
                   dataVars, closeVars, bytes>>

\* A PyMySQL whose private attributes have another shape raises here.
ValidateCursor ==
    /\ pc = "validate_cursor"
    /\ \/ validCursor' = TRUE /\ pc' = "execute" /\ UNCHANGED ret
       \/ Raise /\ UNCHANGED validCursor
    /\ UNCHANGED <<conn, cursor, attached, validResult, active,
                   dataVars, closeVars, bytes>>

\* A statement with a result set leaves an active unbuffered result, one
\* without leaves an inactive result; a failing execute may have left either.
Execute ==
    /\ pc = "execute"
    /\ active' \in BOOLEAN
    /\ \/ pc' = "validate_result" /\ UNCHANGED ret
       \/ Raise
    /\ UNCHANGED <<conn, cursor, attached, validCursor, validResult,
                   dataVars, closeVars, bytes>>

ValidateResult ==
    /\ pc = "validate_result"
    /\ \/ validResult' = TRUE /\ pc' = "describe" /\ UNCHANGED ret
       \/ Raise /\ UNCHANGED validResult
    /\ UNCHANGED <<conn, cursor, attached, validCursor, active,
                   dataVars, closeVars, bytes>>

\* A statement without a result set has no description: TransportError.
Describe ==
    /\ pc = "describe"
    /\ IF active THEN pc' = "ready" /\ ret' = "ok" ELSE Raise
    /\ UNCHANGED <<resourceVars, dataVars, closeVars, bytes>>

-----------------------------------------------------------------------------
(* _fetch *)

\* Bytes of the values of rows from+1..upto: what grows with the rows, the
\* offset of every text included
ValueBytes(from, upto) == bytes[upto] - bytes[from]

\* batch.nbytes is not additive: a batch also holds the first offset of each
\* text column, and bitmaps rounded up to whole bytes.
NBytes(from, upto, extra) == ValueBytes(from, upto) + extra

\* Mutant: without max(1, ...)
NextFetchRowsNoFloor(n, b) ==
    IF b <= BatchBytes \/ (n * BatchBytes) \div b >= fetchRows THEN fetchRows
    ELSE (n * BatchBytes) \div b

\* Mutant: halves the size
NextFetchRowsHalved(n, b) ==
    IF b <= BatchBytes \/ fetchRows = 1 THEN fetchRows ELSE fetchRows \div 2

\* The next fetchmany size after a batch of n rows and b bytes
NextFetchRows(n, b) ==
    LET fitting == (n * BatchBytes) \div b
        nextRows == IF fitting > 1 THEN fitting ELSE 1
    IN  IF b <= BatchBytes THEN fetchRows
        ELSE IF nextRows < fetchRows THEN nextRows ELSE fetchRows

\* PyMySQL's SSCursor.fetchmany(k): k rows, or what is left; the packet that
\* ends the result is only read when a row is asked for that is not there.
FetchedRows(k) == IF k < Rows - served THEN k ELSE Rows - served

StartFetch ==
    /\ pc = "ready"
    /\ pc' = "fetch"
    /\ UNCHANGED <<resourceVars, dataVars, closeVars, bytes, ret>>

FetchBatch ==
    /\ pc = "fetch"
    /\ LET n == FetchedRows(fetchRows)
       IN  /\ n > 0
           /\ served' = served + n
           /\ lastBatch' = n
           /\ active' = (fetchRows <= Rows - served)
           /\ \E extra \in Extras :
                 fetchRows' = NextFetchRows(n, NBytes(served, served + n, extra))
    /\ pc' = "ready"
    /\ ret' = "rows"
    /\ UNCHANGED <<conn, cursor, attached, validCursor, validResult,
                   closeVars, bytes>>

FetchEnd ==
    /\ pc = "fetch"
    /\ FetchedRows(fetchRows) = 0
    /\ active' = FALSE
    /\ pc' = "eof"
    /\ ret' = "end"
    /\ UNCHANGED <<conn, cursor, attached, validCursor, validResult,
                   dataVars, closeVars, bytes>>

\* The network, an error packet of the server, or the Arrow conversion: only
\* some of them end the unbuffered result.
FetchRaises ==
    /\ pc = "fetch"
    /\ active' \in {active, FALSE}
    /\ Raise
    /\ UNCHANGED <<conn, cursor, attached, validCursor, validResult,
                   dataVars, closeVars, bytes>>

-----------------------------------------------------------------------------
(* _close, and SSCursorLifecycle.close behind it *)

\* The lifecycle exists exactly when the cursor does.
StartClose ==
    /\ pc \in Resting \ {"closed"}
    /\ pc' = CASE cursor = "open" -> IF validResult THEN "read_active"
                                     ELSE "connection_first"
               [] cursor # "open" /\ conn = "open" -> "connection_only"
               [] OTHER -> "raise"
    /\ UNCHANGED <<resourceVars, dataVars, closeVars, bytes, ret>>

\* Mutant: the last failure wins
RecordLastFailure(step) == step

\* The failure kept after `step` raised: the first one.
RecordFailure(step) == IF failure = "none" THEN step ELSE failure

StepRaises(step) ==
    /\ failure' = RecordFailure(step)
    /\ failures' = Append(failures, step)

\* A close step either works or raises, and the close goes on either way.
Attempt(step) == UNCHANGED <<failure, failures>> \/ StepRaises(step)

\* Mutant: an unreadable flag counts as inactive
ReadActiveTrusting ==
    /\ pc = "read_active"
    /\ \/ /\ pc' = IF active THEN "connection_first" ELSE "cursor_first"
          /\ UNCHANGED <<failure, failures>>
       \/ /\ pc' = "cursor_first"
          /\ StepRaises("read_active")
    /\ UNCHANGED <<resourceVars, dataVars, drained, bytes, ret>>

\* Only a readable, boolean, false flag lets the cursor be closed first.
ReadActive ==
    /\ pc = "read_active"
    /\ \/ /\ pc' = IF active THEN "connection_first" ELSE "cursor_first"
          /\ UNCHANGED <<failure, failures>>
       \/ /\ pc' = "connection_first"
          /\ StepRaises("read_active")
    /\ UNCHANGED <<resourceVars, dataVars, drained, bytes, ret>>

\* PyMySQL's SSCursor.close(): an attached cursor first finishes its result.
CloseCursor(step) ==
    /\ cursor' = "closed"
    /\ attached' = FALSE
    /\ drained' = (drained \/ (attached /\ active))
    /\ active' = (active /\ ~attached)
    /\ Attempt(step)

CursorFirst ==
    /\ pc = "cursor_first"
    /\ CloseCursor("cursor_first")
    /\ pc' = "connection_last"
    /\ UNCHANGED <<conn, validCursor, validResult, dataVars, bytes, ret>>

ConnectionLast ==
    /\ pc = "connection_last"
    /\ conn' = "released"
    /\ Attempt("connection_last")
    /\ pc' = "raise"
    /\ UNCHANGED <<cursor, attached, validCursor, validResult, active,
                   dataVars, drained, bytes, ret>>

ConnectionFirst ==
    /\ pc = "connection_first"
    /\ conn' = "released"
    /\ Attempt("connection_first")
    /\ pc' = CASE validResult -> "deactivate"
               [] ~validResult /\ validCursor -> "detach"
               [] OTHER -> "raise"
    /\ UNCHANGED <<cursor, attached, validCursor, validResult, active,
                   dataVars, drained, bytes, ret>>

\* result.unbuffered_active = False; result.connection = None
Deactivate ==
    /\ pc = "deactivate"
    /\ \/ /\ active' = FALSE
          /\ UNCHANGED <<failure, failures>>
       \/ /\ active' \in {active, FALSE}    \* either assignment may raise
          /\ StepRaises("deactivate")
    /\ pc' = IF validCursor THEN "detach" ELSE "raise"
    /\ UNCHANGED <<conn, cursor, attached, validCursor, validResult,
                   dataVars, drained, bytes, ret>>

\* cursor.connection = None; a cursor that stays attached is not closed.
Detach ==
    /\ pc = "detach"
    /\ \/ /\ attached' = FALSE
          /\ pc' = "cursor_last"
          /\ UNCHANGED <<failure, failures>>
       \/ /\ StepRaises("detach")
          /\ pc' = "raise"
          /\ UNCHANGED attached
    /\ UNCHANGED <<conn, cursor, validCursor, validResult, active,
                   dataVars, drained, bytes, ret>>

CursorLast ==
    /\ pc = "cursor_last"
    /\ CloseCursor("cursor_last")
    /\ pc' = "raise"
    /\ UNCHANGED <<conn, validCursor, validResult, dataVars, bytes, ret>>

\* _open failed between the connection and its cursor
ConnectionOnly ==
    /\ pc = "connection_only"
    /\ conn' = "released"
    /\ Attempt("connection_only")
    /\ pc' = "raise"
    /\ UNCHANGED <<cursor, attached, validCursor, validResult, active,
                   dataVars, drained, bytes, ret>>

FinishClose ==
    /\ pc = "raise"
    /\ pc' = "closed"
    /\ ret' = IF failure = "none" THEN "ok" ELSE "error"
    /\ UNCHANGED <<resourceVars, dataVars, closeVars, bytes>>

Next ==
    \/ StartOpen \/ Connect \/ OpenCursor \/ ValidateCursor
    \/ Execute \/ ValidateResult \/ Describe
    \/ StartFetch \/ FetchBatch \/ FetchEnd \/ FetchRaises
    \/ StartClose \/ ReadActive \/ CursorFirst \/ ConnectionLast
    \/ ConnectionFirst \/ Deactivate \/ Detach \/ CursorLast
    \/ ConnectionOnly \/ FinishClose

Spec == Init /\ [][Next]_vars

-----------------------------------------------------------------------------
(* Properties *)

(* Giving a query up never reads the rest of its result: no cursor is closed
   while it is attached to its connection and its result is active, whichever
   step of _open, _fetch or of the close itself has failed before. *)
NeverDrains == ~drained

(* SSCursorLifecycle.close goes through all of its steps and raises the first
   failure it met, however many followed. *)
FirstFailureRaised ==
    pc = "closed" =>
        failure = IF failures = << >> THEN "none" ELSE Head(failures)

(* fetchmany adapts after one oversized batch, although the size of that batch
   only estimates the size of the next: with rows of equal size the values of
   every batch but the first fit batch_bytes, or it is a single row.  The batch
   as Arrow holds it may still exceed batch_bytes, by its extra bytes at most. *)
FetchSizeAdapts ==
    (\A i \in 1..Rows : ValueBytes(i - 1, i) = ValueBytes(0, 1))
            /\ served > lastBatch
        => \/ ValueBytes(served - lastBatch, served) <= BatchBytes
           \/ lastBatch = 1

-----------------------------------------------------------------------------
(* The reader keeps the promise of SyncReader *)

Phase ==
    CASE pc \in OpenSteps -> "opening"
      [] pc = "fetch" -> "fetching"
      [] pc \in CloseSteps -> "closing"
      [] OTHER -> pc

Reader == INSTANCE SyncReader WITH MaxBatch <- BatchRows, phase <- Phase

(* MySqlBatchReader implements the reader the task thread relies on: the
   connection is opened inside _open only and released inside _close only,
   _close never ends with the connection still open, batches are consecutive
   rows of the result, and the end is reported only after the last row. *)
ImplementsSyncReader == Reader!ReaderSpec
=============================================================================
