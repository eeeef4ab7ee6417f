---------------------------- MODULE FlightReader ----------------------------
(***************************************************************************)
(* FlightBatchReader (doris/transports/flight.py): the Arrow Flight SQL    *)
(* reader over ADBC.  _open acquires a connection, a cursor and a record-  *)
(* batch reader, one after the other; _close gives back whatever of them   *)
(* was acquired, innermost first, each in the `finally` of the one before. *)
(***************************************************************************)
EXTENDS Integers

CONSTANTS Rows, MaxBatch

ASSUME FlightAssumption == Rows \in Nat /\ MaxBatch \in Nat \ {0}

VARIABLES pc,                     \* the next step of the call that is running
          conn, cursor, reader,   \* the three handles
          failed,                 \* a close step has raised
          served, ret

vars == <<pc, conn, cursor, reader, failed, served, ret>>

Handle == {"none", "open", "released"}
OpenSteps == {"check", "connect", "cursor", "execute", "batch_reader"}
CloseSteps == {"close_reader", "close_cursor", "close_connection", "raise"}
Resting == {"created", "ready", "eof", "broken", "closed"}

TypeOK ==
    /\ pc \in OpenSteps \cup CloseSteps \cup Resting \cup {"fetch"}
    /\ conn \in Handle /\ cursor \in Handle /\ reader \in Handle
    /\ failed \in BOOLEAN
    /\ served \in 0..Rows
    /\ ret \in {"none", "ok", "rows", "end", "error"}

Init ==
    /\ pc = "created"
    /\ conn = "none"
    /\ cursor = "none"
    /\ reader = "none"
    /\ failed = FALSE
    /\ served = 0
    /\ ret = "none"

-----------------------------------------------------------------------------
(* _open *)

Raise ==
    /\ pc' = "broken"
    /\ ret' = "error"

StartOpen ==
    /\ pc = "created"
    /\ pc' = "check"
    /\ UNCHANGED <<conn, cursor, reader, failed, served, ret>>

\* Unmaterialised parameters, a missing driver or an unresolvable password
Check ==
    /\ pc = "check"
    /\ (pc' = "connect" /\ UNCHANGED ret) \/ Raise
    /\ UNCHANGED <<conn, cursor, reader, failed, served>>

Connect ==
    /\ pc = "connect"
    /\ \/ conn' = "open" /\ pc' = "cursor" /\ UNCHANGED ret
       \/ Raise /\ UNCHANGED conn
    /\ UNCHANGED <<cursor, reader, failed, served>>

OpenCursor ==
    /\ pc = "cursor"
    /\ \/ cursor' = "open" /\ pc' = "execute" /\ UNCHANGED ret
       \/ Raise /\ UNCHANGED cursor
    /\ UNCHANGED <<conn, reader, failed, served>>

\* arraysize, the one-batch result queue, and execute
Execute ==
    /\ pc = "execute"
    /\ (pc' = "batch_reader" /\ UNCHANGED ret) \/ Raise
    /\ UNCHANGED <<conn, cursor, reader, failed, served>>

FetchRecordBatch ==
    /\ pc = "batch_reader"
    /\ \/ reader' = "open" /\ pc' = "ready" /\ ret' = "ok"
       \/ Raise /\ UNCHANGED reader
    /\ UNCHANGED <<conn, cursor, failed, served>>

-----------------------------------------------------------------------------
(* _fetch: the server chooses the size of a batch *)

StartFetch ==
    /\ pc = "ready"
    /\ pc' = "fetch"
    /\ UNCHANGED <<conn, cursor, reader, failed, served, ret>>

FetchBatch ==
    /\ pc = "fetch"
    /\ \E n \in 0..MaxBatch : served + n <= Rows /\ served' = served + n
    /\ pc' = "ready"
    /\ ret' = "rows"
    /\ UNCHANGED <<conn, cursor, reader, failed>>

FetchEnd ==
    /\ pc = "fetch"
    /\ served = Rows
    /\ pc' = "eof"
    /\ ret' = "end"
    /\ UNCHANGED <<conn, cursor, reader, failed, served>>

\* The network, a value that is no record batch, or a batch that does not cast
FetchRaises ==
    /\ pc = "fetch"
    /\ Raise
    /\ UNCHANGED <<conn, cursor, reader, failed, served>>

-----------------------------------------------------------------------------
(* _close *)

\* Mutant: the connection is closed first
StartCloseOutermost ==
    /\ pc \in Resting \ {"closed"}
    /\ pc' = "close_connection"
    /\ UNCHANGED <<conn, cursor, reader, failed, served, ret>>

StartClose ==
    /\ pc \in Resting \ {"closed"}
    /\ pc' = "close_reader"
    /\ UNCHANGED <<conn, cursor, reader, failed, served, ret>>

\* What close() leaves of a handle, and whether the call may raise
Released(handle) == IF handle = "open" THEN "released" ELSE handle

CloseRaises(handle) ==
    failed' \in {failed} \cup {handle = "open" \/ failed}

\* Mutant: no `finally` around the close of the reader
CloseReaderOnly ==
    /\ pc = "close_reader"
    /\ reader' = Released(reader)
    /\ CloseRaises(reader)
    /\ pc' = IF failed' THEN "raise" ELSE "close_cursor"
    /\ UNCHANGED <<conn, cursor, served, ret>>

CloseReader ==
    /\ pc = "close_reader"
    /\ reader' = Released(reader)
    /\ CloseRaises(reader)
    /\ pc' = "close_cursor"
    /\ UNCHANGED <<conn, cursor, served, ret>>

CloseCursor ==
    /\ pc = "close_cursor"
    /\ cursor' = Released(cursor)
    /\ CloseRaises(cursor)
    /\ pc' = "close_connection"
    /\ UNCHANGED <<conn, reader, served, ret>>

CloseConnection ==
    /\ pc = "close_connection"
    /\ conn' = Released(conn)
    /\ CloseRaises(conn)
    /\ pc' = "raise"
    /\ UNCHANGED <<cursor, reader, served, ret>>

FinishClose ==
    /\ pc = "raise"
    /\ pc' = "closed"
    /\ ret' = IF failed THEN "error" ELSE "ok"
    /\ UNCHANGED <<conn, cursor, reader, failed, served>>

Next ==
    \/ StartOpen \/ Check \/ Connect \/ OpenCursor \/ Execute
    \/ FetchRecordBatch
    \/ StartFetch \/ FetchBatch \/ FetchEnd \/ FetchRaises
    \/ StartClose \/ CloseReader \/ CloseCursor \/ CloseConnection
    \/ FinishClose

Spec == Init /\ [][Next]_vars

-----------------------------------------------------------------------------
(* Properties *)

(* Every handle _open acquired, and _open may stop after any of them, has been
   released when _close ends, also when the close of another one raised. *)
NothingLeftOpen == pc = "closed" => "open" \notin {conn, cursor, reader}

(* A handle outlives the ones it was made from: the reader is never open
   without its cursor, nor the cursor without its connection. *)
InnermostFirst ==
    /\ reader = "open" => cursor = "open"
    /\ cursor = "open" => conn = "open"

-----------------------------------------------------------------------------

Phase ==
    CASE pc \in OpenSteps -> "opening"
      [] pc = "fetch" -> "fetching"
      [] pc \in CloseSteps -> "closing"
      [] OTHER -> pc

Reader == INSTANCE SyncReader WITH phase <- Phase

(* FlightBatchReader implements the reader the task thread relies on. *)
ImplementsSyncReader == Reader!ReaderSpec
=============================================================================
