----------------------------- MODULE SyncReader -----------------------------
(***************************************************************************)
(* What a synchronous Doris batch reader promises to the task thread that  *)
(* drives it: the _open, _fetch and _close methods MySqlBatchReader and    *)
(* FlightBatchReader have in common.  A call runs from its Start action to *)
(* its Finish action; the network connection is acquired inside _open and  *)
(* given back inside _close, and in no other call.                         *)
(*                                                                         *)
(* MySqlReader and FlightReader implement this specification; DorisStream  *)
(* drives it from the event loop.                                          *)
(***************************************************************************)
EXTENDS Integers

CONSTANTS Rows,       \* number of rows the server has for this query
          MaxBatch    \* most rows one _fetch returns

ASSUME RowsAssumption == Rows \in Nat
ASSUME MaxBatchAssumption == MaxBatch \in Nat \ {0}

VARIABLES phase,      \* where the reader is in its life
          conn,       \* the network connection
          served,     \* rows handed out by _fetch so far
          ret         \* what the last finished call returned

readerVars == <<phase, conn, served, ret>>

Phases == {"created", "opening", "ready", "fetching", "eof", "broken",
           "closing", "closed"}

ConnStates == {"none", "open", "released"}

Returns == {"none", "ok", "rows", "end", "error"}

ReaderTypeOK ==
    /\ phase \in Phases
    /\ conn \in ConnStates
    /\ served \in 0..Rows
    /\ ret \in Returns

ReaderInit ==
    /\ phase = "created"
    /\ conn = "none"
    /\ served = 0
    /\ ret = "none"

-----------------------------------------------------------------------------
(* _open *)

StartOpen ==
    /\ phase = "created"
    /\ phase' = "opening"
    /\ UNCHANGED <<conn, served, ret>>

\* The driver's connect returned: from here on there is something to release.
Connect ==
    /\ phase = "opening"
    /\ conn = "none"
    /\ conn' = "open"
    /\ UNCHANGED <<phase, served, ret>>

FinishOpen ==
    /\ phase = "opening"
    /\ \/ /\ conn = "open"
          /\ phase' = "ready"
          /\ ret' = "ok"
       \/ /\ phase' = "broken"        \* any step of _open raised
          /\ ret' = "error"
    /\ UNCHANGED <<conn, served>>

(* _fetch *)

StartFetch ==
    /\ phase = "ready"
    /\ phase' = "fetching"
    /\ UNCHANGED <<conn, served, ret>>

\* A batch, the end of the result, or an exception.  The rows of a batch are
\* the next ones in the server's order; an Arrow batch may be empty.
FinishFetch ==
    /\ phase = "fetching"
    /\ \/ /\ \E n \in 0..MaxBatch : /\ served + n <= Rows
                                    /\ served' = served + n
          /\ phase' = "ready"
          /\ ret' = "rows"
       \/ /\ served = Rows
          /\ phase' = "eof"
          /\ ret' = "end"
          /\ UNCHANGED served
       \/ /\ phase' = "broken"
          /\ ret' = "error"
          /\ UNCHANGED served
    /\ UNCHANGED conn

(* _close *)

StartClose ==
    /\ phase \in {"created", "ready", "eof", "broken"}
    /\ phase' = "closing"
    /\ UNCHANGED <<conn, served, ret>>

\* close() was called on the connection; the call itself may raise.
Release ==
    /\ phase = "closing"
    /\ conn = "open"
    /\ conn' = "released"
    /\ UNCHANGED <<phase, served, ret>>

FinishClose ==
    /\ phase = "closing"
    /\ conn # "open"
    /\ phase' = "closed"
    /\ ret' \in {"ok", "error"}
    /\ UNCHANGED <<conn, served>>

ReaderNext ==
    \/ StartOpen \/ Connect \/ FinishOpen
    \/ StartFetch \/ FinishFetch
    \/ StartClose \/ Release \/ FinishClose

ReaderSpec == ReaderInit /\ [][ReaderNext]_readerVars
=============================================================================
