-------------------------- MODULE ClickHouseStream --------------------------
(***************************************************************************)
(* One ClickHouse read: the stream_query coroutine of                      *)
(* clickhouse/transport.py and its consumer in clickhouse/task.py.  All of *)
(* it runs on the event loop; each await of the clickhouse-connect client  *)
(* is a state of its own and may return, raise or be cancelled.            *)
(*                                                                         *)
(* Unlike the Doris transports nothing is shielded: a cancellation reaches *)
(* whatever is awaited, the closing of the stream and of the client too.   *)
(***************************************************************************)
EXTENDS RowDelivery

CONSTANTS Rows,         \* rows of the result
          MaxBatch,     \* most rows of one Arrow batch of the server
          MaxCancels    \* bound: cancel requests of one behaviour

ASSUME ClickHouseAssumption ==
    /\ Rows \in Nat
    /\ MaxBatch \in Nat \ {0}
    /\ MaxCancels \in Nat

VARIABLES co,         \* where the coroutine is suspended
          failure,    \* the local `failure`, and the exception in flight
          outcome,    \* how the generator ended
          cancel, cancels, abandoned,
          served,     \* rows the driver has decoded so far
          client,     \* "none", "open", "closing", "released", "interrupted"
          stream      \* the streaming context: same values

coVars == <<co, failure, outcome, cancel, cancels, abandoned>>
vars == <<coVars, deliveryVars, served, client, stream>>

CoStates == {"new", "connecting", "querying", "fetching", "yielded",
             "exiting", "closing", "done"}
Handle == {"none", "open", "closing", "released", "interrupted"}
Failures == {"none", "error", "cancelled", "exit"}
Outcomes == Failures \cup {"end", "close_error"}
Slices == [from : 0..Rows, upto : 0..Rows]

TypeOK ==
    /\ co \in CoStates
    /\ failure \in Failures
    /\ outcome \in Outcomes
    /\ cancel \in BOOLEAN
    /\ cancels \in 0..MaxCancels
    /\ abandoned \in BOOLEAN
    /\ batch \in Slices
    /\ slices \in Seq(Slices)
    /\ served \in 0..Rows
    /\ client \in Handle
    /\ stream \in Handle

Init ==
    /\ co = "new"
    /\ failure = "none"
    /\ outcome = "none"
    /\ cancel = FALSE
    /\ cancels = 0
    /\ abandoned = FALSE
    /\ DeliveryInit
    /\ served = 0
    /\ client = "none"
    /\ stream = "none"

-----------------------------------------------------------------------------

Start ==
    /\ co = "new"
    /\ co' = "connecting"
    /\ UNCHANGED <<failure, outcome, cancel, cancels, abandoned, deliveryVars,
                   served, client, stream>>

\* aclose() of a generator that was never iterated runs none of its body
CloseUnstarted ==
    /\ co = "new"
    /\ co' = "done"
    /\ outcome' = "exit"
    /\ UNCHANGED <<failure, cancel, cancels, abandoned, deliveryVars, served,
                   client, stream>>

\* client = await get_async_client(...)
ClientReady ==
    /\ co = "connecting"
    /\ ~cancel
    /\ client' = "open"
    /\ co' = "querying"
    /\ UNCHANGED <<failure, outcome, cancel, cancels, abandoned, deliveryVars,
                   served, stream>>

\* An exception before `client` is bound: the finally has nothing to close
ConnectFails(reason) ==
    /\ failure' = reason
    /\ outcome' = reason
    /\ co' = "done"
    /\ UNCHANGED <<client, stream>>

\* `finally: await _close(client)`: close() has been called from here on
Finally(reason) ==
    /\ failure' = reason
    /\ client' = "closing"
    /\ co' = "closing"
    /\ UNCHANGED outcome

\* The async with is left: its __aexit__ is called and awaited
LeaveStream(reason) ==
    /\ failure' = reason
    /\ stream' = "closing"
    /\ co' = "exiting"
    /\ UNCHANGED <<outcome, client>>

\* Mutant: a failing query leaves without the finally
UnwindForgetsClient(reason) ==
    CASE co \in {"connecting", "querying"} -> ConnectFails(reason)
      [] co \in {"fetching", "yielded"} -> LeaveStream(reason)

\* An exception out of the awaited call: it unwinds what has been entered
Unwind(reason) ==
    CASE co = "connecting" -> ConnectFails(reason)
      [] co = "querying" -> Finally(reason) /\ UNCHANGED stream
      [] co \in {"fetching", "yielded"} -> LeaveStream(reason)

\* context = await query_arrow_stream(...); async with context
StreamReady ==
    /\ co = "querying"
    /\ ~cancel
    /\ stream' = "open"
    /\ co' = "fetching"
    /\ UNCHANGED <<failure, outcome, cancel, cancels, abandoned, deliveryVars,
                   served, client>>

\* The driver raises, yields no record batch, or the batch does not cast
CallRaises ==
    /\ co \in {"connecting", "querying", "fetching"}
    /\ ~cancel
    /\ Unwind("error")
    /\ UNCHANGED <<cancel, cancels, abandoned, deliveryVars, served>>

\* Mutant: an empty batch ends the stream
BatchArrivesEmptyEnds ==
    /\ co = "fetching"
    /\ ~cancel
    /\ \E n \in 0..MaxBatch :
          /\ served + n <= Rows
          /\ served' = served + n
          /\ LET b == [from |-> served, upto |-> served + n]
             IN  IF n > 0
                 THEN /\ YieldSlice(b)
                      /\ co' = "yielded"
                      /\ UNCHANGED <<failure, outcome, client, stream>>
                 ELSE LeaveStream("none") /\ UNCHANGED deliveryVars
    /\ UNCHANGED <<cancel, cancels, abandoned>>

\* The next batch: yield its first slice, or go on when it is empty
BatchArrives ==
    /\ co = "fetching"
    /\ ~cancel
    /\ \E n \in 0..MaxBatch :
          /\ served + n <= Rows
          /\ served' = served + n
          /\ LET b == [from |-> served, upto |-> served + n]
             IN  IF n > 0 THEN YieldSlice(b) /\ co' = "yielded"
                 ELSE batch' = b /\ UNCHANGED <<slices, co>>
    /\ UNCHANGED <<failure, outcome, cancel, cancels, abandoned, client, stream>>

ResultEnds ==
    /\ co = "fetching"
    /\ ~cancel
    /\ served = Rows
    /\ LeaveStream("none")
    /\ UNCHANGED <<cancel, cancels, abandoned, deliveryVars, served>>

\* Mutant: the cancellation is swallowed and the wait goes on
CallCancelledSwallowed ==
    /\ co \in {"connecting", "querying", "fetching"}
    /\ cancel
    /\ cancel' = FALSE
    /\ UNCHANGED <<co, failure, outcome, cancels, abandoned, deliveryVars,
                   served, client, stream>>

\* CancelledError out of an awaited call of the query
CallCancelled ==
    /\ co \in {"connecting", "querying", "fetching"}
    /\ cancel
    /\ cancel' = FALSE
    /\ Unwind("cancelled")
    /\ UNCHANGED <<cancels, abandoned, deliveryVars, served>>

NextRequested ==
    /\ co = "yielded"
    /\ ~abandoned
    /\ IF batch.from < batch.upto
       THEN YieldSlice(batch) /\ UNCHANGED co
       ELSE co' = "fetching" /\ UNCHANGED deliveryVars
    /\ UNCHANGED <<failure, outcome, cancel, cancels, abandoned, served, client,
                   stream>>

\* aclose(): GeneratorExit at the yield
CloseRequested ==
    /\ co = "yielded"
    /\ ~abandoned
    /\ Unwind("exit")
    /\ UNCHANGED <<cancel, cancels, abandoned, deliveryVars, served>>

\* The loop's finalizer closes a generator that was dropped; its task may be
\* cancelled before it runs
FinalizerRuns ==
    /\ co = "yielded"
    /\ abandoned
    /\ \E reason \in {"exit", "cancelled"} : Unwind(reason)
    /\ UNCHANGED <<cancel, cancels, abandoned, deliveryVars, served>>

\* __aexit__ of the stream: what it raises takes the place of the exception
\* that was in flight, and the except clauses see only that
StreamExits ==
    /\ co = "exiting"
    /\ ~cancel
    /\ stream' = "released"
    /\ \E reason \in {failure, "error"} : Finally(reason)
    /\ UNCHANGED <<cancel, cancels, abandoned, deliveryVars, served>>

StreamExitCancelled ==
    /\ co = "exiting"
    /\ cancel
    /\ cancel' = FALSE
    /\ stream' = "interrupted"
    /\ Finally("cancelled")
    /\ UNCHANGED <<cancels, abandoned, deliveryVars, served>>

EndOf(raised) ==
    CASE failure # "none" -> failure
      [] failure = "none" /\ raised -> "close_error"
      [] OTHER -> "end"

\* The client's close() returned or raised
CloseReturns ==
    /\ co = "closing"
    /\ ~cancel
    /\ client' = "released"
    /\ co' = "done"
    /\ \E raised \in BOOLEAN : outcome' = EndOf(raised)
    /\ UNCHANGED <<failure, cancel, cancels, abandoned, deliveryVars, served,
                   stream>>

\* CancelledError inside the client's close(): it stops where it is
CloseCancelled ==
    /\ co = "closing"
    /\ cancel
    /\ cancel' = FALSE
    /\ client' = "interrupted"
    /\ co' = "done"
    /\ outcome' = "cancelled"
    /\ UNCHANGED <<failure, cancels, abandoned, deliveryVars, served, stream>>

-----------------------------------------------------------------------------
(* The consumer *)

RequestCancel ==
    /\ co \in {"connecting", "querying", "fetching", "exiting", "closing"}
    /\ ~cancel
    /\ cancels < MaxCancels
    /\ cancel' = TRUE
    /\ cancels' = cancels + 1
    /\ UNCHANGED <<co, failure, outcome, abandoned, deliveryVars, served,
                   client, stream>>

Abandon ==
    /\ co = "yielded"
    /\ ~abandoned
    /\ abandoned' = TRUE
    /\ UNCHANGED <<co, failure, outcome, cancel, cancels, deliveryVars, served,
                   client, stream>>

Loop ==
    \/ ClientReady \/ StreamReady \/ CallRaises \/ BatchArrives \/ ResultEnds
    \/ CallCancelled \/ FinalizerRuns \/ StreamExits \/ StreamExitCancelled
    \/ CloseReturns \/ CloseCancelled

Consumer ==
    \/ Start \/ CloseUnstarted \/ NextRequested \/ CloseRequested
    \/ RequestCancel \/ Abandon

Next == Loop \/ Consumer

\* The driver's calls end (it is given timeouts) and the loop goes on; the
\* consumer owes nothing.
Spec == Init /\ [][Next]_vars /\ WF_vars(Loop)

-----------------------------------------------------------------------------
(* Properties *)

(* A stream that was entered is left before the client is closed. *)
StreamBeforeClient == client # "open" => stream # "open"

(* Every client the driver handed out has its close() called before the
   generator ends, and after the stream made with it was left, on every path:
   errors, end, early close, cancellation.  Only a cancellation during that very
   close leaves it unfinished. *)
ClientClosed ==
    /\ StreamBeforeClient
    /\ co = "done" =>
        /\ client # "open"
        /\ client \in {"closing", "interrupted"} => outcome = "cancelled"

(* Once the generator unwinds, it ends; dropped generators do as well. *)
ReadingEnds == (co \in {"exiting", "closing"} \/ abandoned \/ cancel) ~> co = "done"

(* "asyncio.CancelledError, GeneratorExit, KeyboardInterrupt, and SystemExit
   are never converted to connector exceptions": an exception in flight when
   the stream is left is still the one the generator ends with. *)
CancellationKept ==
    [][(failure \in {"cancelled", "exit"}) => (failure' # "error")]_vars

-----------------------------------------------------------------------------
(* The safety part of ReadSession *)

Stage ==
    CASE co = "new" -> "fresh"
      [] co \in {"exiting", "closing"} -> "ending"
      [] co = "done" -> "over"
      [] OTHER -> "active"

\* A client whose close() was cut short counts as held
Resource ==
    IF client \in {"open", "closing", "interrupted"} THEN "held" ELSE client

Session == INSTANCE ReadSession WITH
    stage <- Stage, resource <- Resource, handed <- Covered,
    result <- outcome

(* A ClickHouse read keeps the safety part of ReadSession.  It does not keep
   the promise that a resource held is released in the end: a client whose
   close() was cancelled stays held. *)
ImplementsReadSession == Session!SafetySpec
=============================================================================
