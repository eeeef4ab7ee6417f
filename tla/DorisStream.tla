----------------------------- MODULE DorisStream -----------------------------
(***************************************************************************)
(* One Doris read: the stream_query coroutine of doris/transports/mysql.py *)
(* and flight.py (they are the same program over two readers), the         *)
(* TaskThread it runs its blocking calls on (_thread.py), and the consumer *)
(* in doris/task.py.                                                       *)
(*                                                                         *)
(* Three parties interleave:                                               *)
(*   - the event loop runs the coroutine `co`, from await to await;        *)
(*   - the one worker thread takes calls off the executor's FIFO queue and *)
(*     runs them on the reader (SyncReader);                               *)
(*   - the consumer asks for the next batch, closes the generator, drops   *)
(*     it, or cancels the task that is waiting in it, more than once if it *)
(*     likes.                                                              *)
(* asyncio, concurrent.futures and the finalizer hook of the event loop    *)
(* are external; what is modelled of them is what the code relies on.      *)
(***************************************************************************)
EXTENDS SyncReader, RowDelivery

CONSTANT MaxCancels   \* bound: cancel requests of one behaviour

ASSUME MaxCancelsAssumption == MaxCancels \in Nat

VARIABLES
    co,          \* where the coroutine is suspended
    failure,     \* stream_query's local `failure`
    outcome,     \* how the generator ended
    cancel,      \* task.cancel() was called, the coroutine has not seen it yet
    cancels,     \* cancel requests so far
    abandoned,   \* the consumer dropped the generator at a yield
    queue,       \* the executor's work queue; dead: cancelled while queued
    running,     \* the call the worker thread is in
    call,        \* the future of the last call: its state or its result
    closeFuture, \* TaskThread._close_future
    executor,    \* "up", or "down" after shutdown(wait=False)
    loop         \* the event loop: "running" or "closed"

coVars == <<co, failure, outcome, cancel, cancels, abandoned>>
threadVars == <<queue, running, call, closeFuture, executor>>
vars == <<coVars, deliveryVars, threadVars, loop, readerVars>>

CoStates == {"new", "opening", "fetching", "yielded", "closing", "done"}
Failures == {"none", "cancelled", "exit", "error"}
Outcomes == Failures \cup {"end", "close_error"}
Calls == {"open", "fetch", "close"}
Items == [op : Calls, dead : BOOLEAN]
Slices == [from : 0..Rows, upto : 0..Rows]
Futures == {"none", "pending", "ok", "rows", "end", "error", "dropped"}

TypeOK ==
    /\ ReaderTypeOK
    /\ co \in CoStates
    /\ failure \in Failures
    /\ outcome \in Outcomes
    /\ cancel \in BOOLEAN
    /\ cancels \in 0..MaxCancels
    /\ abandoned \in BOOLEAN
    /\ batch \in Slices
    /\ slices \in Seq(Slices)
    /\ queue \in Seq(Items)
    /\ running \in Calls \cup {"none"}
    /\ call \in Futures
    /\ closeFuture \in {"none", "pending", "ok", "error"}
    /\ executor \in {"up", "down"}
    /\ loop \in {"running", "closed"}

Init ==
    /\ ReaderInit
    /\ co = "new"
    /\ failure = "none"
    /\ outcome = "none"
    /\ cancel = FALSE
    /\ cancels = 0
    /\ abandoned = FALSE
    /\ DeliveryInit
    /\ queue = << >>
    /\ running = "none"
    /\ call = "none"
    /\ closeFuture = "none"
    /\ executor = "up"
    /\ loop = "running"

-----------------------------------------------------------------------------
(* TaskThread *)

Item(op) == [op |-> op, dead |-> FALSE]

\* TaskThread.call: submit, and await the result in state `at`
Call(op, at) ==
    /\ queue' = Append(queue, Item(op))
    /\ call' = "pending"
    /\ co' = at
    /\ UNCHANGED <<running, closeFuture, executor>>

\* TaskThread.close: submit _close once, then await a shield around it
SubmitClose(q) ==
    /\ queue' = Append(q, Item("close"))
    /\ closeFuture' = "pending"
    /\ co' = "closing"
    /\ UNCHANGED <<running, executor>>

\* Cancelling the future of a call reaches the executor: an item no worker
\* has taken yet will be skipped, one that is running is not disturbed.
CancelQueued == [i \in DOMAIN queue |-> [op |-> queue[i].op, dead |-> TRUE]]

\* Mutant: a submitted close counts as done
CloseSubmitted == closeFuture # "none"

CloseDone == closeFuture \in {"ok", "error"}

\* Mutant: shut down by the coroutine that awaits the close
ShutdownByAwaiter ==
    /\ loop = "running" /\ co = "closing"
    /\ CloseDone
    /\ executor = "up"
    /\ executor' = "down"
    /\ UNCHANGED <<coVars, deliveryVars, queue, running, call, closeFuture, loop,
                   readerVars>>

\* TaskThread._shutdown, the first done-callback of the close future
Shutdown ==
    /\ loop = "running"
    /\ CloseDone
    /\ executor = "up"
    /\ executor' = "down"
    /\ UNCHANGED <<coVars, deliveryVars, queue, running, call, closeFuture, loop,
                   readerVars>>

-----------------------------------------------------------------------------
(* The worker thread *)

\* The future of a finished call takes its result, unless nobody wants it.
Answer(result) ==
    IF running = "close"
    THEN closeFuture' = result /\ UNCHANGED call
    ELSE call' = (IF call = "pending" THEN result ELSE call)
         /\ UNCHANGED closeFuture

WorkerSkips ==
    /\ running = "none"
    /\ queue # << >>
    /\ Head(queue).dead
    /\ queue' = Tail(queue)
    /\ UNCHANGED <<coVars, deliveryVars, running, call, closeFuture, executor, loop,
                   readerVars>>

WorkerStarts ==
    /\ running = "none"
    /\ queue # << >>
    /\ ~Head(queue).dead
    /\ running' = Head(queue).op
    /\ queue' = Tail(queue)
    /\ \/ Head(queue).op = "open" /\ StartOpen
       \/ Head(queue).op = "fetch" /\ StartFetch
       \/ Head(queue).op = "close" /\ StartClose
    /\ UNCHANGED <<coVars, deliveryVars, call, closeFuture, executor, loop>>

WorkerConnects ==
    /\ running = "open"
    /\ Connect
    /\ UNCHANGED <<coVars, deliveryVars, threadVars, loop>>

WorkerReleases ==
    /\ running = "close"
    /\ Release
    /\ UNCHANGED <<coVars, deliveryVars, threadVars, loop>>

WorkerFinishes ==
    /\ \/ running = "open" /\ FinishOpen
       \/ running = "fetch" /\ FinishFetch
       \/ running = "close" /\ FinishClose
    /\ running' = "none"
    /\ Answer(ret')
    /\ UNCHANGED <<coVars, deliveryVars, queue, executor, loop>>

-----------------------------------------------------------------------------
(* The coroutine: one action per resumption, up to its next suspension *)

Continue == loop = "running" /\ ~cancel

\* `finally: await reader.close()`, with the reason it was entered for
Finally(reason) ==
    /\ failure' = reason
    /\ SubmitClose(queue)
    /\ UNCHANGED call

\* The first __anext__: make the reader, call _open
Start ==
    /\ co = "new"
    /\ loop = "running"
    /\ Call("open", "opening")
    /\ UNCHANGED <<failure, outcome, cancel, cancels, abandoned, deliveryVars,
                   loop, readerVars>>

\* aclose() of a generator that was never iterated runs none of its body
CloseUnstarted ==
    /\ co = "new"
    /\ loop = "running"
    /\ co' = "done"
    /\ outcome' = "exit"
    /\ UNCHANGED <<failure, cancel, cancels, abandoned, deliveryVars, threadVars,
                   loop, readerVars>>

OpenReturns ==
    /\ co = "opening"
    /\ Continue
    /\ call = "ok"
    /\ Call("fetch", "fetching")
    /\ UNCHANGED <<failure, outcome, cancel, cancels, abandoned, deliveryVars,
                   loop, readerVars>>

\* Mutant: a failed call is followed by another _fetch
CallRaisesRetries ==
    /\ co \in {"opening", "fetching"}
    /\ Continue
    /\ call = "error"
    /\ Call("fetch", "fetching")
    /\ UNCHANGED <<failure, outcome, cancel, cancels, abandoned, deliveryVars,
                   loop, readerVars>>

\* An exception of _open or _fetch, already a DaftOlapError or translated
CallRaises ==
    /\ co \in {"opening", "fetching"}
    /\ Continue
    /\ call = "error"
    /\ Finally("error")
    /\ UNCHANGED <<outcome, cancel, cancels, abandoned, deliveryVars, loop,
                   readerVars>>

BatchReturns ==
    /\ co = "fetching"
    /\ Continue
    /\ call = "rows"
    /\ LET b == [from |-> batch.upto, upto |-> served]
       IN  \/ /\ b.from < b.upto
              /\ YieldSlice(b)
              /\ co' = "yielded"
              /\ UNCHANGED threadVars
           \/ /\ b.from = b.upto
              /\ batch' = b
              /\ Call("fetch", "fetching")
              /\ UNCHANGED slices
    /\ UNCHANGED <<failure, outcome, cancel, cancels, abandoned, loop,
                   readerVars>>

ResultEnds ==
    /\ co = "fetching"
    /\ Continue
    /\ call = "end"
    /\ Finally("none")
    /\ UNCHANGED <<outcome, cancel, cancels, abandoned, deliveryVars, loop,
                   readerVars>>

\* CancelledError out of an awaited call.  Whatever the call has done, or is
\* still doing on the worker, its result goes nowhere.
CallCancelled ==
    /\ co \in {"opening", "fetching"}
    /\ loop = "running"
    /\ cancel
    /\ cancel' = FALSE
    /\ failure' = "cancelled"
    /\ call' = "dropped"
    /\ SubmitClose(CancelQueued)
    /\ UNCHANGED <<outcome, cancels, abandoned, deliveryVars, loop, readerVars>>

\* Mutant: the next batch is fetched ahead of the demand for it
NextRequestedPrefetches ==
    /\ co = "yielded"
    /\ loop = "running"
    /\ ~abandoned
    /\ IF batch.from < batch.upto
       THEN /\ YieldSlice(batch)
            /\ queue' = Append(queue, Item("fetch"))
            /\ UNCHANGED <<co, running, call, closeFuture, executor>>
       ELSE Call("fetch", "fetching") /\ UNCHANGED deliveryVars
    /\ UNCHANGED <<failure, outcome, cancel, cancels, abandoned, loop,
                   readerVars>>

\* The consumer asks for more
NextRequested ==
    /\ co = "yielded"
    /\ loop = "running"
    /\ ~abandoned
    /\ IF batch.from < batch.upto
       THEN YieldSlice(batch) /\ UNCHANGED <<co, threadVars>>
       ELSE Call("fetch", "fetching") /\ UNCHANGED deliveryVars
    /\ UNCHANGED <<failure, outcome, cancel, cancels, abandoned, loop,
                   readerVars>>

\* aclose(): GeneratorExit at the yield
CloseRequested ==
    /\ co = "yielded"
    /\ loop = "running"
    /\ ~abandoned
    /\ Finally("exit")
    /\ UNCHANGED <<outcome, cancel, cancels, abandoned, deliveryVars, loop,
                   readerVars>>

\* Mutant: a dropped generator first wants its batch consumed
FinalizerRunsLate ==
    /\ co = "yielded"
    /\ loop = "running"
    /\ abandoned
    /\ batch.from = batch.upto
    /\ Finally("exit")
    /\ UNCHANGED <<outcome, cancel, cancels, abandoned, deliveryVars, loop,
                   readerVars>>

\* The event loop's finalizer hook: a task that closes the dropped generator.
\* If that task is cancelled before it runs, CancelledError is what it throws.
FinalizerRuns ==
    /\ co = "yielded"
    /\ loop = "running"
    /\ abandoned
    /\ \E reason \in {"exit", "cancelled"} : Finally(reason)
    /\ UNCHANGED <<outcome, cancel, cancels, abandoned, deliveryVars, loop,
                   readerVars>>

\* Mutant: a failing close hides the failure of the query
EndOfMasking(closed) ==
    CASE closed = "error" -> "close_error"
      [] closed # "error" /\ failure # "none" -> failure
      [] OTHER -> "end"

\* What the generator ends with when its close ended with `closed`
EndOf(closed) ==
    CASE failure # "none" -> failure
      [] failure = "none" /\ closed = "error" -> "close_error"
      [] OTHER -> "end"

\* Mutant: the close is not awaited
CloseReturnsEarly ==
    /\ co = "closing"
    /\ Continue
    /\ co' = "done"
    /\ outcome' = EndOf(closeFuture)
    /\ UNCHANGED <<failure, cancel, cancels, abandoned, deliveryVars, threadVars,
                   loop, readerVars>>

\* Runs after Shutdown: the shield was registered on the future after it
CloseReturns ==
    /\ co = "closing"
    /\ Continue
    /\ CloseDone
    /\ executor = "down"
    /\ co' = "done"
    /\ outcome' = EndOf(closeFuture)
    /\ UNCHANGED <<failure, cancel, cancels, abandoned, deliveryVars, threadVars,
                   loop, readerVars>>

\* Mutant: no shield, the cancellation reaches the queued close
CloseCancelledUnshielded ==
    /\ co = "closing"
    /\ loop = "running"
    /\ cancel
    /\ cancel' = FALSE
    /\ queue' = CancelQueued
    /\ co' = "done"
    /\ outcome' = "cancelled"
    /\ UNCHANGED <<failure, cancels, abandoned, deliveryVars, running, call,
                   closeFuture, executor, loop, readerVars>>

\* CancelledError out of the shield: it is no Exception, so it leaves the
\* generator, and the close goes on behind its back.
CloseCancelled ==
    /\ co = "closing"
    /\ loop = "running"
    /\ cancel
    /\ cancel' = FALSE
    /\ co' = "done"
    /\ outcome' = "cancelled"
    /\ UNCHANGED <<failure, cancels, abandoned, deliveryVars, threadVars, loop,
                   readerVars>>

-----------------------------------------------------------------------------
(* The consumer and its event loop *)

RequestCancel ==
    /\ co \in {"opening", "fetching", "closing"}
    /\ loop = "running"
    /\ ~cancel
    /\ cancels < MaxCancels
    /\ cancel' = TRUE
    /\ cancels' = cancels + 1
    /\ UNCHANGED <<co, failure, outcome, abandoned, deliveryVars, threadVars, loop,
                   readerVars>>

\* DorisTask.read iterates the stream without aclosing(): when it is closed,
\* cancelled or fails at its own yield it just drops the generator.
Abandon ==
    /\ co = "yielded"
    /\ ~abandoned
    /\ abandoned' = TRUE
    /\ UNCHANGED <<co, failure, outcome, cancel, cancels, deliveryVars, threadVars,
                   loop, readerVars>>

\* asyncio.run ends the loop once its tasks and generators have ended
LoopCloses ==
    /\ co = "done"
    /\ loop = "running"
    /\ loop' = "closed"
    /\ UNCHANGED <<coVars, deliveryVars, threadVars, readerVars>>

Worker ==
    \/ WorkerSkips \/ WorkerStarts \/ WorkerConnects \/ WorkerReleases
    \/ WorkerFinishes

\* What the event loop does by itself, without a request of the consumer
Loop ==
    \/ OpenReturns \/ CallRaises \/ BatchReturns \/ ResultEnds
    \/ CallCancelled \/ FinalizerRuns \/ CloseReturns \/ CloseCancelled
    \/ Shutdown

Consumer ==
    \/ Start \/ CloseUnstarted \/ NextRequested \/ CloseRequested
    \/ RequestCancel \/ Abandon \/ LoopCloses

Next == Worker \/ Loop \/ Consumer

\* Blocking calls end (the drivers are given connect, read and query
\* timeouts), the loop runs what is ready; the consumer owes nothing.
Fairness ==
    /\ WF_vars(Worker)
    /\ WF_vars(OpenReturns \/ CallRaises \/ BatchReturns \/ ResultEnds
               \/ CallCancelled \/ FinalizerRuns \/ CloseReturns
               \/ CloseCancelled)
    /\ WF_vars(Shutdown)

Spec == Init /\ [][Next]_vars /\ Fairness

-----------------------------------------------------------------------------
(* Safety *)

Queued(op) == \E i \in DOMAIN queue : queue[i].op = op /\ ~queue[i].dead

(* However the reading ends, an open connection has a close on its way that
   nothing can take back: also when the cancellation came while connect was
   running, and when the wait for the close was cancelled as well. *)
NoLeak ==
    conn = "open" /\ co \in {"closing", "done"}
        => running = "close" \/ Queued("close")

(* _close is the last call the task thread runs: nothing is queued behind it,
   so no late _open or _fetch can bring the connection back, and the executor
   is shut down only when the thread has nothing left to do. *)
CloseIsLast ==
    /\ running = "close" \/ closeFuture \in {"ok", "error"} => queue = << >>
    /\ closeFuture \in {"ok", "error"} => running = "none" /\ conn # "open"
    /\ executor = "down" => closeFuture \in {"ok", "error"}

(* The reader's methods reach the thread in an order they are written for:
   _open on a new reader, _fetch only after an _open or _fetch that worked,
   _close between calls and once. *)
CallsInOrder ==
    running = "none" /\ queue # << >> /\ ~Head(queue).dead =>
        CASE Head(queue).op = "open" -> phase = "created"
          [] Head(queue).op = "fetch" -> phase = "ready"
          [] Head(queue).op = "close" ->
                phase \in {"created", "ready", "eof", "broken"}

(* A generator that ends normally, or ends in the error that only the close
   failed, has yielded every row of the result. *)
CompleteAtEnd == outcome \in {"end", "close_error"} => Covered = Rows

(* Rows are pulled on demand: while a _fetch is queued or running, everything
   fetched before it has been yielded, so at most one batch waits here. *)
DemandDriven ==
    /\ Queued("fetch") \/ running = "fetch" => Covered = served
    /\ served - Covered <= MaxBatch

(* A failing close neither hides the failure of the query nor is hidden when
   there was none; only a cancellation can replace either. *)
FailureReported ==
    co = "done" /\ outcome # "cancelled" =>
        /\ call = "error" => outcome = "error"
        /\ call = "end" => outcome = IF closeFuture = "ok" THEN "end"
                                     ELSE "close_error"

-----------------------------------------------------------------------------
(* Liveness *)

(* Once stream_query enters its `finally`, the reader is closed and its
   thread is released; only a loop that is closed first leaves the idle
   executor to the interpreter. *)
CloseCompletes ==
    co = "closing" ~> /\ phase = "closed"
                      /\ executor = "down" \/ loop = "closed"

(* A reading that is given up ends.  A generator that DorisTask.read dropped at
   a yield is still closed, and a cancellation is not swallowed by the cleanup. *)
GivenUpEnds ==
    /\ abandoned ~> phase = "closed"
    /\ cancel ~> co = "done"

-----------------------------------------------------------------------------
(* One Doris read is a ReadSession *)

Stage ==
    CASE co = "new" -> "fresh"
      [] co = "closing" -> "ending"
      [] co = "done" -> "over"
      [] OTHER -> "active"

Resource == IF conn = "open" THEN "held" ELSE conn

Session == INSTANCE ReadSession WITH
    stage <- Stage, resource <- Resource, handed <- Covered,
    result <- outcome

(* Both Doris transports keep the promise of ReadSession, liveness included. *)
ImplementsReadSession == Session!Spec
=============================================================================
