-------------------------- MODULE DorisStreamProofs --------------------------
(***************************************************************************)
(* Proofs about one Doris read, for every result, every batch size and any *)
(* number of cancellations: however event loop, worker thread and consumer *)
(* interleave, the reader's calls come in order, the connection is closed, *)
(* and the rows are delivered in order and completely.                     *)
(***************************************************************************)
EXTENDS DorisStream, SharedLemmas, SequenceTheorems

Dead(op) == [op |-> op, dead |-> TRUE]

Idle == queue = << >> /\ running = "none"

\* A call is on its way: queued, or taken by the worker
InCall(op, before, during) ==
    \/ queue = <<Item(op)>> /\ running = "none" /\ phase = before
    \/ queue = << >> /\ running = op /\ phase = during

\* The states of thread and reader that each suspension of the coroutine can
\* find
OpeningInv ==
    \/ call = "pending" /\ InCall("open", "created", "opening")
    \/ call = "ok" /\ Idle /\ phase = "ready"
    \/ call = "error" /\ Idle /\ phase = "broken"

FetchingInv ==
    \/ call = "pending" /\ InCall("fetch", "ready", "fetching")
    \/ call = "rows" /\ Idle /\ phase = "ready"
    \/ call = "end" /\ Idle /\ phase = "eof"
    \/ call = "error" /\ Idle /\ phase = "broken"

\* While the close is pending it is the last item: behind a call that was
\* cancelled while queued, behind one that still runs, or running itself
ClosePendingInv ==
    \/ /\ \E op \in {"open", "fetch"} : queue = <<Dead(op), Item("close")>>
       /\ running = "none"
       /\ phase \in {"created", "ready"}
    \/ /\ queue = <<Item("close")>>
       /\ \/ running = "none" /\ phase \in {"created", "ready", "eof", "broken"}
          \/ running = "open" /\ phase = "opening"
          \/ running = "fetch" /\ phase = "fetching"
    \/ queue = << >> /\ running = "close" /\ phase = "closing"

Unstarted ==
    Idle /\ closeFuture = "none" /\ call = "none" /\ phase = "created"

ThreadInv ==
    /\ co = "new" => Unstarted
    /\ co = "opening" => closeFuture = "none" /\ OpeningInv
    /\ co = "fetching" => closeFuture = "none" /\ FetchingInv
    /\ co = "yielded" =>
          closeFuture = "none" /\ call = "rows" /\ Idle /\ phase = "ready"
    /\ co = "closing" => closeFuture # "none" /\ call # "pending"
    /\ co = "done" => call # "pending" /\ (closeFuture = "none" => Unstarted)
    /\ closeFuture = "pending" => ClosePendingInv
    /\ CloseDone => Idle /\ phase = "closed"
    /\ executor = "down" => CloseDone

ConnInv ==
    /\ phase = "created" => conn = "none"
    /\ phase \in {"ready", "fetching", "eof"} => conn = "open"
    /\ phase = "closed" => conn # "open"

\* Where batch, consumer and reader stand in the result
DataInv ==
    /\ Covered <= served
    /\ served <= Covered + MaxBatch
    /\ running = "fetch" \/ phase = "eof" => Covered = served
    /\ phase = "eof" => served = Rows
    /\ co \in {"new", "opening"} => served = 0 /\ batch.upto = 0
    /\ co = "fetching" => batch.upto = Covered
    /\ co = "fetching" /\ call = "pending" => Covered = served
    /\ co = "yielded" => batch.from = Covered /\ batch.upto = served

\* What `failure` and `outcome` say about the calls
FailInv ==
    /\ co = "closing" => /\ failure = "error" <=> call = "error"
                         /\ failure = "none" <=> call = "end"
    /\ co = "closing" /\ failure = "none" => Covered = Rows
    /\ outcome # "none" => co = "done"
    /\ co = "done" /\ outcome # "cancelled" =>
          CloseDone \/ (closeFuture = "none" /\ outcome = "exit")

IInv ==
    /\ TypeOK
    /\ ThreadInv
    /\ ConnInv
    /\ DataInv
    /\ FailInv
    /\ RowsInOrder
    /\ CompleteAtEnd
    /\ FailureReported

-----------------------------------------------------------------------------
(* Lemmas *)

(* The constants are numbers and MaxBatch is positive. *)
LEMMA Constants == Rows \in Nat /\ MaxBatch \in Nat \ {0} /\ MaxCancels \in Nat
  BY RowsAssumption, MaxBatchAssumption, MaxCancelsAssumption

(* Live and cancelled items are items, and tell each other apart. *)
LEMMA ItemFacts ==
    \A op \in Calls : /\ Item(op) \in Items /\ Dead(op) \in Items
                      /\ Item(op).op = op /\ Dead(op).op = op
                      /\ Item(op).dead = FALSE /\ Dead(op).dead = TRUE
  BY DEF Item, Dead, Items

(* Cancelling a call kills its queued item; there is at most one. *)
LEMMA CancelQueuedFacts ==
    /\ queue = << >> => CancelQueued = << >>
    /\ \A op \in Calls : queue = <<Item(op)>> => CancelQueued = <<Dead(op)>>
  <1>1. queue = << >> => CancelQueued = << >>
    BY DEF CancelQueued
  <1>2. ASSUME NEW op \in Calls, queue = <<Item(op)>>
        PROVE  CancelQueued = <<Dead(op)>>
    <2>1. DOMAIN queue = 1..1 /\ queue[1] = Item(op)
      BY <1>2
    <2>2. [op |-> Item(op).op, dead |-> TRUE] = Dead(op)
      BY DEF Item, Dead
    <2>3. CancelQueued = [i \in 1..1 |-> Dead(op)]
      BY <2>1, <2>2 DEF CancelQueued
    <2> QED  BY <2>3
  <1> QED  BY <1>1, <1>2

(* One or two items: what the queue operations make of them. *)
LEMMA QueueFacts ==
    \A x, y : /\ Append(<< >>, x) = <<x>>
              /\ Append(<<x>>, y) = <<x, y>>
              /\ Head(<<x>>) = x /\ Head(<<x, y>>) = x
              /\ Tail(<<x>>) = << >> /\ Tail(<<x, y>>) = <<y>>
              /\ <<x>> # << >> /\ <<x, y>> # << >>
  <1> TAKE x, y
  <1>1. Append(<< >>, x) = <<x>>
    OBVIOUS
  <1>2. Append(<<x>>, y) = <<x, y>>
    <2> DEFINE S == {x, y}
    <2>1. <<x>> \in Seq(S) /\ y \in S /\ <<x, y>> \in Seq(S)
      OBVIOUS
    <2>2. Append(<<x>>, y) \in Seq(S)
      BY <2>1
    <2>3. Len(Append(<<x>>, y)) = 2 /\ Len(<<x, y>>) = 2
      BY <2>1
    <2>4. Append(<<x>>, y)[1] = x /\ Append(<<x>>, y)[2] = y
      BY <2>1
    <2>5. \A i \in 1..2 : Append(<<x>>, y)[i] = <<x, y>>[i]
      BY <2>4
    <2> QED  BY <2>1, <2>2, <2>3, <2>5, SeqEqual
  <1>3. Head(<<x>>) = x /\ Head(<<x, y>>) = x
    OBVIOUS
  <1>4. Tail(<<x>>) = << >>
    OBVIOUS
  <1>5. Tail(<<x, y>>) = <<y>>
    OBVIOUS
  <1>6. <<x>> # << >> /\ <<x, y>> # << >>
    OBVIOUS
  <1> QED  BY <1>1, <1>2, <1>3, <1>4, <1>5, <1>6

(* A slice the consumer is given follows the one before it. *)
LEMMA YieldSliceFacts ==
    ASSUME NEW b \in Slices, b.from = Covered, slices \in Seq(Slices),
           RowsInOrder, YieldSlice(b)
    PROVE  /\ slices' \in Seq(Slices) /\ batch' \in Slices
           /\ Covered' = batch'.from /\ batch'.upto = b.upto
           /\ batch'.from <= b.upto /\ Covered < Covered'
           /\ RowsInOrder'
  <1>1. PICK k \in 1..(b.upto - b.from) :
            /\ slices' = Append(slices, [from |-> b.from, upto |-> b.from + k])
            /\ batch' = [b EXCEPT !.from = b.from + k]
    BY DEF YieldSlice
  <1>2. Slices = SlicesUpTo(Rows) /\ Rows \in Nat
    BY Constants DEF Slices, SlicesUpTo
  <1>3. Consecutive(slices) /\ Covered = LastRow(slices) /\ slices \in Seq(Slices)
    BY DEF RowsInOrder, Consecutive, Covered, LastRow
  <1>4. /\ slices' \in Seq(Slices) /\ batch' \in Slices
        /\ Consecutive(slices') /\ LastRow(slices') = b.from + k
    BY <1>1, <1>2, <1>3, SliceFollows
  <1>5. RowsInOrder' /\ Covered' = b.from + k
    BY <1>4 DEF RowsInOrder, Consecutive, Covered, LastRow
  <1>6. /\ b.from \in 0..Rows /\ b.upto \in 0..Rows
        /\ batch'.from = b.from + k /\ batch'.upto = b.upto
    BY <1>1 DEF Slices
  <1> QED  BY <1>2, <1>4, <1>5, <1>6

(* The position of the consumer is a position in the result. *)
LEMMA CoveredInRange ==
    ASSUME slices \in Seq(Slices)
    PROVE  Covered \in 0..Rows
  <1>1. Slices = SlicesUpTo(Rows) /\ Rows \in Nat
    BY Constants DEF Slices, SlicesUpTo
  <1> QED  BY <1>1, LastRowInRange DEF Covered, LastRow

(* While nothing is yielded the consumer stays where it is. *)
LEMMA CoveredUnchanged == UNCHANGED slices => Covered' = Covered
  BY DEF Covered

-----------------------------------------------------------------------------
(* Init *)

(* The inductive invariant holds initially. *)
LEMMA InitIInv == Init => IInv
  <1> SUFFICES ASSUME Init PROVE IInv
    OBVIOUS
  <1> USE DEF Init, ReaderInit, DeliveryInit
  <1>1. Covered = 0
    BY DEF Covered
  <1>2. TypeOK
    <2>1. served \in 0..Rows /\ cancels \in 0..MaxCancels /\ batch \in Slices
      BY Constants DEF Slices
    <2>2. slices \in Seq(Slices) /\ queue \in Seq(Items)
      OBVIOUS
    <2>3. ReaderTypeOK
      BY <2>1 DEF ReaderTypeOK, Phases, ConnStates, Returns
    <2> QED  BY <2>1, <2>2, <2>3 DEF TypeOK, CoStates, Failures, Outcomes, Futures
  <1>3. ThreadInv
    BY DEF ThreadInv, Unstarted, Idle, CloseDone
  <1>4. ConnInv /\ FailInv /\ CompleteAtEnd /\ FailureReported
    BY DEF ConnInv, FailInv, CompleteAtEnd, FailureReported
  <1>5. DataInv
    BY <1>1, Constants DEF DataInv
  <1>6. RowsInOrder
    BY DEF RowsInOrder
  <1> QED  BY <1>2, <1>3, <1>4, <1>5, <1>6 DEF IInv

-----------------------------------------------------------------------------
(* Type correctness: only the close can be answered into the close future,
   which is why the order of the calls is needed here. *)

(* What the worker does to the queue and to the futures keeps their types. *)
LEMMA WorkerTypes == IInv /\ Worker => TypeOK'
  <1> SUFFICES ASSUME IInv, Worker PROVE TypeOK'
    OBVIOUS
  <1> USE DEF IInv, TypeOK, ReaderTypeOK, coVars, deliveryVars, threadVars,
              readerVars
  <1>1. CASE WorkerSkips
    BY <1>1, HeadTailProperties DEF WorkerSkips
  <1>2. CASE WorkerStarts
    <2>1. queue' \in Seq(Items) /\ running' \in Calls
      <3>1. Head(queue) \in Items /\ Tail(queue) \in Seq(Items)
        BY <1>2, HeadTailProperties DEF WorkerStarts
      <3> QED  BY <1>2, <3>1 DEF WorkerStarts, Items
    <2>2. ReaderTypeOK'
      BY <1>2 DEF WorkerStarts, StartOpen, StartFetch, StartClose, Phases
    <2> QED  BY <1>2, <2>1, <2>2 DEF WorkerStarts
  <1>3. CASE WorkerConnects \/ WorkerReleases
    BY <1>3 DEF WorkerConnects, WorkerReleases, Connect, Release, ConnStates
  <1>4. CASE WorkerFinishes
    <2>1. ReaderTypeOK'
      <3>1. CASE running = "open" /\ FinishOpen
        BY <3>1 DEF FinishOpen, Phases, Returns
      <3>2. CASE running = "fetch" /\ FinishFetch
        BY <3>2, Constants DEF FinishFetch, Phases, Returns
      <3>3. CASE running = "close" /\ FinishClose
        BY <3>3 DEF FinishClose, Phases, Returns
      <3> QED  BY <1>4, <3>1, <3>2, <3>3 DEF WorkerFinishes
    <2>2. call' \in Futures /\ closeFuture' \in {"none", "pending", "ok", "error"}
      BY <1>4 DEF WorkerFinishes, Answer, FinishOpen, FinishFetch, FinishClose,
                  Futures
    <2> QED  BY <1>4, <2>1, <2>2 DEF WorkerFinishes
  <1> QED  BY <1>1, <1>2, <1>3, <1>4 DEF Worker

(* The steps of the coroutine keep the types. *)
LEMMA LoopTypes == IInv /\ Loop => TypeOK'
  <1> SUFFICES ASSUME IInv, Loop PROVE TypeOK'
    OBVIOUS
  <1> USE DEF IInv, TypeOK, ReaderTypeOK, coVars, deliveryVars, threadVars,
              readerVars, CoStates
  <1>0. \A q \in Seq(Items), op \in Calls : Append(q, Item(op)) \in Seq(Items)
    BY ItemFacts
  <1>1. CASE OpenReturns
    BY <1>0, <1>1 DEF OpenReturns, Call, Calls, Futures
  <1>2. CASE CallRaises \/ ResultEnds \/ FinalizerRuns
    BY <1>0, <1>2 DEF CallRaises, ResultEnds, FinalizerRuns, Finally, SubmitClose,
                      Calls, Failures
  <1>3. CASE BatchReturns
    <2> DEFINE b == [from |-> batch.upto, upto |-> served]
    <2>1. b \in Slices /\ b.from = batch.upto /\ b.upto = served
      BY DEF Slices
    <2>2. b.from = Covered
      BY <1>3 DEF BatchReturns, DataInv
    <2>3. batch' \in Slices /\ slices' \in Seq(Slices)
      <3>1. CASE YieldSlice(b)
        BY <2>1, <2>2, <3>1, YieldSliceFacts
      <3>2. CASE batch' = b /\ UNCHANGED slices
        BY <2>1, <3>2
      <3> QED  BY <1>3, <3>1, <3>2 DEF BatchReturns
    <2>4. queue' \in Seq(Items) /\ call' \in Futures /\ co' \in CoStates
          /\ UNCHANGED <<running, closeFuture, executor>>
      BY <1>0, <1>3 DEF BatchReturns, Call, Calls, Futures
    <2> QED  BY <1>3, <2>3, <2>4 DEF BatchReturns
  <1>4. CASE CallCancelled
    <2>1. CancelQueued \in Seq(Items)
      <3>1. queue = << >> \/ \E op \in Calls : queue = <<Item(op)>>
        BY <1>4 DEF CallCancelled, ThreadInv, OpeningInv, FetchingInv, InCall, Idle,
                    Calls
      <3>2. \A op \in Calls : <<Dead(op)>> \in Seq(Items)
        BY ItemFacts
      <3> QED  BY <3>1, <3>2, CancelQueuedFacts
    <2>2. queue' \in Seq(Items)
      BY <1>0, <1>4, <2>1 DEF CallCancelled, SubmitClose, Calls
    <2> QED  BY <1>4, <2>2 DEF CallCancelled, SubmitClose, Failures, Futures
  <1>5. CASE CloseReturns
    BY <1>5 DEF CloseReturns, EndOf, Outcomes, Failures
  <1>6. CASE CloseCancelled
    BY <1>6 DEF CloseCancelled, Outcomes, Failures
  <1>7. CASE Shutdown
    BY <1>7 DEF Shutdown
  <1> QED  BY <1>1, <1>2, <1>3, <1>4, <1>5, <1>6, <1>7 DEF Loop

(* The steps of the consumer keep the types. *)
LEMMA ConsumerTypes == IInv /\ Consumer => TypeOK'
  <1> SUFFICES ASSUME IInv, Consumer PROVE TypeOK'
    OBVIOUS
  <1> USE DEF IInv, TypeOK, ReaderTypeOK, coVars, deliveryVars, threadVars,
              readerVars, CoStates
  <1>0. \A q \in Seq(Items), op \in Calls : Append(q, Item(op)) \in Seq(Items)
    BY ItemFacts
  <1>1. CASE Start
    BY <1>0, <1>1 DEF Start, Call, Calls, Futures
  <1>2. CASE CloseUnstarted
    BY <1>2 DEF CloseUnstarted, Outcomes, Failures
  <1>3. CASE NextRequested
    <2>1. batch' \in Slices /\ slices' \in Seq(Slices)
      <3>1. CASE YieldSlice(batch)
        BY <1>3, <3>1, YieldSliceFacts DEF NextRequested, DataInv
      <3>2. CASE UNCHANGED deliveryVars
        BY <3>2
      <3> QED  BY <1>3, <3>1, <3>2 DEF NextRequested
    <2>2. queue' \in Seq(Items) /\ call' \in Futures /\ co' \in CoStates
          /\ UNCHANGED <<running, closeFuture, executor>>
      BY <1>0, <1>3 DEF NextRequested, Call, Calls, Futures
    <2> QED  BY <1>3, <2>1, <2>2 DEF NextRequested
  <1>4. CASE CloseRequested
    BY <1>0, <1>4 DEF CloseRequested, Finally, SubmitClose, Calls, Failures
  <1>5. CASE RequestCancel
    BY <1>5, Constants DEF RequestCancel
  <1>6. CASE Abandon \/ LoopCloses
    BY <1>6 DEF Abandon, LoopCloses
  <1> QED  BY <1>1, <1>2, <1>3, <1>4, <1>5, <1>6 DEF Consumer

-----------------------------------------------------------------------------
(* The thread: which calls are queued, running and answered *)

(* The worker takes the queue in order and answers the call it has run. *)
LEMMA WorkerThread == IInv /\ Worker => ThreadInv'
  <1> SUFFICES ASSUME IInv, Worker PROVE ThreadInv'
    OBVIOUS
  <1> USE DEF IInv, coVars, deliveryVars, threadVars, readerVars, CloseDone
  <1>1. CASE WorkerSkips
    <2>1. closeFuture = "pending" /\ co \in {"closing", "done"}
          /\ queue' = <<Item("close")>>
          /\ phase \in {"created", "ready"} /\ running = "none"
      <3>1. \A op \in Calls : queue # <<Item(op)>>
        BY <1>1, ItemFacts, QueueFacts DEF WorkerSkips
      <3>2. closeFuture = "pending" /\ co \in {"closing", "done"}
        BY <1>1, <3>1
        DEF WorkerSkips, ThreadInv, OpeningInv, FetchingInv, InCall, Unstarted,
            Idle, Calls, TypeOK, CoStates
      <3>3. /\ \E op \in {"open", "fetch"} : queue = <<Dead(op), Item("close")>>
            /\ running = "none" /\ phase \in {"created", "ready"}
        BY <1>1, <3>1, <3>2
        DEF WorkerSkips, ThreadInv, ClosePendingInv, Calls
      <3> QED  BY <1>1, <3>2, <3>3, QueueFacts DEF WorkerSkips
    <2> QED  BY <1>1, <2>1 DEF WorkerSkips, ThreadInv, ClosePendingInv
  <1>2. CASE WorkerStarts
    <2>1. \/ /\ co = "opening" /\ call = "pending" /\ closeFuture = "none"
             /\ running' = "open" /\ queue' = << >> /\ phase' = "opening"
          \/ /\ co = "fetching" /\ call = "pending" /\ closeFuture = "none"
             /\ running' = "fetch" /\ queue' = << >> /\ phase' = "fetching"
          \/ /\ co \in {"closing", "done"} /\ closeFuture = "pending"
             /\ running' = "close" /\ queue' = << >> /\ phase' = "closing"
      BY <1>2, ItemFacts, QueueFacts
      DEF WorkerStarts, StartOpen, StartFetch, StartClose, ThreadInv, OpeningInv,
          FetchingInv, ClosePendingInv, InCall, Unstarted, Idle, Calls, TypeOK,
          CoStates
    <2> QED  BY <1>2, <2>1 DEF WorkerStarts, ThreadInv, OpeningInv, FetchingInv,
                               ClosePendingInv, InCall
  <1>3. CASE WorkerConnects \/ WorkerReleases
    BY <1>3 DEF WorkerConnects, WorkerReleases, Connect, Release, ThreadInv,
                OpeningInv, FetchingInv, ClosePendingInv, InCall, Unstarted, Idle
  <1>4. CASE WorkerFinishes
    <2>1. CASE running = "close" /\ FinishClose
      <3>1. closeFuture = "pending" /\ queue = << >> /\ co \in {"closing", "done"}
        BY <2>1 DEF ThreadInv, OpeningInv, FetchingInv, ClosePendingInv, InCall,
                    Unstarted, Idle, TypeOK, CoStates
      <3> QED  BY <1>4, <2>1, <3>1
               DEF WorkerFinishes, Answer, FinishClose, ThreadInv, Idle
    <2>2. CASE running = "open" /\ FinishOpen
      <3>1. \/ co = "opening" /\ call = "pending" /\ closeFuture = "none"
               /\ queue = << >>
            \/ co \in {"closing", "done"} /\ closeFuture = "pending"
               /\ queue = <<Item("close")>>
        BY <2>2 DEF ThreadInv, OpeningInv, FetchingInv, ClosePendingInv, InCall,
                    Unstarted, Idle, TypeOK, CoStates
      <3> QED  BY <1>4, <2>2, <3>1
               DEF WorkerFinishes, Answer, FinishOpen, ThreadInv, OpeningInv,
                   ClosePendingInv, Idle
    <2>3. CASE running = "fetch" /\ FinishFetch
      <3>1. \/ co = "fetching" /\ call = "pending" /\ closeFuture = "none"
               /\ queue = << >>
            \/ co \in {"closing", "done"} /\ closeFuture = "pending"
               /\ queue = <<Item("close")>>
        BY <2>3 DEF ThreadInv, OpeningInv, FetchingInv, ClosePendingInv, InCall,
                    Unstarted, Idle, TypeOK, CoStates
      <3>2. \/ phase' = "ready" /\ ret' = "rows"
            \/ phase' = "eof" /\ ret' = "end"
            \/ phase' = "broken" /\ ret' = "error"
        BY <2>3 DEF FinishFetch
      <3> QED  BY <1>4, <2>3, <3>1, <3>2
               DEF WorkerFinishes, Answer, ThreadInv, FetchingInv,
                   ClosePendingInv, Idle
    <2> QED  BY <1>4, <2>1, <2>2, <2>3 DEF WorkerFinishes
  <1> QED  BY <1>1, <1>2, <1>3, <1>4 DEF Worker

(* Submitting the close puts it behind everything else. *)
LEMMA FinallyThread ==
    ASSUME IInv, NEW reason, Finally(reason), Idle, closeFuture = "none",
           phase \in {"created", "ready", "eof", "broken"}, call # "pending",
           UNCHANGED phase
    PROVE  ThreadInv'
  <1>1. queue' = <<Item("close")>>
    BY QueueFacts DEF Finally, SubmitClose, Idle
  <1> QED  BY <1>1 DEF IInv, Finally, SubmitClose, Idle, ThreadInv, ClosePendingInv,
                       CloseDone

(* The coroutine awaits the call it has submitted. *)
LEMMA LoopThread == IInv /\ Loop => ThreadInv'
  <1> SUFFICES ASSUME IInv, Loop PROVE ThreadInv'
    OBVIOUS
  <1> USE DEF IInv, coVars, deliveryVars, threadVars, readerVars
  <1>1. CASE OpenReturns
    <2>1. Idle /\ phase = "ready" /\ closeFuture = "none"
      BY <1>1 DEF OpenReturns, ThreadInv, OpeningInv
    <2>2. queue' = <<Item("fetch")>>
      BY <1>1, <2>1, QueueFacts DEF OpenReturns, Call, Idle
    <2> QED  BY <1>1, <2>1, <2>2
             DEF OpenReturns, Call, ThreadInv, FetchingInv, InCall, Idle, CloseDone
  <1>2. CASE CallRaises
    BY <1>2, FinallyThread DEF CallRaises, ThreadInv, OpeningInv, FetchingInv
  <1>3. CASE ResultEnds
    BY <1>3, FinallyThread DEF ResultEnds, ThreadInv, FetchingInv
  <1>4. CASE FinalizerRuns
    BY <1>4, FinallyThread DEF FinalizerRuns, ThreadInv
  <1>5. CASE BatchReturns
    <2>1. Idle /\ phase = "ready" /\ closeFuture = "none" /\ UNCHANGED phase
      BY <1>5 DEF BatchReturns, ThreadInv, FetchingInv
    <2>2. CASE co' = "yielded" /\ UNCHANGED threadVars
      BY <1>5, <2>1, <2>2 DEF BatchReturns, ThreadInv, Idle, CloseDone
    <2>3. CASE Call("fetch", "fetching")
      <3>1. queue' = <<Item("fetch")>>
        BY <2>1, <2>3, QueueFacts DEF Call, Idle
      <3> QED  BY <2>1, <2>3, <3>1
               DEF Call, ThreadInv, FetchingInv, InCall, Idle, CloseDone
    <2> QED  BY <1>5, <2>2, <2>3 DEF BatchReturns
  <1>6. CASE CallCancelled
    <2>1. /\ closeFuture = "none" /\ executor # "down"
          /\ \/ /\ \E op \in {"open", "fetch"} : queue = <<Item(op)>>
                /\ running = "none" /\ phase \in {"created", "ready"}
             \/ /\ queue = << >>
                /\ \/ running = "none" /\ phase \in {"ready", "eof", "broken"}
                   \/ running = "open" /\ phase = "opening"
                   \/ running = "fetch" /\ phase = "fetching"
      BY <1>6 DEF CallCancelled, ThreadInv, OpeningInv, FetchingInv, InCall, Idle,
                  CloseDone
    <2>2. /\ closeFuture' = "pending" /\ co' = "closing" /\ call' = "dropped"
          /\ UNCHANGED <<running, phase, executor>>
      BY <1>6 DEF CallCancelled, SubmitClose
    <2>3. ClosePendingInv'
      <3>1. CASE queue = << >>
        <4>1. queue' = <<Item("close")>>
          BY <1>6, <3>1, CancelQueuedFacts, QueueFacts DEF CallCancelled, SubmitClose
        <4> QED  BY <2>1, <2>2, <3>1, <4>1, QueueFacts DEF ClosePendingInv
      <3>2. ASSUME NEW op \in {"open", "fetch"}, queue = <<Item(op)>>
            PROVE  ClosePendingInv'
        <4>1. op \in Calls
          BY DEF Calls
        <4>2. CancelQueued = <<Dead(op)>>
          BY <3>2, <4>1, CancelQueuedFacts
        <4>3. queue' = <<Dead(op), Item("close")>>
          BY <1>6, <4>2, QueueFacts DEF CallCancelled, SubmitClose
        <4>4. running = "none" /\ phase \in {"created", "ready"}
          BY <2>1, <3>2, QueueFacts
        <4> QED  BY <2>2, <4>3, <4>4 DEF ClosePendingInv
      <3> QED  BY <2>1, <3>1, <3>2
    <2> QED  BY <2>1, <2>2, <2>3 DEF ThreadInv, CloseDone
  <1>7. CASE CloseReturns \/ CloseCancelled
    BY <1>7 DEF CloseReturns, CloseCancelled, ThreadInv, ClosePendingInv, Idle,
                CloseDone
  <1>8. CASE Shutdown
    BY <1>8 DEF Shutdown, ThreadInv, OpeningInv, FetchingInv, ClosePendingInv,
                InCall, Unstarted, Idle, CloseDone
  <1> QED  BY <1>1, <1>2, <1>3, <1>4, <1>5, <1>6, <1>7, <1>8 DEF Loop

(* The consumer makes the coroutine submit a call only when none is pending. *)
LEMMA ConsumerThread == IInv /\ Consumer => ThreadInv'
  <1> SUFFICES ASSUME IInv, Consumer PROVE ThreadInv'
    OBVIOUS
  <1> USE DEF IInv, coVars, deliveryVars, threadVars, readerVars
  <1>1. CASE Start
    <2>1. Unstarted /\ queue' = <<Item("open")>>
      BY <1>1, QueueFacts DEF Start, Call, ThreadInv, Unstarted, Idle
    <2> QED  BY <1>1, <2>1 DEF Start, Call, ThreadInv, OpeningInv, InCall, Unstarted,
                               Idle, CloseDone
  <1>2. CASE CloseUnstarted
    BY <1>2 DEF CloseUnstarted, ThreadInv, Unstarted, Idle, CloseDone
  <1>3. CASE NextRequested
    <2>1. Idle /\ phase = "ready" /\ closeFuture = "none" /\ UNCHANGED phase
          /\ call = "rows"
      BY <1>3 DEF NextRequested, ThreadInv
    <2>2. CASE UNCHANGED <<co, threadVars>>
      BY <1>3, <2>1, <2>2 DEF NextRequested, ThreadInv, Idle, CloseDone
    <2>3. CASE Call("fetch", "fetching")
      <3>1. queue' = <<Item("fetch")>>
        BY <2>1, <2>3, QueueFacts DEF Call, Idle
      <3> QED  BY <2>1, <2>3, <3>1
               DEF Call, ThreadInv, FetchingInv, InCall, Idle, CloseDone
    <2> QED  BY <1>3, <2>2, <2>3 DEF NextRequested
  <1>4. CASE CloseRequested
    BY <1>4, FinallyThread DEF CloseRequested, ThreadInv
  <1>5. CASE RequestCancel \/ Abandon \/ LoopCloses
    BY <1>5 DEF RequestCancel, Abandon, LoopCloses, ThreadInv, OpeningInv,
                FetchingInv, ClosePendingInv, InCall, Unstarted, Idle, CloseDone
  <1> QED  BY <1>1, <1>2, <1>3, <1>4, <1>5 DEF Consumer

-----------------------------------------------------------------------------
(* The connection and the rows *)

(* The connection is open from _open to _close. *)
LEMMA ConnPreserved == IInv /\ Next => ConnInv'
  <1> SUFFICES ASSUME IInv, Next PROVE ConnInv'
    OBVIOUS
  <1> USE DEF IInv, ConnInv, coVars, deliveryVars, threadVars, readerVars
  <1>1. CASE WorkerStarts
    BY <1>1 DEF WorkerStarts, StartOpen, StartFetch, StartClose
  <1>2. CASE WorkerConnects \/ WorkerReleases
    BY <1>2 DEF WorkerConnects, WorkerReleases, Connect, Release
  <1>3. CASE WorkerFinishes
    BY <1>3 DEF WorkerFinishes, FinishOpen, FinishFetch, FinishClose
  <1>4. CASE UNCHANGED <<phase, conn>>
    BY <1>4
  <1> QED
    BY <1>1, <1>2, <1>3, <1>4
    DEF Next, Worker, Loop, Consumer, WorkerSkips, OpenReturns, CallRaises,
        BatchReturns, ResultEnds, CallCancelled, FinalizerRuns, CloseReturns,
        CloseCancelled, Shutdown, Start, CloseUnstarted, NextRequested,
        CloseRequested, RequestCancel, Abandon, LoopCloses

(* Only a running _fetch moves the reader, and then the consumer has caught
   up with it. *)
LEMMA WorkerData == IInv /\ Worker => DataInv'
  <1> SUFFICES ASSUME IInv, Worker PROVE DataInv'
    OBVIOUS
  <1> USE DEF IInv, DataInv, coVars, deliveryVars, threadVars, readerVars
  <1>0. Covered' = Covered /\ UNCHANGED <<co, batch>>
    BY CoveredUnchanged DEF Worker, WorkerSkips, WorkerStarts, WorkerConnects,
                            WorkerReleases, WorkerFinishes
  <1>1. CASE WorkerSkips
    BY <1>0, <1>1 DEF WorkerSkips
  <1>2. CASE WorkerStarts
    <2>1. running' = "fetch" => co = "fetching" /\ call = "pending"
      BY <1>2, ItemFacts, QueueFacts
      DEF WorkerStarts, StartFetch, ThreadInv, OpeningInv, FetchingInv,
          ClosePendingInv, InCall, Unstarted, Idle, CloseDone, Calls, TypeOK,
          CoStates
    <2> QED  BY <1>0, <1>2, <2>1
             DEF WorkerStarts, StartOpen, StartFetch, StartClose
  <1>3. CASE WorkerConnects \/ WorkerReleases
    BY <1>0, <1>3 DEF WorkerConnects, WorkerReleases, Connect, Release
  <1>4. CASE WorkerFinishes
    <2>1. CASE running = "open" /\ FinishOpen
      BY <1>0, <1>4, <2>1 DEF WorkerFinishes, FinishOpen, Answer
    <2>2. CASE running = "close" /\ FinishClose
      BY <1>0, <1>4, <2>2 DEF WorkerFinishes, FinishClose, Answer
    <2>3. CASE running = "fetch" /\ FinishFetch
      <3>1. Covered = served /\ served \in Nat
        BY <2>3, Constants DEF TypeOK, ReaderTypeOK
      <3>2. served' \in Nat /\ served <= served' /\ served' <= served + MaxBatch
            /\ (phase' = "eof" => served' = served /\ served' = Rows)
        BY <2>3, <3>1, Constants DEF FinishFetch
      <3>3. co \notin {"new", "opening", "yielded"}
        BY <2>3 DEF ThreadInv, OpeningInv, InCall, Unstarted, Idle
      <3>4. running' = "none" /\ call' # "pending"
        BY <1>4, <2>3 DEF WorkerFinishes, Answer, FinishFetch
      <3> QED  BY <1>0, <3>1, <3>2, <3>3, <3>4
    <2> QED  BY <1>4, <2>1, <2>2, <2>3 DEF WorkerFinishes
  <1> QED  BY <1>1, <1>2, <1>3, <1>4 DEF Worker

(* A yield takes the next rows of the batch that was fetched last. *)
LEMMA YieldData ==
    ASSUME IInv, NEW b \in Slices, b.from = Covered, b.upto = served,
           YieldSlice(b), co' = "yielded", phase = "ready", running = "none",
           UNCHANGED <<served, phase, running>>
    PROVE  DataInv' /\ RowsInOrder'
  <1>1. /\ Covered' = batch'.from /\ batch'.upto = served
        /\ batch'.from <= served /\ Covered < Covered' /\ RowsInOrder'
        /\ slices' \in Seq(Slices)
    BY YieldSliceFacts DEF IInv, TypeOK
  <1>2. Covered \in 0..Rows /\ served \in 0..Rows
    BY CoveredInRange DEF IInv, TypeOK, ReaderTypeOK
  <1>3. Covered' \in 0..Rows
    BY <1>1, YieldSliceFacts DEF IInv, TypeOK, Slices
  <1> QED  BY <1>1, <1>2, <1>3, Constants DEF IInv, DataInv

(* The coroutine and the consumer: every batch is yielded before the next one
   is asked for. *)
LEMMA CoroutineData == IInv /\ (Loop \/ Consumer) => DataInv' /\ RowsInOrder'
  <1> SUFFICES ASSUME IInv, Loop \/ Consumer PROVE DataInv' /\ RowsInOrder'
    OBVIOUS
  <1> USE DEF IInv, coVars, deliveryVars, threadVars, readerVars
  <1>0. UNCHANGED <<slices, served>> => RowsInOrder' /\ Covered' = Covered
    BY CoveredUnchanged DEF RowsInOrder
  <1>1. CASE BatchReturns
    <2> DEFINE b == [from |-> batch.upto, upto |-> served]
    <2>1. b \in Slices /\ b.from = batch.upto /\ b.upto = served
      BY DEF Slices, TypeOK, ReaderTypeOK
    <2>2. /\ b.from = Covered /\ phase = "ready" /\ running = "none"
          /\ UNCHANGED <<served, phase, running>>
      BY <1>1 DEF BatchReturns, DataInv, ThreadInv, FetchingInv, Idle, Call
    <2>3. CASE YieldSlice(b) /\ co' = "yielded"
      BY <2>1, <2>2, <2>3, YieldData
    <2>4. CASE b.from = b.upto /\ batch' = b /\ Call("fetch", "fetching")
               /\ UNCHANGED slices
      <3>1. co' = "fetching"
        BY <2>4 DEF Call
      <3> QED  BY <1>0, <2>1, <2>2, <2>4, <3>1 DEF DataInv
    <2> QED  BY <1>1, <2>3, <2>4 DEF BatchReturns
  <1>2. CASE NextRequested
    <2>1. /\ batch.from = Covered /\ batch.upto = served /\ phase = "ready"
          /\ running = "none" /\ batch \in Slices
          /\ UNCHANGED <<served, phase, running>>
      BY <1>2 DEF NextRequested, DataInv, ThreadInv, Idle, Call, TypeOK
    <2>2. CASE YieldSlice(batch) /\ UNCHANGED co
      BY <1>2, <2>1, <2>2, YieldData DEF NextRequested
    <2>3. CASE ~(batch.from < batch.upto) /\ Call("fetch", "fetching")
               /\ UNCHANGED deliveryVars
      <3>1. Covered = served
        BY <2>1, <2>3 DEF DataInv, TypeOK, ReaderTypeOK, Slices
      <3> QED  BY <1>0, <2>1, <2>3, <3>1 DEF DataInv, Call
    <2> QED  BY <1>2, <2>2, <2>3 DEF NextRequested
  <1>3. CASE OpenReturns
    <2>1. served = 0 /\ batch.upto = 0 /\ Covered <= served /\ phase = "ready"
          /\ running = "none"
      BY <1>3 DEF OpenReturns, DataInv, ThreadInv, OpeningInv, Idle
    <2>2. Covered = 0
      BY <2>1, CoveredInRange DEF TypeOK
    <2> QED  BY <1>0, <1>3, <2>1, <2>2, Constants DEF OpenReturns, Call, DataInv
  <1>4. CASE Start
    BY <1>0, <1>4 DEF Start, Call, DataInv
  <1>5. CASE CallRaises \/ ResultEnds \/ FinalizerRuns \/ CallCancelled
             \/ CloseRequested
    BY <1>0, <1>5 DEF CallRaises, ResultEnds, FinalizerRuns, CallCancelled,
                      CloseRequested, Finally, SubmitClose, DataInv
  <1>6. CASE CloseReturns \/ CloseCancelled \/ Shutdown \/ CloseUnstarted
             \/ RequestCancel \/ Abandon \/ LoopCloses
    BY <1>0, <1>6 DEF CloseReturns, CloseCancelled, Shutdown, CloseUnstarted,
                      RequestCancel, Abandon, LoopCloses, DataInv
  <1> QED  BY <1>1, <1>2, <1>3, <1>4, <1>5, <1>6 DEF Loop, Consumer

-----------------------------------------------------------------------------
(* How the reading ends *)

Ending == FailInv /\ CompleteAtEnd /\ FailureReported

(* The worker's answer to a call nobody waits for changes nothing. *)
LEMMA WorkerEnding == IInv /\ Worker => Ending'
  <1> SUFFICES ASSUME IInv, Worker PROVE Ending'
    OBVIOUS
  <1> USE DEF IInv, coVars, deliveryVars, threadVars, readerVars
  <1>0. Covered' = Covered /\ UNCHANGED <<co, failure, outcome>>
    BY CoveredUnchanged DEF Worker, WorkerSkips, WorkerStarts, WorkerConnects,
                            WorkerReleases, WorkerFinishes
  <1>1. co \in {"closing", "done"} => UNCHANGED call
    BY DEF Worker, WorkerSkips, WorkerStarts, WorkerConnects, WorkerReleases,
           WorkerFinishes, Answer, ThreadInv
  <1>2. CloseDone => UNCHANGED closeFuture
    BY DEF Worker, WorkerSkips, WorkerStarts, WorkerConnects, WorkerReleases,
           WorkerFinishes, Answer, ThreadInv, Idle
  <1>3. closeFuture = "none" => UNCHANGED closeFuture
    BY DEF Worker, WorkerSkips, WorkerStarts, WorkerConnects, WorkerReleases,
           WorkerFinishes, Answer, ThreadInv, OpeningInv, FetchingInv, InCall,
           Unstarted, Idle, TypeOK, CoStates
  <1>4. FailInv' /\ CompleteAtEnd'
    BY <1>0, <1>1, <1>2, <1>3 DEF FailInv, CompleteAtEnd, CloseDone
  <1>5. FailureReported'
    BY <1>0, <1>1, <1>2, <1>3 DEF FailInv, FailureReported, ThreadInv, Unstarted
  <1> QED  BY <1>4, <1>5 DEF Ending

(* The reason for the close is kept, and the close only adds to it. *)
LEMMA CoroutineEnding == IInv /\ (Loop \/ Consumer) => Ending'
  <1> SUFFICES ASSUME IInv, Loop \/ Consumer PROVE Ending'
    OBVIOUS
  <1> USE DEF IInv, Ending, coVars, deliveryVars, threadVars, readerVars
  <1>0. UNCHANGED slices => Covered' = Covered
    BY CoveredUnchanged
  <1>1. CASE OpenReturns \/ BatchReturns \/ NextRequested \/ Start
    <2>1. co' \in {"opening", "fetching", "yielded"} /\ outcome' = "none"
      BY <1>1 DEF OpenReturns, BatchReturns, NextRequested, Start, Call, FailInv
    <2> QED  BY <2>1 DEF FailInv, CompleteAtEnd, FailureReported
  <1>2. CASE CallRaises \/ ResultEnds \/ FinalizerRuns \/ CallCancelled
             \/ CloseRequested
    <2>1. co' = "closing" /\ outcome' = "none"
      BY <1>2 DEF CallRaises, ResultEnds, FinalizerRuns, CallCancelled,
                  CloseRequested, Finally, SubmitClose, FailInv
    <2>2. /\ failure' = "error" <=> call' = "error"
          /\ failure' = "none" <=> call' = "end"
      BY <1>2 DEF CallRaises, ResultEnds, FinalizerRuns, CallCancelled,
                  CloseRequested, Finally, ThreadInv
    <2>3. failure' = "none" => Covered' = Rows
      BY <1>0, <1>2 DEF CallRaises, ResultEnds, FinalizerRuns, CallCancelled,
                        CloseRequested, Finally, ThreadInv, FetchingInv, DataInv
    <2> QED  BY <2>1, <2>2, <2>3 DEF FailInv, CompleteAtEnd, FailureReported
  <1>3. CASE CloseReturns
    BY <1>0, <1>3 DEF CloseReturns, EndOf, FailInv, CompleteAtEnd, FailureReported,
                      CloseDone, TypeOK, Failures
  <1>4. CASE CloseCancelled
    BY <1>4 DEF CloseCancelled, FailInv, CompleteAtEnd, FailureReported
  <1>5. CASE CloseUnstarted
    BY <1>5 DEF CloseUnstarted, FailInv, CompleteAtEnd, FailureReported, ThreadInv,
                Unstarted
  <1>6. CASE Shutdown \/ RequestCancel \/ Abandon \/ LoopCloses
    BY <1>0, <1>6 DEF Shutdown, RequestCancel, Abandon, LoopCloses, FailInv,
                      CompleteAtEnd, FailureReported, CloseDone
  <1> QED  BY <1>1, <1>2, <1>3, <1>4, <1>5, <1>6 DEF Loop, Consumer

-----------------------------------------------------------------------------
(* Theorems *)

(* Stuttering preserves the inductive invariant. *)
LEMMA StutterPreserves == IInv /\ UNCHANGED vars => IInv'
  <1> SUFFICES ASSUME IInv, UNCHANGED vars PROVE IInv'
    OBVIOUS
  <1> USE DEF IInv, vars, coVars, deliveryVars, threadVars, readerVars
  <1>1. TypeOK'
    BY DEF TypeOK, ReaderTypeOK
  <1>2. ThreadInv'
    BY DEF ThreadInv, OpeningInv, FetchingInv, ClosePendingInv, InCall, Unstarted,
           Idle, CloseDone
  <1>3. ConnInv' /\ DataInv' /\ RowsInOrder'
    BY CoveredUnchanged DEF ConnInv, DataInv, RowsInOrder
  <1>4. FailInv' /\ CompleteAtEnd' /\ FailureReported'
    BY CoveredUnchanged DEF FailInv, CompleteAtEnd, FailureReported, CloseDone
  <1> QED  BY <1>1, <1>2, <1>3, <1>4

(* The invariant behind the theorems: for each suspension of the coroutine the
   calls that can be queued, running or answered, and the rows that have been
   fetched and yielded. *)
THEOREM IInvHolds == Spec => []IInv
  <1>1. IInv /\ Worker => IInv'
    <2>1. IInv /\ Worker => RowsInOrder'
      BY DEF IInv, Worker, WorkerSkips, WorkerStarts, WorkerConnects,
             WorkerReleases, WorkerFinishes, deliveryVars, RowsInOrder
    <2> QED  BY <2>1, WorkerTypes, WorkerThread, ConnPreserved, WorkerData,
                WorkerEnding DEF IInv, Next, Ending
  <1>2. IInv /\ (Loop \/ Consumer) => IInv'
    BY LoopTypes, ConsumerTypes, LoopThread, ConsumerThread, ConnPreserved,
       CoroutineData, CoroutineEnding DEF IInv, Next, Ending
  <1>3. IInv /\ [Next]_vars => IInv'
    BY <1>1, <1>2, StutterPreserves DEF Next
  <1> QED  BY <1>3, InitIInv, PTL DEF Spec

(* The state of the coroutine, of TaskThread and of the reader keeps its type. *)
THEOREM TypeCorrect == Spec => []TypeOK
  BY IInvHolds, PTL DEF IInv

(* No connection is leaked: however the reading ends and however often it is
   cancelled meanwhile, an open connection has its close queued or running. *)
THEOREM ConnectionNeverLeaked == Spec => []NoLeak
  <1>1. IInv => NoLeak
    <2> SUFFICES ASSUME IInv, conn = "open", co \in {"closing", "done"}
                 PROVE  running = "close" \/ Queued("close")
      BY DEF NoLeak
    <2>1. closeFuture = "pending"
      BY DEF IInv, ThreadInv, ConnInv, CloseDone, Unstarted, TypeOK
    <2>2. ClosePendingInv
      BY <2>1 DEF IInv, ThreadInv
    <2>3. CASE \E op \in {"open", "fetch"} : queue = <<Dead(op), Item("close")>>
      <3>1. DOMAIN queue = 1..2 /\ queue[2] = Item("close")
        BY <2>3
      <3> QED  BY <3>1 DEF Queued, Item
    <2>4. CASE queue = <<Item("close")>>
      <3>1. DOMAIN queue = 1..1 /\ queue[1] = Item("close")
        BY <2>4
      <3> QED  BY <3>1 DEF Queued, Item
    <2> QED  BY <2>2, <2>3, <2>4 DEF ClosePendingInv
  <1> QED  BY <1>1, IInvHolds, PTL

(* _close is the last call of the thread, and the executor is shut down only
   when the thread has nothing left to do. *)
THEOREM NothingBehindClose == Spec => []CloseIsLast
  <1>1. IInv => CloseIsLast
    BY DEF IInv, CloseIsLast, ThreadInv, OpeningInv, FetchingInv, ClosePendingInv,
           InCall, Unstarted, Idle, CloseDone, ConnInv, TypeOK, CoStates
  <1> QED  BY <1>1, IInvHolds, PTL

(* _open, _fetch and _close reach the reader in the order they are made for. *)
THEOREM ReaderCalledInOrder == Spec => []CallsInOrder
  <1>1. IInv => CallsInOrder
    <2> SUFFICES ASSUME IInv, running = "none", queue # << >>, ~Head(queue).dead
                 PROVE  \/ Head(queue).op = "open" /\ phase = "created"
                        \/ Head(queue).op = "fetch" /\ phase = "ready"
                        \/ /\ Head(queue).op = "close"
                           /\ phase \in {"created", "ready", "eof", "broken"}
      BY DEF CallsInOrder
    <2>1. \A op \in Calls : \A x : queue # <<Dead(op), x>>
      BY ItemFacts, QueueFacts
    <2>2. \/ queue = <<Item("open")>> /\ phase = "created"
          \/ queue = <<Item("fetch")>> /\ phase = "ready"
          \/ /\ queue = <<Item("close")>>
             /\ phase \in {"created", "ready", "eof", "broken"}
      BY <2>1 DEF IInv, ThreadInv, OpeningInv, FetchingInv, ClosePendingInv, InCall,
                  Unstarted, Idle, CloseDone, TypeOK, CoStates, Calls
    <2> QED  BY <2>2, ItemFacts, QueueFacts DEF Calls
  <1> QED  BY <1>1, IInvHolds, PTL

(* The consumer gets consecutive slices from the first row on. *)
THEOREM SlicesInOrder == Spec => []RowsInOrder
  BY IInvHolds, PTL DEF IInv

(* A generator that ends normally has delivered every row. *)
THEOREM EndIsComplete == Spec => []CompleteAtEnd
  BY IInvHolds, PTL DEF IInv

(* A failing close neither hides the failure of the query nor is hidden. *)
THEOREM FailuresReported == Spec => []FailureReported
  BY IInvHolds, PTL DEF IInv

(* Nothing is fetched ahead of the consumer. *)
THEOREM FetchesOnDemand == Spec => []DemandDriven
  <1>1. IInv => DemandDriven
    <2> SUFFICES ASSUME IInv PROVE DemandDriven
      OBVIOUS
    <2>1. Covered \in 0..Rows /\ served \in 0..Rows
      BY CoveredInRange DEF IInv, TypeOK, ReaderTypeOK
    <2>2. served - Covered <= MaxBatch
      BY <2>1, Constants DEF IInv, DataInv
    <2>3. Queued("fetch") => co = "fetching" /\ call = "pending"
      <3> SUFFICES ASSUME NEW i \in DOMAIN queue, queue[i].op = "fetch",
                          ~queue[i].dead
                   PROVE  co = "fetching" /\ call = "pending"
        BY DEF Queued
      <3>1. queue # << >>
        OBVIOUS
      <3>2. queue # <<Item("open")>> /\ queue # <<Item("close")>>
        BY DEF Item
      <3>3. \A op : queue # <<Dead(op), Item("close")>>
        BY DEF Item, Dead
      <3> QED  BY <3>1, <3>2, <3>3
               DEF IInv, ThreadInv, OpeningInv, FetchingInv, ClosePendingInv,
                   InCall, Unstarted, Idle, CloseDone, TypeOK, CoStates
    <2> QED  BY <2>2, <2>3 DEF IInv, DataInv, DemandDriven
  <1> QED  BY <1>1, IInvHolds, PTL

-----------------------------------------------------------------------------
(* The safety part of ReadSession *)

(* Initial states map to initial states of the abstract specification. *)
LEMMA InitRefines == Init => Session!Init
  BY DEF Init, ReaderInit, DeliveryInit, Session!Init, Stage, Resource, Covered

(* The worker acquires and releases, also when the coroutine has gone. *)
LEMMA WorkerRefines ==
    ASSUME IInv, Worker
    PROVE  [Session!Next]_(Session!vars)
  <1> USE DEF Session!Next, Session!vars, coVars, deliveryVars, threadVars, readerVars
  <1>0. UNCHANGED <<co, outcome>> /\ Covered' = Covered /\ Stage' = Stage
    BY CoveredUnchanged DEF Worker, WorkerSkips, WorkerStarts, WorkerConnects,
                            WorkerReleases, WorkerFinishes, Stage
  <1>1. CASE WorkerConnects
    <2>1. phase = "opening" /\ running = "open" /\ conn = "none" /\ conn' = "open"
      BY <1>1 DEF WorkerConnects, Connect
    <2>2. co # "new" /\ (co = "done" => outcome = "cancelled")
      BY <2>1 DEF IInv, ThreadInv, FailInv, Unstarted, Idle, CloseDone
    <2> QED  BY <1>0, <2>1, <2>2 DEF Stage, Resource, Session!Acquire, IInv, TypeOK,
                                     CoStates
  <1>2. CASE WorkerReleases
    <2>1. running = "close" /\ conn = "open" /\ conn' = "released"
      BY <1>2 DEF WorkerReleases, Release
    <2>2. co \in {"closing", "done"}
      BY <2>1 DEF IInv, TypeOK, CoStates, ThreadInv, OpeningInv, FetchingInv, InCall,
                  Unstarted, Idle
    <2> QED  BY <1>0, <2>1, <2>2 DEF Stage, Resource, Session!Release
  <1>3. CASE WorkerSkips \/ WorkerStarts \/ WorkerFinishes
    <2>1. UNCHANGED conn
      BY <1>3 DEF WorkerSkips, WorkerStarts, WorkerFinishes, StartOpen, StartFetch,
                  StartClose, FinishOpen, FinishFetch, FinishClose
    <2> QED  BY <1>0, <2>1 DEF Resource
  <1> QED  BY <1>1, <1>2, <1>3 DEF Worker

(* A yield hands over further rows while the connection is held. *)
LEMMA YieldRefines ==
    ASSUME IInv, NEW b \in Slices, b.from = Covered, YieldSlice(b),
           co \in {"fetching", "yielded"}, co' = "yielded", phase = "ready",
           UNCHANGED <<outcome, conn>>
    PROVE  Session!Deliver
  <1>1. Covered < Covered' /\ Covered' \in 0..Rows /\ Covered \in 0..Rows
    BY YieldSliceFacts, CoveredInRange DEF IInv, TypeOK, Slices
  <1>2. Covered' \in (Covered + 1)..Rows
    BY <1>1, Constants
  <1> QED  BY <1>2 DEF IInv, ConnInv, Stage, Resource, Session!Deliver

(* Steps of the coroutine and the consumer are steps of the read session. *)
LEMMA CoroutineRefines ==
    ASSUME IInv, Loop \/ Consumer
    PROVE  [Session!Next]_(Session!vars)
  <1> USE DEF Session!Next, Session!vars, coVars, deliveryVars, threadVars, readerVars
  <1>0. UNCHANGED conn
    BY DEF Loop, Consumer, Start, CloseUnstarted, OpenReturns, CallRaises,
           BatchReturns, ResultEnds, CallCancelled, NextRequested, CloseRequested,
           FinalizerRuns, CloseReturns, CloseCancelled, Shutdown, RequestCancel,
           Abandon, LoopCloses
  <1>1. CASE Start
    BY <1>0, <1>1, CoveredUnchanged DEF Start, Call, Stage, Resource, Session!Begin
  <1>2. CASE CloseUnstarted
    BY <1>0, <1>2, CoveredUnchanged
    DEF CloseUnstarted, Stage, Resource, Session!NeverBegun
  <1>3. CASE OpenReturns
    BY <1>0, <1>3, CoveredUnchanged DEF OpenReturns, Call, Stage, Resource
  <1>4. CASE BatchReturns
    <2> DEFINE b == [from |-> batch.upto, upto |-> served]
    <2>1. b \in Slices /\ b.from = Covered /\ phase = "ready"
      BY <1>4 DEF BatchReturns, IInv, TypeOK, ReaderTypeOK, Slices, DataInv,
                  ThreadInv, FetchingInv
    <2>2. CASE YieldSlice(b) /\ co' = "yielded"
      BY <1>0, <1>4, <2>1, <2>2, YieldRefines DEF BatchReturns
    <2>3. CASE Call("fetch", "fetching") /\ UNCHANGED slices
      BY <1>0, <1>4, <2>3, CoveredUnchanged DEF BatchReturns, Call, Stage, Resource
    <2> QED  BY <1>4, <2>2, <2>3 DEF BatchReturns
  <1>5. CASE NextRequested
    <2>1. batch \in Slices /\ batch.from = Covered /\ phase = "ready"
      BY <1>5 DEF NextRequested, IInv, TypeOK, DataInv, ThreadInv
    <2>2. CASE YieldSlice(batch) /\ UNCHANGED co
      BY <1>0, <1>5, <2>1, <2>2, YieldRefines DEF NextRequested
    <2>3. CASE Call("fetch", "fetching") /\ UNCHANGED deliveryVars
      BY <1>0, <1>5, <2>3, CoveredUnchanged DEF NextRequested, Call, Stage, Resource
    <2> QED  BY <1>5, <2>2, <2>3 DEF NextRequested
  <1>6. CASE CallRaises \/ ResultEnds \/ CallCancelled \/ CloseRequested
             \/ FinalizerRuns
    BY <1>0, <1>6, CoveredUnchanged
    DEF CallRaises, ResultEnds, CallCancelled, CloseRequested, FinalizerRuns,
        Finally, SubmitClose, Stage, Resource, Session!GiveUp
  <1>7. CASE CloseReturns
    <2>1. conn # "open"
      BY <1>7 DEF CloseReturns, IInv, ThreadInv, ConnInv
    <2>2. /\ outcome' \in Session!Results \ {"none"}
          /\ outcome' \in {"end", "close_error"} => Covered = Rows
      BY <1>7 DEF CloseReturns, EndOf, IInv, FailInv, TypeOK, Failures,
                  Session!Results
    <2>3. Stage = "ending" /\ Stage' = "over"
      BY <1>7 DEF CloseReturns, Stage
    <2>4. Resource' = Resource /\ Resource # "held" /\ Covered' = Covered
      BY <1>0, <1>7, <2>1, CoveredUnchanged
      DEF CloseReturns, Resource, IInv, TypeOK, ReaderTypeOK, ConnStates
    <2> QED  BY <2>2, <2>3, <2>4 DEF Session!Finish
  <1>8. CASE CloseCancelled
    BY <1>0, <1>8, CoveredUnchanged
    DEF CloseCancelled, Stage, Resource, Session!Finish, Session!Results
  <1>9. CASE Shutdown \/ RequestCancel \/ Abandon \/ LoopCloses
    BY <1>0, <1>9, CoveredUnchanged
    DEF Shutdown, RequestCancel, Abandon, LoopCloses, Stage, Resource
  <1> QED  BY <1>1, <1>2, <1>3, <1>4, <1>5, <1>6, <1>7, <1>8, <1>9
           DEF Loop, Consumer

(* Both Doris transports keep the safety part of ReadSession. *)
THEOREM DorisRefinesReadSession == Spec => Session!SafetySpec
  <1>1. IInv /\ UNCHANGED vars => UNCHANGED Session!vars
    BY CoveredUnchanged
    DEF vars, coVars, deliveryVars, readerVars, Session!vars, Stage, Resource
  <1>2. IInv /\ [Next]_vars => [Session!Next]_(Session!vars)
    BY <1>1, WorkerRefines, CoroutineRefines DEF Next
  <1> QED  BY InitRefines, <1>2, IInvHolds, PTL DEF Spec, Session!SafetySpec
=============================================================================
