----------------------- MODULE ClickHouseStreamProofs -----------------------
(***************************************************************************)
(* Proofs about one ClickHouse read, for every result, every batch size    *)
(* and any number of cancellations, at whichever await they arrive: the    *)
(* stream is left before the client, the client is closed, rows come in    *)
(* order, and the read keeps the safety part of ReadSession.  Then about   *)
(* iter_batch_slices, which cuts the batches of every reader, for every    *)
(* batch, every limit and every byte layout that grows with the number of  *)
(* rows.                                                                   *)
(***************************************************************************)
EXTENDS ClickHouseStream, BatchSlicing, SharedLemmas

\* Which handles exist at each suspension of the coroutine
HandleInv ==
    /\ co \in {"new", "connecting"} => client = "none" /\ stream = "none"
    /\ co = "querying" => client = "open" /\ stream = "none"
    /\ co \in {"fetching", "yielded"} => client = "open" /\ stream = "open"
    /\ co = "exiting" => client = "open" /\ stream = "closing"
    /\ co = "closing" => client = "closing" /\ stream # "open"
    /\ co = "done" =>
          /\ stream # "open"
          /\ \/ client \in {"none", "released"}
             \/ client = "interrupted" /\ outcome = "cancelled"

\* Where the batch and the consumer stand in the result
DataInv ==
    /\ co \in {"new", "connecting", "querying"} => Covered = 0 /\ served = 0
    /\ co = "fetching" => Covered = served
    /\ co = "yielded" => /\ batch.from = Covered /\ batch.upto = served
                         /\ Covered <= served

\* The generator unwinds without a failure only at the end of the result
EndInv ==
    /\ co \in {"new", "connecting", "querying", "fetching", "yielded"}
          => failure = "none"
    /\ co # "done" => outcome = "none"
    /\ co \in {"exiting", "closing"} /\ failure = "none" => Covered = Rows

IInv == TypeOK /\ HandleInv /\ DataInv /\ EndInv /\ RowsInOrder

-----------------------------------------------------------------------------
(* Lemmas *)

(* Rows is a number, and slices are parts of a result of Rows rows. *)
LEMMA Constants ==
    /\ Rows \in Nat /\ MaxBatch \in Nat \ {0} /\ MaxCancels \in Nat
    /\ Slices = SlicesUpTo(Rows)
  BY ClickHouseAssumption DEF Slices, SlicesUpTo

(* The position of the consumer is a position in the result. *)
LEMMA CoveredInRange == TypeOK => Covered \in 0..Rows
  BY Constants, LastRowInRange DEF TypeOK, Covered, LastRow

(* What a yield of batch b up to row `served` does. *)
LEMMA YieldFacts ==
    ASSUME IInv, NEW b \in Slices, b.from = Covered, YieldSlice(b)
    PROVE  /\ slices' \in Seq(Slices) /\ batch' \in Slices
           /\ Covered' = batch'.from /\ batch'.upto = b.upto
           /\ Covered < Covered' /\ Covered' <= b.upto /\ Covered' \in 0..Rows
           /\ RowsInOrder'
  <1>1. PICK k \in 1..(b.upto - b.from) :
            /\ slices' = Append(slices, [from |-> b.from, upto |-> b.from + k])
            /\ batch' = [b EXCEPT !.from = b.from + k]
    BY DEF YieldSlice
  <1>2. Slices = SlicesUpTo(Rows) /\ Rows \in Nat
    BY Constants DEF Slices, SlicesUpTo
  <1>3. Consecutive(slices) /\ Covered = LastRow(slices) /\ slices \in Seq(Slices)
    BY DEF IInv, TypeOK, RowsInOrder, Consecutive, Covered, LastRow
  <1>4. /\ slices' \in Seq(Slices) /\ batch' \in Slices
        /\ Consecutive(slices') /\ LastRow(slices') = b.from + k
    BY <1>1, <1>2, <1>3, SliceFollows
  <1>5. RowsInOrder' /\ Covered' = b.from + k
    BY <1>4 DEF RowsInOrder, Consecutive, Covered, LastRow
  <1>6. /\ b.from \in 0..Rows /\ b.upto \in 0..Rows
        /\ batch'.from = b.from + k /\ batch'.upto = b.upto
    BY <1>1 DEF Slices
  <1> QED  BY <1>2, <1>4, <1>5, <1>6

(* Nothing of the delivery changes while nothing is yielded. *)
LEMMA NotYielded ==
    ASSUME IInv, UNCHANGED deliveryVars
    PROVE  /\ slices' \in Seq(Slices) /\ batch' \in Slices
           /\ Covered' = Covered /\ RowsInOrder'
  BY DEF IInv, TypeOK, deliveryVars, RowsInOrder, Covered

(* An exception unwinds exactly what has been entered. *)
LEMMA UnwindFacts ==
    ASSUME IInv, NEW reason \in Failures \ {"none"}, Unwind(reason),
           co \in {"connecting", "querying", "fetching", "yielded"}
    PROVE  /\ failure' = reason
           /\ \/ /\ co = "connecting" /\ co' = "done" /\ outcome' = reason
                 /\ UNCHANGED <<client, stream>>
              \/ /\ co = "querying" /\ co' = "closing" /\ client' = "closing"
                 /\ UNCHANGED <<outcome, stream>>
              \/ /\ co \in {"fetching", "yielded"} /\ co' = "exiting"
                 /\ stream' = "closing" /\ UNCHANGED <<outcome, client>>
  <1>1. CASE co = "connecting"
    BY <1>1 DEF Unwind, ConnectFails
  <1>2. CASE co = "querying"
    BY <1>2 DEF Unwind, Finally
  <1>3. CASE co \in {"fetching", "yielded"}
    BY <1>3 DEF Unwind, LeaveStream
  <1> QED  BY <1>1, <1>2, <1>3

-----------------------------------------------------------------------------
(* The inductive invariant *)

(* The inductive invariant holds initially. *)
LEMMA InitIInv == Init => IInv
  <1> SUFFICES ASSUME Init PROVE IInv
    OBVIOUS
  <1>1. batch \in Slices /\ slices \in Seq(Slices) /\ Covered = 0 /\ RowsInOrder
    BY Constants DEF Init, DeliveryInit, Slices, Covered, RowsInOrder
  <1>2. TypeOK
    <2>1. 0 \in 0..Rows /\ 0 \in 0..MaxCancels
      BY Constants
    <2> QED  BY <1>1, <2>1 DEF Init, TypeOK, CoStates, Failures, Outcomes, Handle
  <1> QED  BY <1>1, <1>2 DEF Init, IInv, HandleInv, DataInv, EndInv

(* What the event loop does by itself, up to the end of the result. *)
LEMMA ReadingPreserves ==
    ASSUME IInv, ClientReady \/ StreamReady \/ BatchArrives \/ ResultEnds
    PROVE  IInv'
  <1> USE DEF IInv, HandleInv, EndInv
  <1>1. CASE ClientReady \/ StreamReady
    <2>1. UNCHANGED deliveryVars
      BY <1>1 DEF ClientReady, StreamReady
    <2>2. TypeOK'
      BY <1>1, <2>1, NotYielded
      DEF ClientReady, StreamReady, TypeOK, CoStates, Handle
    <2>3. HandleInv' /\ DataInv' /\ EndInv'
      BY <1>1, <2>1, NotYielded DEF ClientReady, StreamReady, DataInv
    <2> QED  BY <2>1, <2>2, <2>3, NotYielded
  <1>2. CASE BatchArrives
    <2>1. PICK n \in 0..MaxBatch :
            /\ served + n <= Rows
            /\ served' = served + n
            /\ LET b == [from |-> served, upto |-> served + n]
               IN  IF n > 0 THEN YieldSlice(b) /\ co' = "yielded"
                   ELSE batch' = b /\ UNCHANGED <<slices, co>>
      BY <1>2 DEF BatchArrives
    <2> DEFINE b == [from |-> served, upto |-> served + n]
    <2>2. /\ b \in Slices /\ b.from = served /\ b.upto = served + n
          /\ served + n \in 0..Rows /\ co = "fetching" /\ b.from = Covered
      BY <1>2, <2>1, Constants DEF BatchArrives, TypeOK, Slices, DataInv
    <2>3. /\ slices' \in Seq(Slices) /\ batch' \in Slices /\ RowsInOrder'
          /\ \/ /\ co' = "yielded" /\ batch'.from = Covered' /\ batch'.upto = served'
                /\ Covered' <= served'
             \/ co' = "fetching" /\ Covered' = served'
      <3>1. CASE n > 0
        <4>1. YieldSlice(b) /\ co' = "yielded"
          BY <2>1, <3>1
        <4> QED  BY <2>1, <2>2, <4>1, YieldFacts
      <3>2. CASE ~(n > 0)
        <4>1. batch' = b /\ UNCHANGED slices /\ co' = "fetching"
          BY <2>1, <2>2, <3>2
        <4>2. Covered' = Covered /\ RowsInOrder' /\ served' = served
          BY <2>1, <3>2, <4>1, Constants DEF Covered, RowsInOrder, TypeOK
        <4> QED  BY <2>2, <4>1, <4>2 DEF TypeOK
      <3> QED  BY <3>1, <3>2
    <2>4. TypeOK'
      BY <1>2, <2>1, <2>2, <2>3 DEF BatchArrives, TypeOK, CoStates
    <2> QED  BY <1>2, <2>3, <2>4 DEF BatchArrives, DataInv
  <1>3. CASE ResultEnds
    <2>1. UNCHANGED deliveryVars /\ Covered = Rows
      BY <1>3 DEF ResultEnds, DataInv
    <2>2. TypeOK'
      BY <1>3, <2>1, NotYielded
      DEF ResultEnds, LeaveStream, TypeOK, CoStates, Handle, Failures
    <2> QED  BY <1>3, <2>1, <2>2, NotYielded DEF ResultEnds, LeaveStream, DataInv
  <1> QED  BY <1>1, <1>2, <1>3

(* An exception, a cancellation or a close unwinds the generator. *)
LEMMA UnwindingPreserves ==
    ASSUME IInv, CallRaises \/ CallCancelled \/ CloseRequested \/ FinalizerRuns
    PROVE  IInv'
  <1> USE DEF IInv
  <1>1. PICK reason \in Failures \ {"none"} : Unwind(reason)
    BY DEF CallRaises, CallCancelled, CloseRequested, FinalizerRuns, Failures
  <1>2. /\ co \in {"connecting", "querying", "fetching", "yielded"}
        /\ UNCHANGED deliveryVars /\ UNCHANGED <<cancels, abandoned, served>>
        /\ cancel' \in BOOLEAN
    BY DEF CallRaises, CallCancelled, CloseRequested, FinalizerRuns, TypeOK
  <1>3. TypeOK'
    BY <1>1, <1>2, UnwindFacts, NotYielded
    DEF TypeOK, CoStates, Handle, Failures, Outcomes
  <1>4. HandleInv'
    BY <1>1, <1>2, UnwindFacts DEF HandleInv
  <1>5. DataInv' /\ EndInv'
    BY <1>1, <1>2, UnwindFacts, NotYielded DEF DataInv, EndInv
  <1> QED  BY <1>2, <1>3, <1>4, <1>5, NotYielded

(* The stream is left and the client closed; either may be cut short. *)
LEMMA ClosingPreserves ==
    ASSUME IInv, StreamExits \/ StreamExitCancelled \/ CloseReturns \/ CloseCancelled
    PROVE  IInv'
  <1> USE DEF IInv
  <1>1. UNCHANGED deliveryVars
    BY DEF StreamExits, StreamExitCancelled, CloseReturns, CloseCancelled
  <1>2. TypeOK'
    <2>1. CASE StreamExits \/ StreamExitCancelled
      BY <1>1, <2>1, NotYielded
      DEF StreamExits, StreamExitCancelled, Finally, TypeOK, CoStates, Handle,
          Failures
    <2>2. CASE CloseReturns \/ CloseCancelled
      BY <1>1, <2>2, NotYielded
      DEF CloseReturns, CloseCancelled, EndOf, TypeOK, CoStates, Handle, Failures,
          Outcomes
    <2> QED  BY <2>1, <2>2
  <1>3. HandleInv'
    BY DEF StreamExits, StreamExitCancelled, CloseReturns, CloseCancelled, Finally,
           HandleInv
  <1>4. DataInv' /\ EndInv'
    BY <1>1, NotYielded
    DEF StreamExits, StreamExitCancelled, CloseReturns, CloseCancelled, Finally,
        DataInv, EndInv
  <1> QED  BY <1>1, <1>2, <1>3, <1>4, NotYielded

(* What the consumer asks for preserves the invariant, and so does stuttering. *)
LEMMA ConsumerPreserves == IInv /\ (Consumer \/ UNCHANGED vars) => IInv'
  <1> SUFFICES ASSUME IInv, Consumer \/ UNCHANGED vars PROVE IInv'
    OBVIOUS
  <1> USE DEF IInv
  <1>1. CASE Start \/ CloseUnstarted \/ RequestCancel \/ Abandon \/ UNCHANGED vars
    <2> USE DEF Start, CloseUnstarted, RequestCancel, Abandon, vars, coVars
    <2>1. UNCHANGED deliveryVars
      BY <1>1
    <2>2. cancels' \in 0..MaxCancels
      BY <1>1, Constants DEF TypeOK
    <2>3. TypeOK'
      BY <1>1, <2>1, <2>2, NotYielded DEF TypeOK, CoStates, Outcomes, Failures
    <2>4. Covered' = Covered /\ UNCHANGED served /\ UNCHANGED batch
      BY <1>1, <2>1, NotYielded DEF deliveryVars
    <2>5. HandleInv'
      BY <1>1 DEF HandleInv
    <2>6. DataInv' /\ EndInv'
      BY <1>1, <2>4 DEF DataInv, EndInv
    <2> QED  BY <2>1, <2>3, <2>5, <2>6, NotYielded
  <1>2. CASE NextRequested
    <2>1. /\ batch \in Slices /\ batch.from = Covered /\ batch.upto = served
          /\ Covered <= served
      BY <1>2 DEF NextRequested, DataInv, TypeOK
    <2>2. CASE YieldSlice(batch) /\ UNCHANGED co
      BY <1>2, <2>1, <2>2, YieldFacts
      DEF NextRequested, TypeOK, HandleInv, DataInv, EndInv
    <2>3. CASE ~(batch.from < batch.upto) /\ co' = "fetching" /\ UNCHANGED deliveryVars
      <3>1. Covered = served
        BY <2>1, <2>3 DEF Slices
      <3> QED  BY <1>2, <2>3, <3>1, NotYielded
               DEF NextRequested, TypeOK, CoStates, HandleInv, DataInv, EndInv
    <2> QED  BY <1>2, <2>2, <2>3 DEF NextRequested
  <1>3. CASE CloseRequested
    BY <1>3, UnwindingPreserves
  <1> QED  BY <1>1, <1>2, <1>3 DEF Consumer

(* The inductive invariant holds of every read. *)
THEOREM IInvHolds == Spec => []IInv
  <1>1. IInv /\ [Next]_vars => IInv'
    BY ReadingPreserves, UnwindingPreserves, ClosingPreserves, ConsumerPreserves
    DEF Next, Loop, Consumer
  <1> QED  BY InitIInv, <1>1, PTL DEF Spec

-----------------------------------------------------------------------------
(* Results *)

(* The coroutine's state keeps its types. *)
THEOREM TypeCorrect == Spec => []TypeOK
  BY IInvHolds, PTL DEF IInv

(* Every client is closed on every path; only a cancellation of that close
   leaves it unfinished, and then the generator ends cancelled. *)
THEOREM ClientAlwaysClosed == Spec => []ClientClosed
  <1>1. IInv => ClientClosed
    BY DEF IInv, HandleInv, ClientClosed, StreamBeforeClient, TypeOK, CoStates
  <1> QED  BY <1>1, IInvHolds, PTL

(* The stream is left before the client is closed. *)
THEOREM StreamLeftFirst == Spec => []StreamBeforeClient
  <1>1. IInv => StreamBeforeClient
    BY DEF IInv, HandleInv, StreamBeforeClient, TypeOK, CoStates
  <1> QED  BY <1>1, IInvHolds, PTL

(* The consumer gets consecutive slices from the first row on. *)
THEOREM SlicesInOrder == Spec => []RowsInOrder
  BY IInvHolds, PTL DEF IInv

-----------------------------------------------------------------------------
(* The safety part of ReadSession *)

(* Initial states map to initial states of the abstract specification. *)
LEMMA InitRefines == Init => Session!Init
  BY DEF Init, DeliveryInit, Session!Init, Stage, Resource, Covered

(* Every step maps to a step of the abstract specification or to a stutter. *)
LEMMA StepRefines ==
    ASSUME IInv, [Next]_vars
    PROVE  [Session!Next]_(Session!vars)
  <1> USE DEF Session!Next, Session!vars
  <1>0. UNCHANGED deliveryVars => Covered' = Covered
    BY DEF deliveryVars, Covered
  <1>1. CASE Start
    BY <1>0, <1>1 DEF Start, Stage, Resource, Session!Begin
  <1>2. CASE CloseUnstarted
    BY <1>0, <1>2 DEF CloseUnstarted, Stage, Resource, Session!NeverBegun
  <1>3. CASE ClientReady
    BY <1>0, <1>3 DEF ClientReady, IInv, HandleInv, Stage, Resource, Session!Acquire
  <1>4. CASE StreamReady
    BY <1>0, <1>4 DEF StreamReady, IInv, HandleInv, Stage, Resource
  <1>5. ASSUME NEW b \in Slices, b.from = Covered, YieldSlice(b),
               co \in {"fetching", "yielded"}, co' = "yielded",
               UNCHANGED <<outcome, client>>
        PROVE  Session!Deliver
    <2>1. Covered < Covered' /\ Covered' \in 0..Rows /\ Covered \in 0..Rows
      BY <1>5, YieldFacts, CoveredInRange DEF IInv
    <2>2. Covered' \in (Covered + 1)..Rows
      BY <2>1, Constants
    <2> QED  BY <1>5, <2>2
             DEF IInv, HandleInv, Stage, Resource, Session!Deliver
  <1>6. CASE BatchArrives
    <2>1. PICK n \in 0..MaxBatch :
            /\ served + n <= Rows
            /\ LET b == [from |-> served, upto |-> served + n]
               IN  IF n > 0 THEN YieldSlice(b) /\ co' = "yielded"
                   ELSE batch' = b /\ UNCHANGED <<slices, co>>
      BY <1>6 DEF BatchArrives
    <2> DEFINE b == [from |-> served, upto |-> served + n]
    <2>2. b \in Slices /\ b.from = Covered
      BY <1>6, <2>1, Constants DEF BatchArrives, IInv, TypeOK, Slices, DataInv
    <2>3. CASE YieldSlice(b) /\ co' = "yielded"
      BY <1>5, <1>6, <2>2, <2>3 DEF BatchArrives
    <2>4. CASE UNCHANGED <<slices, co>>
      BY <1>6, <2>4 DEF BatchArrives, Stage, Resource, Covered
    <2> QED  BY <2>1, <2>3, <2>4
  <1>7. CASE NextRequested
    <2>1. CASE YieldSlice(batch) /\ UNCHANGED co
      BY <1>5, <1>7, <2>1 DEF NextRequested, IInv, DataInv, TypeOK
    <2>2. CASE co' = "fetching" /\ UNCHANGED deliveryVars
      BY <1>0, <1>7, <2>2 DEF NextRequested, Stage, Resource
    <2> QED  BY <1>7, <2>1, <2>2 DEF NextRequested
  <1>8. CASE ResultEnds
    BY <1>0, <1>8 DEF ResultEnds, LeaveStream, Stage, Resource, Session!GiveUp
  <1>9. CASE CallRaises \/ CallCancelled \/ CloseRequested \/ FinalizerRuns
    <2>1. PICK reason \in Failures \ {"none"} :
            Unwind(reason) /\ (co = "connecting" => reason \in {"error", "cancelled"})
      BY <1>9 DEF CallRaises, CallCancelled, CloseRequested, FinalizerRuns, Failures
    <2>2. co \in {"connecting", "querying", "fetching", "yielded"}
          /\ UNCHANGED deliveryVars
      BY <1>9 DEF CallRaises, CallCancelled, CloseRequested, FinalizerRuns
    <2>3. CASE co = "connecting"
      BY <1>0, <2>1, <2>2, <2>3, UnwindFacts
      DEF IInv, HandleInv, Stage, Resource, Session!FinishEmpty
    <2>4. CASE co = "querying"
      BY <1>0, <2>1, <2>2, <2>4, UnwindFacts
      DEF IInv, HandleInv, Stage, Resource, Session!GiveUp
    <2>5. CASE co \in {"fetching", "yielded"}
      BY <1>0, <2>1, <2>2, <2>5, UnwindFacts
      DEF IInv, HandleInv, Stage, Resource, Session!GiveUp
    <2> QED  BY <2>2, <2>3, <2>4, <2>5
  <1>10. CASE StreamExits \/ StreamExitCancelled
    BY <1>0, <1>10
    DEF StreamExits, StreamExitCancelled, Finally, IInv, HandleInv, Stage, Resource
  <1>11. CASE CloseReturns
    <2>1. Stage = "ending" /\ Stage' = "over" /\ Resource = "held"
          /\ Resource' = "released" /\ Covered' = Covered
      BY <1>0, <1>11 DEF CloseReturns, IInv, HandleInv, Stage, Resource
    <2>2. /\ outcome' \in Session!Results \ {"none"}
          /\ outcome' \in {"end", "close_error"} => Covered = Rows
      BY <1>11
      DEF CloseReturns, EndOf, IInv, EndInv, TypeOK, Failures, Session!Results
    <2> QED  BY <2>1, <2>2 DEF Session!Finish
  <1>12. CASE CloseCancelled
    BY <1>0, <1>12
    DEF CloseCancelled, IInv, HandleInv, Stage, Resource, Session!Finish,
        Session!Results
  <1>13. CASE RequestCancel \/ Abandon \/ UNCHANGED vars
    BY <1>0, <1>13 DEF RequestCancel, Abandon, vars, coVars, Stage, Resource
  <1> QED  BY <1>1, <1>2, <1>3, <1>4, <1>6, <1>7, <1>8, <1>9, <1>10, <1>11, <1>12,
              <1>13
           DEF Next, Loop, Consumer

(* A ClickHouse read implements the safety part of ReadSession. *)
THEOREM ClickHouseRefinesReadSession == Spec => ImplementsReadSession
  BY InitRefines, StepRefines, IInvHolds, PTL
  DEF Spec, ImplementsReadSession, Session!SafetySpec

-----------------------------------------------------------------------------
(* iter_batch_slices *)

\* The bisection keeps a size that fits below `low` and one that does not
\* above `high`; the first probe starts with neither.
SearchInv ==
    pc = "search" =>
        /\ offset < numRows
        /\ size \in 1..Upper
        /\ low \in 1..(high + 1)
        /\ high <= Upper
        /\ (low = 1 /\ size = 1) \/ (low = size + 1 /\ Fits(size))
        /\ high = Upper \/ ~Fits(high + 1)
        /\ ~Fits(Upper)

\* The size the search settled on is the largest one allowed
YieldInv ==
    pc = "yield" =>
        /\ offset < numRows
        /\ size \in 1..Upper
        /\ Fits(size) \/ size = 1
        /\ size = Upper \/ ~Fits(size + 1)

OffsetInv ==
    /\ offset <= numRows
    /\ offset = IF cuts = << >> THEN 0 ELSE cuts[Len(cuts)].upto
    /\ pc = "done" => offset = numRows

SlicesInRange ==
    \A i \in DOMAIN cuts : cuts[i].from <= cuts[i].upto /\ cuts[i].upto <= numRows

SlicingInv ==
    /\ SlicingTypeOK
    /\ nbytes \in Layouts
    /\ SearchInv
    /\ YieldInv
    /\ OffsetInv
    /\ SlicesInRange
    /\ WithinLimits
    /\ AsLargeAsAllowed
    /\ CoversBatch

-----------------------------------------------------------------------------
(* The limits are positive numbers (ResourceLimits validates them). *)
LEMMA Limits ==
    MaxRows \in Nat /\ BatchRows \in Nat \ {0} /\ BatchBytes \in Nat \ {0}
  BY SlicingAssumption

(* The loop variables of iter_batch_slices are row counts. *)
LEMMA Numbers ==
    ASSUME SlicingTypeOK
    PROVE  /\ offset \in Nat /\ numRows \in Nat /\ size \in Nat
           /\ low \in Nat /\ high \in Nat /\ numRows <= MaxRows
           /\ size \in Offsets
  BY Limits DEF SlicingTypeOK, Offsets

(* Which numbers are row counts of a batch. *)
LEMMA OffsetsAre == \A n : n \in Offsets <=> n \in Nat /\ n <= MaxRows
  BY Limits DEF Offsets

(* A history that is not empty has a last slice. *)
LEMMA NonEmpty ==
    ASSUME NEW S, NEW s \in Seq(S), s # << >>
    PROVE  Len(s) \in Nat \ {0} /\ Len(s) \in DOMAIN s
  OBVIOUS

(* min(batch_rows, rows left) is a usable slice length while rows are left. *)
LEMMA UpperInRange ==
    ASSUME SlicingTypeOK, offset < numRows
    PROVE  /\ Upper \in Offsets
           /\ Upper \in 1..BatchRows
           /\ offset + Upper <= numRows
           /\ Upper = BatchRows \/ offset + Upper = numRows
  BY SlicingAssumption DEF SlicingTypeOK, Upper, Offsets

(* A longer slice from the same row has at least as many bytes. *)
LEMMA FitsMonotone ==
    ASSUME SlicingTypeOK, nbytes \in Layouts,
           NEW m \in Offsets, NEW n \in Offsets, m <= n, Fits(n)
    PROVE  Fits(m)
  <1>1. nbytes[offset][m] <= nbytes[offset][n]
    BY SlicingAssumption DEF SlicingTypeOK
  <1>2. nbytes[offset][m] \in Nat /\ nbytes[offset][n] \in Nat
    BY DEF SlicingTypeOK
  <1> QED  BY <1>1, <1>2, SlicingAssumption DEF Fits

(* The midpoint of a non-empty interval lies in it. *)
LEMMA MiddleInRange ==
    ASSUME low \in Nat, high \in Nat, low <= high
    PROVE  Middle \in low..high
  BY DEF Middle

-----------------------------------------------------------------------------

(* The inductive invariant holds initially. *)
LEMMA SlicingInitially == SlicingInit => SlicingInv
  BY SlicingAssumption
  DEF SlicingInit, SlicingInv, SlicingTypeOK, SearchInv, YieldInv, OffsetInv, SlicesInRange,
      WithinLimits, AsLargeAsAllowed, CoversBatch, Offsets

(* Measuring the upper part either settles the size or starts the bisection. *)
LEMMA MeasurePreserves == SlicingInv /\ Measure => SlicingInv'
  <1> SUFFICES ASSUME SlicingInv, Measure PROVE SlicingInv'
    OBVIOUS
  <1> USE DEF SlicingInv
  <1>1. /\ Upper \in Offsets /\ Upper \in 1..BatchRows
        /\ Upper' = Upper /\ \A n : Fits(n)' <=> Fits(n)
    BY UpperInRange DEF Measure, Upper, Fits
  <1>2. SlicingTypeOK' /\ (nbytes \in Layouts)'
    <2>1. size' \in Offsets /\ low' \in Nat /\ high' \in Nat
          /\ pc' \in {"search", "yield"}
      BY <1>1, OffsetsAre, Numbers, Limits DEF Measure
    <2> QED  BY <2>1 DEF SlicingTypeOK, Measure
  <1>3. SearchInv' /\ YieldInv'
    BY <1>1, Numbers DEF Measure, SearchInv, YieldInv
  <1>4. OffsetInv' /\ SlicesInRange' /\ WithinLimits' /\ AsLargeAsAllowed'
        /\ CoversBatch'
    BY DEF Measure, OffsetInv, SlicesInRange, WithinLimits,
           AsLargeAsAllowed, CoversBatch
  <1> QED  BY <1>2, <1>3, <1>4

(* A probe halves the interval and keeps what is known at its two ends. *)
LEMMA ProbePreserves == SlicingInv /\ Probe => SlicingInv'
  <1> SUFFICES ASSUME SlicingInv, Probe PROVE SlicingInv'
    OBVIOUS
  <1> USE DEF SlicingInv
  <1>1. /\ Upper \in Offsets /\ Upper \in 1..BatchRows
        /\ Upper' = Upper /\ \A n : Fits(n)' <=> Fits(n)
    BY UpperInRange DEF Probe, Upper, Fits, SearchInv
  <1>2. Middle \in low..high /\ Middle \in 1..Upper /\ Middle \in Offsets
    BY <1>1, MiddleInRange, Numbers, OffsetsAre, Limits DEF Probe, SearchInv
  <1>3. SlicingTypeOK' /\ (nbytes \in Layouts)'
    <2>1. size' \in Offsets /\ low' \in Nat /\ high' \in Nat
      BY <1>2, Numbers DEF Probe, SearchInv
    <2> QED  BY <2>1 DEF SlicingTypeOK, Probe
  <1>4. SearchInv'
    <2>1. CASE Fits(Middle)
      BY <1>1, <1>2, <2>1, Numbers DEF Probe, SearchInv
    <2>2. CASE ~Fits(Middle)
      BY <1>1, <1>2, <2>2, Numbers DEF Probe, SearchInv
    <2> QED  BY <2>1, <2>2
  <1>5. YieldInv' /\ OffsetInv' /\ SlicesInRange' /\ WithinLimits'
        /\ AsLargeAsAllowed' /\ CoversBatch'
    BY DEF Probe, YieldInv, OffsetInv, SlicesInRange, WithinLimits,
           AsLargeAsAllowed, CoversBatch
  <1> QED  BY <1>3, <1>4, <1>5

(* When the interval is empty, the size found is the largest that fits. *)
LEMMA SearchEndsPreserves == SlicingInv /\ SearchEnds => SlicingInv'
  <1> SUFFICES ASSUME SlicingInv, SearchEnds PROVE SlicingInv'
    OBVIOUS
  <1> USE DEF SlicingInv
  <1>1. /\ Upper \in Offsets /\ Upper \in 1..BatchRows
        /\ Upper' = Upper /\ \A n : Fits(n)' <=> Fits(n)
    BY UpperInRange DEF SearchEnds, Upper, Fits, SearchInv
  <1>2. SlicingTypeOK' /\ (nbytes \in Layouts)' /\ SearchInv'
    BY DEF SlicingTypeOK, SearchEnds, SearchInv
  <1>3. size = Upper \/ ~Fits(size + 1)
    <2>1. CASE low = size + 1 /\ Fits(size)
      BY <1>1, <2>1 DEF SearchEnds, SearchInv, SlicingTypeOK, Offsets
    <2>2. CASE low = 1 /\ size = 1 /\ Upper # 1
      <3>1. ~Fits(1)
        BY <1>1, <2>2 DEF SearchEnds, SearchInv, SlicingTypeOK, Offsets
      <3>2. 1 \in Offsets /\ size + 1 \in Offsets
        BY <1>1, <2>2, Limits DEF Offsets, SlicingTypeOK
      <3> QED  BY <2>2, <3>1, <3>2, FitsMonotone
    <2> QED  BY <2>1, <2>2 DEF SearchEnds, SearchInv
  <1>4. YieldInv'
    BY <1>1, <1>3 DEF SearchEnds, SearchInv, YieldInv, SlicingTypeOK
  <1>5. OffsetInv' /\ SlicesInRange' /\ WithinLimits' /\ AsLargeAsAllowed'
        /\ CoversBatch'
    BY DEF SearchEnds, OffsetInv, SlicesInRange, WithinLimits,
           AsLargeAsAllowed, CoversBatch
  <1> QED  BY <1>2, <1>4, <1>5

(* A yield appends a slice that is within the limits, maximal and adjacent. *)
LEMMA YieldPreserves == SlicingInv /\ Yield => SlicingInv'
  <1> SUFFICES ASSUME SlicingInv, Yield PROVE SlicingInv'
    OBVIOUS
  <1> DEFINE new == [from |-> offset, upto |-> offset + size]
  <1> USE DEF SlicingInv
  <1>1. /\ Upper \in 1..BatchRows /\ offset + Upper <= numRows
        /\ Upper = BatchRows \/ offset + Upper = numRows
    BY UpperInRange DEF Yield, YieldInv
  <1>2. /\ size \in 1..BatchRows /\ offset \in Nat /\ numRows \in Nat
        /\ offset + size \in Offsets /\ offset + size <= numRows
    <2>1. /\ size \in 1..Upper /\ offset \in Nat /\ numRows \in Nat
          /\ numRows <= MaxRows
      BY Numbers DEF Yield, YieldInv
    <2>2. offset + size \in Nat /\ offset + size <= numRows /\ size \in 1..BatchRows
      BY <1>1, <2>1, Limits
    <2> QED  BY <2>1, <2>2, OffsetsAre, Limits
  <1>3. /\ Len(cuts') = Len(cuts) + 1 /\ DOMAIN cuts' = 1..(Len(cuts) + 1)
        /\ cuts' # << >> /\ cuts'[Len(cuts) + 1] = new
        /\ \A i \in DOMAIN cuts : cuts'[i] = cuts[i]
        /\ DOMAIN cuts = 1..Len(cuts) /\ Len(cuts) \in Nat
    <2>1. cuts \in Seq([from : Offsets, upto : Offsets])
          /\ cuts' = Append(cuts, new)
      BY DEF Yield, SlicingTypeOK
    <2> HIDE DEF new
    <2> QED  BY <2>1
  <1>4. SlicingTypeOK' /\ (nbytes \in Layouts)'
    BY <1>2 DEF SlicingTypeOK, Yield
  <1>5. SearchInv' /\ YieldInv'
    BY DEF Yield, SearchInv, YieldInv
  <1>6. OffsetInv' /\ SlicesInRange'
    BY <1>2, <1>3 DEF Yield, OffsetInv, SlicesInRange
  <1>7. WithinLimits'
    <2>1. new.upto - new.from = size
      BY <1>2
    <2>2. nbytes[new.from][size] <= BatchBytes \/ size = 1
      BY DEF Yield, YieldInv, Fits
    <2> QED  BY <1>2, <1>3, <2>1, <2>2 DEF Yield, WithinLimits
  <1>8. AsLargeAsAllowed'
    <2>1. new.upto - new.from = size
      BY <1>2
    <2>2. \/ size = BatchRows \/ new.upto = numRows
          \/ nbytes[new.from][size + 1] > BatchBytes
      <3>1. CASE size = Upper
        BY <1>1, <3>1
      <3>2. CASE size # Upper
        <4>1. size + 1 \in Offsets
          BY <1>1, <1>2, <3>2, Limits DEF Yield, YieldInv, SlicingTypeOK, Offsets
        <4>2. nbytes[offset][size + 1] \in Nat
          BY <4>1 DEF SlicingTypeOK
        <4> QED  BY <3>2, <4>2, SlicingAssumption DEF Yield, YieldInv, Fits
      <3> QED  BY <3>1, <3>2
    <2> QED  BY <1>3, <2>1, <2>2 DEF Yield, AsLargeAsAllowed
  <1>9. CoversBatch'
    <2>1. new.from = IF cuts = << >> THEN 0 ELSE cuts[Len(cuts)].upto
      BY DEF OffsetInv
    <2>2. ASSUME NEW i \in DOMAIN cuts'
          PROVE  cuts'[i].from = IF i = 1 THEN 0 ELSE cuts'[i - 1].upto
      <3>1. CASE i \in DOMAIN cuts
        BY <1>3, <3>1 DEF CoversBatch
      <3>2. CASE i = Len(cuts) + 1
        <4>1. cuts = << >> => i = 1
          BY <3>2
        <4>2. cuts # << >> => i # 1 /\ cuts'[i - 1] = cuts[Len(cuts)]
          <5>1. cuts # << >> => Len(cuts) # 0 /\ Len(cuts) \in DOMAIN cuts
            BY NonEmpty DEF SlicingTypeOK
          <5> QED  BY <1>3, <3>2, <5>1
        <4> QED  BY <1>3, <2>1, <3>2, <4>1, <4>2
      <3> QED  BY <1>3, <2>2, <3>1, <3>2
    <2> QED  BY <2>2 DEF Yield, CoversBatch
  <1> QED  BY <1>4, <1>5, <1>6, <1>7, <1>8, <1>9

(* The generator returns only at the end of the batch. *)
LEMMA ReturnPreserves == SlicingInv /\ Return => SlicingInv'
  <1> SUFFICES ASSUME SlicingInv, Return PROVE SlicingInv'
    OBVIOUS
  <1> USE DEF SlicingInv
  <1>1. offset = numRows
    BY Numbers DEF Return, OffsetInv
  <1>2. SlicingTypeOK' /\ (nbytes \in Layouts)' /\ SearchInv' /\ YieldInv'
    BY DEF Return, SlicingTypeOK, SearchInv, YieldInv
  <1>3. OffsetInv' /\ CoversBatch'
    BY <1>1 DEF Return, OffsetInv, CoversBatch
  <1>4. SlicesInRange' /\ WithinLimits' /\ AsLargeAsAllowed'
    BY DEF Return, SlicesInRange, WithinLimits, AsLargeAsAllowed
  <1> QED  BY <1>2, <1>3, <1>4

(* Stuttering preserves the inductive invariant. *)
LEMMA SlicingStutters == SlicingInv /\ UNCHANGED slicingVars => SlicingInv'
  BY DEF slicingVars, SlicingInv, SlicingTypeOK, SearchInv, YieldInv, OffsetInv, SlicesInRange,
         WithinLimits, AsLargeAsAllowed, CoversBatch, Upper, Fits

(* The invariant behind the theorems: the bisection brackets the largest
   slice that fits, and the slices so far end where the next one starts. *)
THEOREM SlicingInvHolds == SlicingSpec => []SlicingInv
  <1>1. SlicingInv /\ [SlicingNext]_slicingVars => SlicingInv'
    BY MeasurePreserves, ProbePreserves, SearchEndsPreserves, YieldPreserves,
       ReturnPreserves, SlicingStutters
    DEF SlicingNext
  <1> QED  BY <1>1, SlicingInitially, PTL DEF SlicingSpec

(* iter_batch_slices keeps its variables in range for every batch: offset and
   size are row counts of the batch. *)
THEOREM SlicingTypeCorrect == SlicingSpec => []SlicingTypeOK
  BY SlicingInvHolds, PTL DEF SlicingInv

(* No slice exceeds batch_rows, and none but a single row exceeds
   batch_bytes. *)
THEOREM SlicesWithinLimits == SlicingSpec => []WithinLimits
  BY SlicingInvHolds, PTL DEF SlicingInv

(* The bisection finds the largest slice: no slice could be a row longer. *)
THEOREM SlicesMaximal == SlicingSpec => []AsLargeAsAllowed
  BY SlicingInvHolds, PTL DEF SlicingInv

(* The slices are consecutive and a returned generator has covered the batch. *)
THEOREM SlicesCover == SlicingSpec => []CoversBatch
  BY SlicingInvHolds, PTL DEF SlicingInv
=============================================================================
