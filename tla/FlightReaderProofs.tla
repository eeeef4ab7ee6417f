------------------------- MODULE FlightReaderProofs -------------------------
(***************************************************************************)
(* Proofs about FlightBatchReader, whatever step of _open or _close fails: *)
(* _close releases every handle, innermost first, and the reader           *)
(* implements SyncReader.                                                  *)
(***************************************************************************)
EXTENDS FlightReader, TLAPS

\* Which handles of FlightBatchReader exist before each step of a call
FlightHandleInv ==
    /\ pc \in {"created", "check", "connect"} =>
          conn = "none" /\ cursor = "none" /\ reader = "none"
    /\ pc = "cursor" => conn = "open" /\ cursor = "none" /\ reader = "none"
    /\ pc \in {"execute", "batch_reader"} =>
          conn = "open" /\ cursor = "open" /\ reader = "none"
    /\ pc \in {"ready", "fetch", "eof"} => conn = "open"
    /\ pc \in {"close_cursor", "close_connection", "raise", "closed"} =>
          reader # "open"
    /\ pc \in {"close_connection", "raise", "closed"} => cursor # "open"
    /\ pc \in {"raise", "closed"} => conn # "open"

FlightInv == TypeOK /\ FlightHandleInv /\ InnermostFirst

-----------------------------------------------------------------------------

(* The inductive invariant holds initially. *)
LEMMA FlightInitially == Init => FlightInv
  <1> SUFFICES ASSUME Init PROVE FlightInv
    OBVIOUS
  <1>1. TypeOK
    <2>1. 0 \in 0..Rows
      BY FlightAssumption
    <2> QED  BY <2>1 DEF Init, TypeOK, Handle, Resting
  <1>2. FlightHandleInv /\ InnermostFirst
    BY DEF Init, FlightHandleInv, InnermostFirst
  <1> QED  BY <1>1, <1>2 DEF FlightInv

(* Every call into ADBC leaves the reader's state within its type. *)
LEMMA FlightTypePreserved == TypeOK /\ [Next]_vars => TypeOK'
  <1> SUFFICES ASSUME TypeOK, [Next]_vars PROVE TypeOK'
    OBVIOUS
  <1> USE DEF TypeOK, Handle, OpenSteps, CloseSteps, Resting, Raise
  <1>1. CASE StartOpen \/ Check \/ Connect \/ OpenCursor \/ Execute \/ FetchRecordBatch
    BY <1>1 DEF StartOpen, Check, Connect, OpenCursor, Execute, FetchRecordBatch
  <1>2. CASE FetchBatch
    BY <1>2, FlightAssumption DEF FetchBatch
  <1>3. CASE StartFetch \/ FetchEnd \/ FetchRaises
    BY <1>3 DEF StartFetch, FetchEnd, FetchRaises
  <1>4. CASE CloseReader \/ CloseCursor \/ CloseConnection
    BY <1>4 DEF CloseReader, CloseCursor, CloseConnection, Released, CloseRaises
  <1>5. CASE StartClose \/ FinishClose
    BY <1>5 DEF StartClose, FinishClose
  <1>6. CASE UNCHANGED vars
    BY <1>6 DEF vars
  <1> QED  BY <1>1, <1>2, <1>3, <1>4, <1>5, <1>6 DEF Next

(* _close takes the handles back in the reverse of the order _open made them. *)
LEMMA FlightHandlesPreserved ==
    FlightInv /\ [Next]_vars => FlightHandleInv' /\ InnermostFirst'
  <1> SUFFICES ASSUME FlightInv, [Next]_vars PROVE FlightHandleInv' /\ InnermostFirst'
    OBVIOUS
  <1> USE DEF FlightInv, FlightHandleInv, InnermostFirst, Raise
  <1>1. CASE StartOpen \/ Check \/ Connect \/ OpenCursor \/ Execute \/ FetchRecordBatch
    BY <1>1 DEF StartOpen, Check, Connect, OpenCursor, Execute, FetchRecordBatch
  <1>2. CASE StartFetch \/ FetchBatch \/ FetchEnd \/ FetchRaises
    BY <1>2 DEF StartFetch, FetchBatch, FetchEnd, FetchRaises
  <1>3. CASE StartClose \/ CloseReader \/ CloseCursor \/ CloseConnection \/ FinishClose
    BY <1>3 DEF StartClose, CloseReader, CloseCursor, CloseConnection, FinishClose,
                Released, Resting
  <1>4. CASE UNCHANGED vars
    BY <1>4 DEF vars
  <1> QED  BY <1>1, <1>2, <1>3, <1>4 DEF Next

(* The invariant behind the theorems: which handles exist before each step. *)
THEOREM FlightInvHolds == Spec => []FlightInv
  <1>1. FlightInv /\ [Next]_vars => FlightInv'
    BY FlightTypePreserved, FlightHandlesPreserved DEF FlightInv
  <1> QED  BY <1>1, FlightInitially, PTL DEF Spec

(* The state of FlightBatchReader keeps its type. *)
THEOREM TypeCorrect == Spec => []TypeOK
  BY FlightInvHolds, PTL DEF FlightInv

(* When _close ends nothing _open acquired is open, however many of the three
   close() calls raised. *)
THEOREM CloseLeavesNothingOpen == Spec => []NothingLeftOpen
  <1>1. FlightInv => NothingLeftOpen
    BY DEF FlightInv, FlightHandleInv, NothingLeftOpen
  <1> QED  BY <1>1, FlightInvHolds, PTL

(* No handle outlives the one it was made from. *)
THEOREM HandlesNested == Spec => []InnermostFirst
  BY FlightInvHolds, PTL DEF FlightInv

-----------------------------------------------------------------------------
(* Refinement *)

(* Initial states map to initial states of the abstract specification. *)
LEMMA FlightInitRefines == Init => Reader!ReaderInit
  BY DEF Init, Reader!ReaderInit, Phase, OpenSteps, CloseSteps

(* Every step maps to a step of the abstract specification or to a stutter. *)
LEMMA FlightStepRefines ==
    ASSUME FlightInv, [Next]_vars
    PROVE  [Reader!ReaderNext]_(Reader!readerVars)
  <1> USE DEF Phase, OpenSteps, CloseSteps, Raise, Reader!ReaderNext,
              Reader!readerVars
  <1>1. CASE StartOpen
    BY <1>1 DEF StartOpen, Reader!StartOpen
  <1>2. CASE Connect
    BY <1>2 DEF Connect, FlightInv, FlightHandleInv, Reader!Connect, Reader!FinishOpen
  <1>3. CASE Check \/ OpenCursor \/ Execute
    BY <1>3 DEF Check, OpenCursor, Execute, Reader!FinishOpen
  <1>4. CASE FetchRecordBatch
    BY <1>4 DEF FetchRecordBatch, FlightInv, FlightHandleInv, Reader!FinishOpen
  <1>5. CASE StartFetch
    BY <1>5 DEF StartFetch, Reader!StartFetch
  <1>6. CASE FetchBatch \/ FetchEnd \/ FetchRaises
    BY <1>6 DEF FetchBatch, FetchEnd, FetchRaises, Reader!FinishFetch
  <1>7. CASE StartClose
    BY <1>7 DEF StartClose, Resting, Reader!StartClose
  <1>8. CASE CloseReader \/ CloseCursor
    BY <1>8 DEF CloseReader, CloseCursor
  <1>9. CASE CloseConnection
    BY <1>9 DEF CloseConnection, Released, Reader!Release
  <1>10. CASE FinishClose
    BY <1>10 DEF FinishClose, FlightInv, FlightHandleInv, Reader!FinishClose
  <1>11. CASE UNCHANGED vars
    BY <1>11 DEF vars
  <1> QED  BY <1>1, <1>2, <1>3, <1>4, <1>5, <1>6, <1>7, <1>8, <1>9, <1>10, <1>11
           DEF Next

(* FlightBatchReader implements the reader DorisStream relies on. *)
THEOREM FlightRefinesSyncReader == Spec => ImplementsSyncReader
  BY FlightInitRefines, FlightStepRefines, FlightInvHolds, PTL
  DEF Spec, ImplementsSyncReader, Reader!ReaderSpec
=============================================================================
