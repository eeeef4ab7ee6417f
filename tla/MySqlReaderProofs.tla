-------------------------- MODULE MySqlReaderProofs --------------------------
(***************************************************************************)
(* Proofs about MySqlBatchReader with SSCursorLifecycle, for every result, *)
(* every limit and every combination of failing calls: a close never       *)
(* drains the result, it raises the first failure, and the reader          *)
(* implements SyncReader.                                                  *)
(***************************************************************************)
EXTENDS MySqlReader, SharedLemmas

\* What the next step of a call may rely on: which handles exist
HandleInv ==
    /\ pc \in {"created", "connect"} => conn = "none" /\ cursor = "none"
    /\ pc = "cursor" => conn = "open" /\ cursor = "none"
    /\ pc \in {"validate_cursor", "execute", "validate_result", "describe",
               "ready", "fetch", "eof", "read_active", "cursor_first",
               "connection_first"} => conn = "open" /\ cursor = "open"
    /\ pc \in {"connection_last", "connection_only"} => conn = "open"
    /\ pc = "broken" => conn \in {"none", "open"} /\ cursor \in {"none", "open"}
                        /\ (cursor = "open" => conn = "open")
    /\ pc \in {"deactivate", "detach", "cursor_last", "raise", "closed"}
          => conn # "open"

\* A cursor is closed only when its result is known to have ended, or when it
\* has been cut off from its connection.
DrainInv ==
    /\ pc = "cursor_first" => ~active
    /\ pc = "cursor_last" => ~attached
    /\ NeverDrains

FailureInv == failure = IF failures = << >> THEN "none" ELSE Head(failures)

IInv == TypeOK /\ HandleInv /\ DrainInv /\ FailureInv

-----------------------------------------------------------------------------
(* Lemmas *)

(* The adapted fetchmany size is at least one row and never grows. *)
LEMMA NextFetchRowsInRange ==
    ASSUME fetchRows \in 1..BatchRows, NEW n \in Nat, NEW b \in Int
    PROVE  NextFetchRows(n, b) \in 1..BatchRows
  <1> DEFINE fitting == (n * BatchBytes) \div b
  <1>1. CASE b <= BatchBytes
    BY <1>1 DEF NextFetchRows
  <1>2. CASE ~(b <= BatchBytes)
    <2>1. n * BatchBytes \in Int /\ b \in Nat \ {0}
      BY <1>2, MySqlAssumption
    <2>2. fitting \in Int
      BY <2>1
    <2> DEFINE nextRows == IF fitting > 1 THEN fitting ELSE 1
    <2>3. nextRows \in Nat \ {0}
      BY <2>2
    <2>4. NextFetchRows(n, b) = IF nextRows < fetchRows THEN nextRows ELSE fetchRows
      BY <1>2 DEF NextFetchRows
    <2> HIDE DEF nextRows
    <2> QED  BY <2>3, <2>4, MySqlAssumption
  <1> QED  BY <1>1, <1>2

(* fetchmany never returns more rows than were asked for or are left. *)
LEMMA FetchedRowsInRange ==
    ASSUME TypeOK
    PROVE  /\ FetchedRows(fetchRows) \in 0..BatchRows
           /\ served + FetchedRows(fetchRows) \in 0..Rows
           /\ FetchedRows(fetchRows) = 0 => served = Rows
  BY MySqlAssumption DEF TypeOK, FetchedRows

(* The bytes of a batch are a number. *)
LEMMA BatchBytesTyped ==
    ASSUME TypeOK, NEW m \in 0..Rows, NEW n \in 0..Rows, NEW extra \in Extras
    PROVE  NBytes(m, n, extra) \in Int
  BY MySqlAssumption DEF TypeOK, NBytes, ValueBytes

(* A close step that works or raises leaves the first failure recorded. *)
LEMMA AttemptKeepsFirst ==
    ASSUME TypeOK, FailureInv, NEW step \in CloseSteps, Attempt(step)
    PROVE  /\ failure' \in CloseSteps \cup {"none"}
           /\ failures' \in Seq(CloseSteps)
           /\ FailureInv'
  <1>1. CASE UNCHANGED <<failure, failures>>
    BY <1>1 DEF TypeOK, FailureInv
  <1>2. CASE StepRaises(step)
    <2>1. failures \in Seq(CloseSteps) /\ failures' = Append(failures, step)
      BY <1>2 DEF StepRaises, TypeOK
    <2>2. failures' \in Seq(CloseSteps) /\ failures' # << >>
      BY <2>1
    <2>3. Head(failures') = IF failures = << >> THEN step ELSE Head(failures)
      BY <2>1
    <2>4. \A i \in DOMAIN failures : failures[i] # "none"
      BY <2>1 DEF CloseSteps
    <2>5. failure = "none" <=> failures = << >>
      BY <2>1, <2>4 DEF FailureInv
    <2>6. failure' = IF failures = << >> THEN step ELSE Head(failures)
      BY <1>2, <2>5 DEF StepRaises, RecordFailure, FailureInv
    <2>7. failure' \in CloseSteps \cup {"none"}
      BY <1>2 DEF StepRaises, RecordFailure, TypeOK
    <2> QED  BY <2>2, <2>3, <2>6, <2>7 DEF FailureInv
  <1> QED  BY <1>1, <1>2 DEF Attempt

-----------------------------------------------------------------------------

Pcs == OpenSteps \cup CloseSteps \cup Resting \cup {"fetch"}

(* The inductive invariant holds initially. *)
LEMMA InitIInv == Init => IInv
  <1> SUFFICES ASSUME Init PROVE IInv
    OBVIOUS
  <1>1. TypeOK
    <2>1. 0 \in 0..Rows /\ 0 \in 0..BatchRows /\ BatchRows \in 1..BatchRows
      BY MySqlAssumption
    <2>2. pc \in Pcs /\ failure \in CloseSteps \cup {"none"}
          /\ failures \in Seq(CloseSteps)
      BY DEF Init, Pcs, Resting
    <2> QED  BY <2>1, <2>2 DEF Init, TypeOK, Pcs
  <1>2. HandleInv /\ FailureInv
    BY DEF Init, HandleInv, FailureInv
  <1>3. DrainInv
    BY DEF Init, DrainInv, NeverDrains
  <1> QED  BY <1>1, <1>2, <1>3 DEF IInv

(* Steps of _open: nothing of the close has begun. *)
LEMMA OpenPreserves ==
    IInv /\ (StartOpen \/ Connect \/ OpenCursor \/ ValidateCursor \/ Execute
             \/ ValidateResult \/ Describe) => IInv'
  <1> SUFFICES ASSUME IInv, StartOpen \/ Connect \/ OpenCursor \/ ValidateCursor
                            \/ Execute \/ ValidateResult \/ Describe
               PROVE  IInv'
    OBVIOUS
  <1> USE DEF IInv, resourceVars, dataVars, closeVars, Raise
  <1>1. /\ UNCHANGED <<dataVars, closeVars, bytes>>
        /\ pc' \in Pcs /\ ret' \in {"none", "ok", "rows", "end", "error"}
        /\ conn' \in {"none", "open", "released"}
        /\ cursor' \in {"none", "open", "closed"}
        /\ attached' \in BOOLEAN /\ active' \in BOOLEAN
        /\ validCursor' \in BOOLEAN /\ validResult' \in BOOLEAN
    BY DEF TypeOK, StartOpen, Connect, OpenCursor, ValidateCursor, Execute,
           ValidateResult, Describe, Pcs, OpenSteps, Resting
  <1>2. TypeOK'
    BY <1>1 DEF TypeOK, Pcs
  <1>3. HandleInv'
    BY DEF HandleInv, StartOpen, Connect, OpenCursor, ValidateCursor, Execute,
           ValidateResult, Describe
  <1>4. DrainInv'
    BY DEF DrainInv, NeverDrains, StartOpen, Connect, OpenCursor,
           ValidateCursor, Execute, ValidateResult, Describe
  <1>5. FailureInv'
    BY <1>1 DEF FailureInv
  <1> QED  BY <1>2, <1>3, <1>4, <1>5

(* Steps of _fetch: the handles stay as they are. *)
LEMMA FetchPreserves ==
    IInv /\ (StartFetch \/ FetchBatch \/ FetchEnd \/ FetchRaises) => IInv'
  <1> SUFFICES ASSUME IInv, StartFetch \/ FetchBatch \/ FetchEnd \/ FetchRaises
               PROVE  IInv'
    OBVIOUS
  <1> USE DEF IInv, resourceVars, dataVars, closeVars, Raise
  <1>1. /\ UNCHANGED <<conn, cursor, attached, validCursor, validResult,
                       closeVars, bytes>>
        /\ pc' \in Pcs /\ ret' \in {"none", "ok", "rows", "end", "error"}
        /\ active' \in BOOLEAN
    <2>1. CASE FetchBatch
      BY <2>1 DEF FetchBatch, Pcs, Resting
    <2>2. CASE StartFetch \/ FetchEnd \/ FetchRaises
      BY <2>2 DEF TypeOK, StartFetch, FetchEnd, FetchRaises, Pcs, Resting
    <2> QED  BY <2>1, <2>2
  <1>2. served' \in 0..Rows /\ fetchRows' \in 1..BatchRows
        /\ lastBatch' \in 0..BatchRows
    <2>1. CASE FetchBatch
      <3> DEFINE n == FetchedRows(fetchRows)
      <3>1. /\ n \in 0..BatchRows /\ n \in Nat
            /\ served + n \in 0..Rows /\ served \in 0..Rows
        BY FetchedRowsInRange, MySqlAssumption DEF TypeOK
      <3>2. PICK extra \in Extras :
              fetchRows' = NextFetchRows(n, NBytes(served, served + n, extra))
        BY <2>1 DEF FetchBatch
      <3>3. fetchRows' \in 1..BatchRows
        <4>1. NBytes(served, served + n, extra) \in Int
          BY <3>1, BatchBytesTyped
        <4>2. fetchRows \in 1..BatchRows
          BY DEF TypeOK
        <4> HIDE DEF n
        <4> QED  BY <3>1, <3>2, <4>1, <4>2, NextFetchRowsInRange
      <3> QED  BY <2>1, <3>1, <3>3 DEF FetchBatch
    <2>2. CASE StartFetch \/ FetchEnd \/ FetchRaises
      BY <2>2 DEF TypeOK, StartFetch, FetchEnd, FetchRaises
    <2> QED  BY <2>1, <2>2
  <1>3. TypeOK'
    BY <1>1, <1>2 DEF TypeOK, Pcs
  <1>4. HandleInv' /\ DrainInv'
    <2>1. pc = "ready" \/ pc = "fetch"
      BY DEF StartFetch, FetchBatch, FetchEnd, FetchRaises
    <2>2. pc' \in {"fetch", "ready", "eof", "broken"}
      BY DEF StartFetch, FetchBatch, FetchEnd, FetchRaises
    <2>3. HandleInv'
      BY <1>1, <2>1, <2>2 DEF HandleInv
    <2>4. DrainInv'
      BY <1>1, <2>2 DEF DrainInv, NeverDrains
    <2> QED  BY <2>3, <2>4
  <1>5. FailureInv'
    BY <1>1 DEF FailureInv
  <1> QED  BY <1>3, <1>4, <1>5

(* Steps of _close: none of them reads what is left of the result, and the
   first one that raises is the one remembered. *)
LEMMA ClosePreserves ==
    IInv /\ (StartClose \/ ReadActive \/ CursorFirst \/ ConnectionLast
             \/ ConnectionFirst \/ Deactivate \/ Detach \/ CursorLast
             \/ ConnectionOnly \/ FinishClose) => IInv'
  <1> SUFFICES ASSUME IInv,
                      StartClose \/ ReadActive \/ CursorFirst \/ ConnectionLast
                      \/ ConnectionFirst \/ Deactivate \/ Detach \/ CursorLast
                      \/ ConnectionOnly \/ FinishClose
               PROVE  IInv'
    OBVIOUS
  <1> USE DEF IInv, resourceVars, dataVars, closeVars
  <1>1. /\ failure' \in CloseSteps \cup {"none"}
        /\ failures' \in Seq(CloseSteps)
        /\ FailureInv'
    <2>1. CASE StartClose \/ FinishClose
      BY <2>1 DEF StartClose, FinishClose, TypeOK, FailureInv
    <2>2. CASE ~(StartClose \/ FinishClose)
      <3>1. \E step \in CloseSteps : Attempt(step)
        BY <2>2 DEF ReadActive, CursorFirst, ConnectionLast, ConnectionFirst,
                    Deactivate, Detach, CursorLast, ConnectionOnly, CloseCursor,
                    Attempt, CloseSteps
      <3> QED  BY <3>1, AttemptKeepsFirst
    <2> QED  BY <2>1, <2>2
  <1>2. /\ UNCHANGED <<dataVars, bytes, validCursor, validResult>>
        /\ pc' \in Pcs /\ ret' \in {"none", "ok", "rows", "end", "error"}
        /\ conn' \in {"none", "open", "released"}
        /\ cursor' \in {"none", "open", "closed"}
        /\ attached' \in BOOLEAN /\ active' \in BOOLEAN /\ drained' \in BOOLEAN
    <2>1. CASE CursorFirst \/ CursorLast
      BY <2>1 DEF TypeOK, CursorFirst, CursorLast, CloseCursor, Pcs, CloseSteps
    <2>2. CASE ReadActive \/ Deactivate \/ Detach
      BY <2>2 DEF TypeOK, ReadActive, Deactivate, Detach, Pcs, CloseSteps
    <2>3. CASE ConnectionLast \/ ConnectionFirst \/ ConnectionOnly
      BY <2>3 DEF TypeOK, ConnectionLast, ConnectionFirst, ConnectionOnly, Pcs,
                  CloseSteps
    <2>4. CASE StartClose \/ FinishClose
      BY <2>4 DEF TypeOK, StartClose, FinishClose, Pcs, CloseSteps, Resting
    <2> QED  BY <2>1, <2>2, <2>3, <2>4
  <1>3. TypeOK'
    BY <1>1, <1>2 DEF TypeOK, Pcs
  <1>4. HandleInv'
    BY DEF HandleInv, StartClose, ReadActive, CursorFirst, ConnectionLast,
           ConnectionFirst, Deactivate, Detach, CursorLast, ConnectionOnly,
           FinishClose, CloseCursor, Resting, TypeOK
  <1>5. DrainInv'
    <2>1. CASE CursorFirst \/ CursorLast
      <3>1. ~(attached /\ active) /\ drained = FALSE
        BY <2>1 DEF CursorFirst, CursorLast, DrainInv, NeverDrains, TypeOK
      <3>2. drained' = FALSE /\ pc' \notin {"cursor_first", "cursor_last"}
        BY <2>1, <3>1 DEF CursorFirst, CursorLast, CloseCursor
      <3> QED  BY <3>2 DEF DrainInv, NeverDrains
    <2>2. CASE ReadActive
      BY <2>2 DEF ReadActive, DrainInv, NeverDrains
    <2>3. CASE Detach
      BY <2>3 DEF Detach, DrainInv, NeverDrains
    <2>4. CASE StartClose \/ ConnectionLast \/ ConnectionFirst \/ Deactivate
               \/ ConnectionOnly \/ FinishClose
      <3>1. drained' = drained /\ pc' \notin {"cursor_first", "cursor_last"}
        BY <2>4 DEF StartClose, ConnectionLast, ConnectionFirst, Deactivate,
                    ConnectionOnly, FinishClose
      <3> QED  BY <3>1 DEF DrainInv, NeverDrains
    <2> QED  BY <2>1, <2>2, <2>3, <2>4
  <1> QED  BY <1>1, <1>3, <1>4, <1>5

(* Stuttering preserves the inductive invariant. *)
LEMMA StutterPreserves == IInv /\ UNCHANGED vars => IInv'
  BY DEF vars, resourceVars, dataVars, closeVars, IInv, TypeOK, HandleInv,
         DrainInv, NeverDrains, FailureInv

(* The invariant behind the theorems: which handles exist before each step,
   and that a cursor is only closed when that cannot drain. *)
THEOREM IInvHolds == Spec => []IInv
  <1>1. IInv /\ [Next]_vars => IInv'
    BY OpenPreserves, FetchPreserves, ClosePreserves, StutterPreserves DEF Next
  <1> QED  BY <1>1, InitIInv, PTL DEF Spec

(* The reader's state keeps its type; in particular fetchmany is always asked
   for between one and batch_rows rows. *)
THEOREM TypeCorrect == Spec => []TypeOK
  BY IInvHolds, PTL DEF IInv

(* No close ever drains the rest of a result, whatever has failed before. *)
THEOREM CloseNeverDrains == Spec => []NeverDrains
  BY IInvHolds, PTL DEF IInv, DrainInv

(* SSCursorLifecycle.close raises the first of the failures it met. *)
THEOREM CloseRaisesFirst == Spec => []FirstFailureRaised
  <1>1. IInv => FirstFailureRaised
    BY DEF IInv, FailureInv, FirstFailureRaised
  <1> QED  BY <1>1, IInvHolds, PTL

-----------------------------------------------------------------------------
(* Adaptation of the fetch size *)

Uniform == \A i \in 1..Rows : ValueBytes(i - 1, i) = ValueBytes(0, 1)
RowBytes == ValueBytes(0, 1)

\* Once a batch has been measured, the values of the next one fit, unless it is
\* a single row or there is none
AdaptInv ==
    Uniform =>
        /\ served > 0 =>
              served = Rows \/ fetchRows = 1 \/ fetchRows * RowBytes <= BatchBytes
        /\ served > lastBatch =>
              ValueBytes(served - lastBatch, served) <= BatchBytes \/ lastBatch = 1

(* Rows of equal size: the value bytes of a batch are its rows times that
   size. *)
LEMMA UniformBytes ==
    ASSUME TypeOK, Uniform, Rows > 0, NEW m \in 0..Rows, NEW n \in 0..Rows
    PROVE  /\ RowBytes \in Nat
           /\ ValueBytes(m, n) = (n - m) * RowBytes
  <1> DEFINE odd == {k \in 0..Rows : bytes[k] # bytes[0] + k * RowBytes}
  <1>1. /\ Rows \in Nat /\ bytes \in [0..Rows -> Nat] /\ bytes[0] \in Nat
        /\ \A i, j \in 0..Rows : i <= j => bytes[i] <= bytes[j]
    BY MySqlAssumption DEF TypeOK
  <1>2. RowBytes \in Nat
    BY <1>1 DEF RowBytes, ValueBytes
  <1>3. odd = {}
    <2> SUFFICES ASSUME odd # {} PROVE FALSE
      OBVIOUS
    <2>1. PICK k \in odd : \A j \in odd : k <= j
      <3>1. odd \subseteq Nat
        BY <1>1
      <3> HIDE DEF odd
      <3> QED  BY <3>1, LeastNumber
    <2>2. k \in 0..Rows /\ bytes[k] # bytes[0] + k * RowBytes
      OBVIOUS
    <2>3. k # 0
      BY <1>1, <1>2, <2>2
    <2>4. k - 1 \in 0..Rows /\ k \in 1..Rows /\ k - 1 \notin odd
      BY <1>1, <2>1, <2>2, <2>3
    <2>5. bytes[k - 1] = bytes[0] + (k - 1) * RowBytes
      BY <2>4
    <2>6. bytes[k] - bytes[k - 1] = RowBytes
      BY <2>4 DEF Uniform, ValueBytes, RowBytes
    <2>7. bytes[k] \in Nat /\ bytes[k - 1] \in Nat /\ k \in Nat
      BY <1>1, <2>2, <2>4
    <2>8. (k - 1) * RowBytes = k * RowBytes - RowBytes
      BY <1>2, <2>7
    <2>9. k * RowBytes \in Nat
      BY <1>2, <2>7
    <2>10. bytes[k] = (bytes[0] + (k * RowBytes - RowBytes)) + RowBytes
      <3>1. bytes[k] = bytes[k - 1] + RowBytes
        BY <1>2, <2>6, <2>7
      <3> QED  BY <3>1, <2>5, <2>8
    <2> DEFINE all == k * RowBytes
    <2>11. all \in Nat /\ bytes[k] = (bytes[0] + (all - RowBytes)) + RowBytes
      BY <2>9, <2>10
    <2>12. bytes[k] # bytes[0] + all
      BY <2>2
    <2> HIDE DEF all
    <2> QED  BY <1>1, <1>2, <2>11, <2>12
  <1>4. bytes[m] = bytes[0] + m * RowBytes /\ bytes[n] = bytes[0] + n * RowBytes
    BY <1>3
  <1>5. (n - m) * RowBytes = n * RowBytes - m * RowBytes
    BY <1>1, <1>2
  <1>6. n * RowBytes \in Nat /\ m * RowBytes \in Nat
    BY <1>1, <1>2
  <1> QED  BY <1>1, <1>2, <1>4, <1>5, <1>6 DEF ValueBytes

(* The values of so many rows as fit by the average of an oversized batch do
   fit, whatever that batch held beside its values. *)
LEMMA FittingFits ==
    ASSUME NEW n \in Nat \ {0}, NEW u \in Nat, NEW extra \in Nat,
           NEW limit \in Nat, n * u + extra > 0
    PROVE  /\ (n * limit) \div (n * u + extra) \in Nat
           /\ ((n * limit) \div (n * u + extra)) * u <= limit
  <1> DEFINE b == n * u + extra
             q == (n * limit) \div b
  <1>1. b \in Nat \ {0} /\ n * limit \in Nat
    OBVIOUS
  <1>2. q \in Nat /\ q * b <= n * limit
    <2> HIDE DEF b
    <2> QED  BY <1>1
  <1>3. q * b = n * (q * u) + q * extra /\ q * extra \in Nat
    <2>1. q \in Nat
      BY <1>2
    <2> HIDE DEF q
    <2> QED  BY <2>1
  <1>4. n * (q * u) <= n * limit
    <2>1. n * (q * u) \in Nat
      <3>1. q \in Nat
        BY <1>2
      <3> HIDE DEF q
      <3> QED  BY <3>1
    <2> HIDE DEF q, b
    <2> QED  BY <1>1, <1>2, <1>3, <2>1
  <1>5. q * u \in Nat
    <2>1. q \in Nat
      BY <1>2
    <2> HIDE DEF q
    <2> QED  BY <2>1
  <1>6. q * u <= limit
    <2> DEFINE x == q * u
    <2>1. x \in Nat /\ n * x <= n * limit
      BY <1>4, <1>5
    <2> HIDE DEF x
    <2>2. CASE x > limit
      <3>1. n * (x - limit) > 0
        BY <2>1, <2>2
      <3>2. n * (x - limit) = n * x - n * limit
        BY <2>1
      <3> QED  BY <2>1, <3>1, <3>2
    <2> QED  BY <2>1, <2>2 DEF x
  <1> QED  BY <1>2, <1>6

(* The size that _fetch adapts to, after an oversized batch of equal rows. *)
LEMMA NextFetchRowsFits ==
    ASSUME NEW u \in Nat, NEW n \in Nat \ {0}, NEW extra \in Nat,
           fetchRows \in Nat \ {0}, n * u + extra > BatchBytes
    PROVE  \/ NextFetchRows(n, n * u + extra) = 1
           \/ NextFetchRows(n, n * u + extra) * u <= BatchBytes
  <1> DEFINE fitting == (n * BatchBytes) \div (n * u + extra)
             nextRows == IF fitting > 1 THEN fitting ELSE 1
             next == NextFetchRows(n, n * u + extra)
  <1>1. fitting \in Nat /\ fitting * u <= BatchBytes
    BY FittingFits, MySqlAssumption
  <1>2. next = IF nextRows < fetchRows THEN nextRows ELSE fetchRows
    BY MySqlAssumption DEF NextFetchRows
  <1>3. next \in Nat \ {0} /\ next <= nextRows
    <2> HIDE DEF fitting, next
    <2> QED  BY <1>1, <1>2
  <1>4. CASE fitting > 1
    <2>1. next <= fitting
      BY <1>3, <1>4
    <2> HIDE DEF fitting, next
    <2>2. next * u <= fitting * u
      BY <1>1, <1>3, <2>1
    <2>3. next * u \in Nat /\ fitting * u \in Nat
      BY <1>1, <1>3
    <2> QED  BY <1>1, <2>2, <2>3, MySqlAssumption DEF next
  <1>5. CASE ~(fitting > 1)
    BY <1>3, <1>5
  <1> QED  BY <1>4, <1>5

(* A batch keeps the fetch size fitting. *)
LEMMA FetchBatchAdapts ==
    ASSUME IInv, AdaptInv, FetchBatch
    PROVE  AdaptInv'
  <1> DEFINE n == FetchedRows(fetchRows)
             u == RowBytes
             values == ValueBytes(served, served + n)
  <1>1. /\ n \in Nat \ {0} /\ served \in Nat /\ served + n \in 0..Rows /\ n <= fetchRows
        /\ fetchRows \in Nat \ {0} /\ Rows \in Nat /\ Rows > 0 /\ served \in 0..Rows
        /\ n = fetchRows \/ served + n = Rows
    BY MySqlAssumption DEF IInv, TypeOK, FetchBatch, FetchedRows
  <1>2. /\ served' = served + n /\ lastBatch' = n /\ bytes' = bytes
        /\ \E extra \in Extras : fetchRows' = NextFetchRows(n, values + extra)
    BY DEF FetchBatch, NBytes
  <1>3. SUFFICES ASSUME Uniform
                 PROVE  /\ served' = Rows \/ fetchRows' = 1
                              \/ fetchRows' * RowBytes <= BatchBytes
                        /\ served' > lastBatch' =>
                              values <= BatchBytes \/ lastBatch' = 1
    <2>1. Uniform' = Uniform /\ RowBytes' = RowBytes
      BY <1>2 DEF Uniform, RowBytes, ValueBytes
    <2>2. ValueBytes(served - lastBatch, served)' = values
      BY <1>1, <1>2 DEF ValueBytes
    <2> QED  BY <2>1, <2>2 DEF AdaptInv
  <1>4. u \in Nat /\ values = n * u
    <2>1. u \in Nat /\ values = ((served + n) - served) * u
      BY <1>1, <1>3, UniformBytes DEF IInv
    <2>2. (served + n) - served = n
      BY <1>1
    <2> QED  BY <2>1, <2>2
  <1>5. PICK extra \in Nat : fetchRows' = NextFetchRows(n, values + extra)
    BY <1>2, MySqlAssumption
  <1> DEFINE b == values + extra
  <1>6. b \in Nat /\ values \in Nat /\ values <= b /\ b = n * u + extra
    BY <1>1, <1>4
  <1>7. fetchRows' = NextFetchRows(n, b)
    BY <1>5
  <1> HIDE DEF n, u, values, b
  <1>8. served' = Rows \/ fetchRows' = 1 \/ fetchRows' * u <= BatchBytes
    <2>1. CASE b <= BatchBytes
      <3>1. fetchRows' = fetchRows
        BY <1>7, <2>1 DEF NextFetchRows
      <3>2. values <= BatchBytes
        BY <1>6, <2>1, MySqlAssumption
      <3> QED  BY <1>1, <1>2, <1>4, <3>1, <3>2
    <2>2. CASE ~(b <= BatchBytes)
      <3>1. b > BatchBytes
        BY <1>6, <2>2, MySqlAssumption
      <3>2. n * u + extra > BatchBytes
        BY <1>6, <3>1
      <3>3. \/ NextFetchRows(n, n * u + extra) = 1
            \/ NextFetchRows(n, n * u + extra) * u <= BatchBytes
        BY <1>1, <1>4, <3>2, NextFetchRowsFits
      <3> QED  BY <1>6, <1>7, <3>3
    <2> QED  BY <2>1, <2>2
  <1>9. served > 0 => values <= BatchBytes \/ n = 1
    <2> SUFFICES ASSUME served > 0, n # 1 PROVE values <= BatchBytes
      OBVIOUS
    <2>1. served # Rows /\ fetchRows # 1
      BY <1>1
    <2>2. fetchRows * u <= BatchBytes
      BY <1>3, <2>1 DEF AdaptInv, u
    <2>3. n * u <= fetchRows * u
      BY <1>1, <1>4
    <2>4. n * u \in Nat /\ fetchRows * u \in Nat
      BY <1>1, <1>4
    <2> QED  BY <1>4, <2>2, <2>3, <2>4, MySqlAssumption
  <1> QED  BY <1>1, <1>2, <1>8, <1>9 DEF u

(* The adaptive fetch size does what it is for: with rows of equal size the
   values of every batch but the first fit into batch_bytes, or it is a single
   row, for every result, all limits and whatever Arrow adds to each batch. *)
THEOREM FetchSizeFits == Spec => []FetchSizeAdapts
  <1>1. Init => AdaptInv
    BY DEF Init, AdaptInv
  <1>2. IInv /\ AdaptInv /\ [Next]_vars => AdaptInv'
    <2> SUFFICES ASSUME IInv, AdaptInv, [Next]_vars PROVE AdaptInv'
      OBVIOUS
    <2>1. CASE FetchBatch
      BY <2>1, FetchBatchAdapts
    <2>2. CASE ~FetchBatch
      <3>1. UNCHANGED <<dataVars, bytes>>
        BY <2>2
           DEF Next, vars, StartOpen, Connect, OpenCursor, ValidateCursor, Execute,
               ValidateResult, Describe, StartFetch, FetchEnd, FetchRaises, StartClose,
               ReadActive, CursorFirst, ConnectionLast, ConnectionFirst, Deactivate, Detach,
               CursorLast, ConnectionOnly, FinishClose
      <3> QED  BY <3>1 DEF dataVars, AdaptInv, Uniform, RowBytes, ValueBytes
    <2> QED  BY <2>1, <2>2
  <1>3. AdaptInv => FetchSizeAdapts
    BY DEF AdaptInv, Uniform, FetchSizeAdapts
  <1> QED  BY <1>1, <1>2, <1>3, IInvHolds, PTL DEF Spec

-----------------------------------------------------------------------------
(* Refinement *)

(* Initial states map to initial states of the abstract specification. *)
LEMMA InitRefines == Init => Reader!ReaderInit
  BY DEF Init, Reader!ReaderInit, Phase, OpenSteps, CloseSteps

(* Every step maps to a step of the abstract specification or to a stutter. *)
LEMMA StepRefines ==
    ASSUME IInv, IInv', [Next]_vars
    PROVE  [Reader!ReaderNext]_(Reader!readerVars)
  <1> USE DEF Phase, OpenSteps, CloseSteps, resourceVars, dataVars, closeVars,
              Raise, Reader!ReaderNext, Reader!readerVars
  <1>1. CASE StartOpen
    BY <1>1 DEF StartOpen, Reader!StartOpen
  <1>2. CASE Connect
    BY <1>2 DEF Connect, IInv, HandleInv, Reader!Connect, Reader!FinishOpen
  <1>3. CASE OpenCursor
    BY <1>3 DEF OpenCursor, Reader!FinishOpen
  <1>4. CASE ValidateCursor
    BY <1>4 DEF ValidateCursor, Reader!FinishOpen
  <1>5. CASE Execute
    BY <1>5 DEF Execute, Reader!FinishOpen
  <1>6. CASE ValidateResult
    BY <1>6 DEF ValidateResult, Reader!FinishOpen
  <1>7. CASE Describe
    BY <1>7 DEF Describe, IInv, HandleInv, Reader!FinishOpen
  <1>8. CASE StartFetch
    BY <1>8 DEF StartFetch, Reader!StartFetch
  <1>9. CASE FetchBatch
    <2> DEFINE n == FetchedRows(fetchRows)
    <2>1. n \in 0..BatchRows /\ served + n <= Rows
      BY FetchedRowsInRange, MySqlAssumption DEF IInv
    <2>2. served' = served + n /\ Phase = "fetching" /\ Phase' = "ready"
          /\ ret' = "rows" /\ conn' = conn
      BY <1>9 DEF FetchBatch
    <2> HIDE DEF n
    <2> QED  BY <2>1, <2>2 DEF Reader!FinishFetch
  <1>10. CASE FetchEnd
    BY <1>10, FetchedRowsInRange DEF FetchEnd, IInv, Reader!FinishFetch
  <1>11. CASE FetchRaises
    BY <1>11 DEF FetchRaises, Reader!FinishFetch
  <1>12. CASE StartClose
    BY <1>12 DEF StartClose, Resting, Reader!StartClose
  <1>13. CASE ReadActive \/ CursorFirst \/ Deactivate \/ Detach \/ CursorLast
    BY <1>13 DEF ReadActive, CursorFirst, Deactivate, Detach, CursorLast, CloseCursor
  <1>14. CASE ConnectionLast \/ ConnectionFirst \/ ConnectionOnly
    BY <1>14 DEF ConnectionLast, ConnectionFirst, ConnectionOnly, IInv, HandleInv,
                 Reader!Release
  <1>15. CASE FinishClose
    BY <1>15 DEF FinishClose, IInv, HandleInv, Reader!FinishClose
  <1>16. CASE UNCHANGED vars
    BY <1>16 DEF vars
  <1> QED
    BY <1>1, <1>2, <1>3, <1>4, <1>5, <1>6, <1>7, <1>8, <1>9, <1>10, <1>11,
       <1>12, <1>13, <1>14, <1>15, <1>16 DEF Next

(* MySqlBatchReader implements the reader DorisStream relies on. *)
THEOREM MySqlRefinesSyncReader == Spec => ImplementsSyncReader
  BY InitRefines, StepRefines, IInvHolds, PTL
  DEF Spec, ImplementsSyncReader, Reader!ReaderSpec
=============================================================================
