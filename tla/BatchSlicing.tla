---------------------------- MODULE BatchSlicing ----------------------------
(***************************************************************************)
(* iter_batch_slices (_common/contracts.py): the generator that cuts one   *)
(* decoded Arrow batch into the slices a consumer sees.  A slice has at    *)
(* most batch_rows rows; its size is the largest one whose bytes are       *)
(* within batch_bytes, found by bisection, or one row when even that is    *)
(* too large.                                                              *)
(*                                                                         *)
(* The bytes of a slice are a function of where it starts and how long it  *)
(* is, growing with its length; nothing else is assumed of Arrow's layout. *)
(***************************************************************************)
EXTENDS Integers, Sequences

CONSTANTS MaxRows,      \* bound on the rows of a decoded batch
          BatchRows,    \* ResourceLimits.batch_rows
          BatchBytes,   \* ResourceLimits.batch_bytes
          Layouts       \* the byte functions considered

Offsets == 0..MaxRows

\* nbytes[o][n]: bytes of the slice of n rows that starts after row o
ASSUME SlicingAssumption ==
    /\ MaxRows \in Nat
    /\ BatchRows \in Nat \ {0}
    /\ BatchBytes \in Nat \ {0}
    /\ Layouts \subseteq [Offsets -> [Offsets -> Nat]]
    /\ \A f \in Layouts : \A o, m, n \in Offsets : m <= n => f[o][m] <= f[o][n]

VARIABLES pc,         \* "outer", "search", "yield", "done"
          numRows,    \* batch.num_rows
          nbytes,     \* the layout of this batch
          offset, low, high, size,
          cuts        \* history: the slices yielded so far

slicingVars == <<pc, numRows, nbytes, offset, low, high, size, cuts>>

\* Mutant: without batch_rows
UpperUncapped == numRows - offset

Upper == IF BatchRows < numRows - offset THEN BatchRows ELSE numRows - offset

\* Mutant: < instead of <=
FitsStrictly(n) == nbytes[offset][n] < BatchBytes

Fits(n) == nbytes[offset][n] <= BatchBytes

SlicingTypeOK ==
    /\ pc \in {"outer", "search", "yield", "done"}
    /\ numRows \in Offsets
    /\ nbytes \in [Offsets -> [Offsets -> Nat]]
    /\ offset \in Offsets
    /\ low \in Nat
    /\ high \in Nat
    /\ size \in Offsets
    /\ cuts \in Seq([from : Offsets, upto : Offsets])

SlicingInit ==
    /\ pc = "outer"
    /\ numRows \in Offsets
    /\ nbytes \in Layouts
    /\ offset = 0
    /\ low = 0
    /\ high = 0
    /\ size = 0
    /\ cuts = << >>

\* while offset < num_rows: the whole upper part, or a search below it
Measure ==
    /\ pc = "outer"
    /\ offset < numRows
    /\ IF Fits(Upper)
       THEN /\ size' = Upper
            /\ pc' = "yield"
            /\ UNCHANGED <<low, high>>
       ELSE /\ low' = 1
            /\ high' = Upper
            /\ size' = 1
            /\ pc' = "search"
    /\ UNCHANGED <<numRows, nbytes, offset, cuts>>

Middle == (low + high) \div 2

\* Mutant: the lower end does not move past a size that fits
ProbeStuck ==
    /\ pc = "search"
    /\ low <= high
    /\ IF Fits(Middle)
       THEN size' = Middle /\ low' = Middle /\ UNCHANGED high
       ELSE high' = Middle - 1 /\ UNCHANGED <<size, low>>
    /\ UNCHANGED <<pc, numRows, nbytes, offset, cuts>>

Probe ==
    /\ pc = "search"
    /\ low <= high
    /\ IF Fits(Middle)
       THEN size' = Middle /\ low' = Middle + 1 /\ UNCHANGED high
       ELSE high' = Middle - 1 /\ UNCHANGED <<size, low>>
    /\ UNCHANGED <<pc, numRows, nbytes, offset, cuts>>

SearchEnds ==
    /\ pc = "search"
    /\ low > high
    /\ pc' = "yield"
    /\ UNCHANGED <<numRows, nbytes, offset, low, high, size, cuts>>

Yield ==
    /\ pc = "yield"
    /\ cuts' = Append(cuts, [from |-> offset, upto |-> offset + size])
    /\ offset' = offset + size
    /\ pc' = "outer"
    /\ UNCHANGED <<numRows, nbytes, low, high, size>>

\* Mutant: off by one at the last row
ReturnEarly ==
    /\ pc = "outer"
    /\ offset + 1 >= numRows
    /\ pc' = "done"
    /\ UNCHANGED <<numRows, nbytes, offset, low, high, size, cuts>>

Return ==
    /\ pc = "outer"
    /\ offset >= numRows
    /\ pc' = "done"
    /\ UNCHANGED <<numRows, nbytes, offset, low, high, size, cuts>>

SlicingNext == Measure \/ Probe \/ SearchEnds \/ Yield \/ Return

SlicingSpec == SlicingInit /\ [][SlicingNext]_slicingVars /\ WF_slicingVars(SlicingNext)

-----------------------------------------------------------------------------
(* Properties *)

(* A yielded slice respects both limits: batch_rows always, and batch_bytes
   unless it is a single row, which is passed on however large it is. *)
WithinLimits ==
    \A i \in DOMAIN cuts :
        LET rows == cuts[i].upto - cuts[i].from
        IN  /\ rows \in 1..BatchRows
            /\ nbytes[cuts[i].from][rows] <= BatchBytes \/ rows = 1

(* No slice is cut shorter than the limits ask for: one more row would exceed
   batch_rows, the batch, or batch_bytes. *)
AsLargeAsAllowed ==
    \A i \in DOMAIN cuts :
        LET rows == cuts[i].upto - cuts[i].from
        IN  \/ rows = BatchRows
            \/ cuts[i].upto = numRows
            \/ nbytes[cuts[i].from][rows + 1] > BatchBytes

(* The slices are consecutive from the first row, and when the generator
   returns they cover the batch: no row is dropped or repeated. *)
CoversBatch ==
    /\ \A i \in DOMAIN cuts :
          cuts[i].from = IF i = 1 THEN 0 ELSE cuts[i - 1].upto
    /\ pc = "done" =>
          numRows = IF cuts = << >> THEN 0 ELSE cuts[Len(cuts)].upto

(* The bisection and the loop around it end for every batch. *)
Terminates == <>(pc = "done")
=============================================================================
