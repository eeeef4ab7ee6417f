----------------------------- MODULE RowDelivery -----------------------------
(***************************************************************************)
(* The part every stream_query has in common: the loop over the slices of  *)
(* a decoded batch, with a yield to the consumer for each of them.  Rows   *)
(* are known by their position in the result of the query.                 *)
(***************************************************************************)
EXTENDS Integers, Sequences

VARIABLES batch,    \* the decoded batch: what is left of it is from+1..upto
          slices    \* history: the slices yielded to the consumer

deliveryVars == <<batch, slices>>

DeliveryInit ==
    /\ batch = [from |-> 0, upto |-> 0]
    /\ slices = << >>

\* Position reached by the consumer: the end of the last slice
Covered == IF slices = << >> THEN 0 ELSE slices[Len(slices)].upto

\* Mutant: the position in the batch does not move
YieldSliceStuck(b) ==
    \E n \in 1..(b.upto - b.from) :
        /\ slices' = Append(slices, [from |-> b.from, upto |-> b.from + n])
        /\ batch' = b

\* iter_batch_slices: the next slice of batch b is some non-empty part of
\* what is left of it (BatchSlicing models how large).
YieldSlice(b) ==
    \E n \in 1..(b.upto - b.from) :
        /\ slices' = Append(slices, [from |-> b.from, upto |-> b.from + n])
        /\ batch' = [b EXCEPT !.from = b.from + n]

(* The slices the consumer gets are consecutive, non-empty parts of the
   result, from its first row on. *)
RowsInOrder ==
    \A i \in DOMAIN slices :
        /\ slices[i].from < slices[i].upto
        /\ slices[i].from = IF i = 1 THEN 0 ELSE slices[i - 1].upto
=============================================================================
