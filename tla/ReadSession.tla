----------------------------- MODULE ReadSession -----------------------------
(***************************************************************************)
(* What reading one scan task promises to Daft, whatever the transport: an *)
(* asynchronous generator that hands over the rows of one query in order,  *)
(* holds at most one server resource (a connection or a client), and gives *)
(* it back whichever way the reading ends.                                 *)
(*                                                                         *)
(* A resource can still be acquired after the caller has gone: a cancelled *)
(* read does not wait for a connect that is under way in another thread.   *)
(***************************************************************************)
EXTENDS Integers

CONSTANT Rows

VARIABLES stage,      \* "fresh", "active", "ending", "over"
          resource,   \* "none", "held", "released"
          handed,     \* rows handed to the consumer
          result      \* how the generator ended

vars == <<stage, resource, handed, result>>

\* "end": StopAsyncIteration; "exit": closed by the consumer; "close_error":
\* all rows were read and then the close failed
Results == {"none", "end", "error", "close_error", "cancelled", "exit"}

Init ==
    /\ stage = "fresh"
    /\ resource = "none"
    /\ handed = 0
    /\ result = "none"

Begin ==
    /\ stage = "fresh"
    /\ stage' = "active"
    /\ UNCHANGED <<resource, handed, result>>

\* aclose() of a generator nobody has iterated
NeverBegun ==
    /\ stage = "fresh"
    /\ stage' = "over"
    /\ result' = "exit"
    /\ UNCHANGED <<resource, handed>>

Acquire ==
    /\ stage # "fresh"
    /\ stage = "over" => result = "cancelled"
    /\ resource = "none"
    /\ resource' = "held"
    /\ UNCHANGED <<stage, handed, result>>

Deliver ==
    /\ stage = "active"
    /\ resource = "held"
    /\ handed' \in (handed + 1)..Rows
    /\ UNCHANGED <<stage, resource, result>>

GiveUp ==
    /\ stage = "active"
    /\ stage' = "ending"
    /\ UNCHANGED <<resource, handed, result>>

Release ==
    /\ stage \in {"ending", "over"}
    /\ resource = "held"
    /\ resource' = "released"
    /\ UNCHANGED <<stage, handed, result>>

\* The last step of the reader may be the one that releases.  Only a cancelled
\* reader may be gone before its resource is.
Finish ==
    /\ stage = "ending"
    /\ stage' = "over"
    /\ result' \in Results \ {"none"}
    /\ result' \in {"end", "close_error"} => handed = Rows
    /\ resource' \in {resource, IF resource = "held" THEN "released" ELSE resource}
    /\ result' # "cancelled" => resource' # "held"
    /\ UNCHANGED handed

\* The reading fails before anything was acquired
FinishEmpty ==
    /\ stage = "active"
    /\ resource = "none"
    /\ stage' = "over"
    /\ result' \in {"error", "cancelled"}
    /\ UNCHANGED <<resource, handed>>

Next ==
    \/ Begin \/ NeverBegun \/ Acquire \/ Deliver \/ GiveUp
    \/ Release \/ Finish \/ FinishEmpty

SafetySpec == Init /\ [][Next]_vars

\* Once the reading is being given up, the resource goes and the reader ends.
Spec == SafetySpec /\ WF_vars(Release) /\ WF_vars(Finish)
=============================================================================
