---------------------------- MODULE QueryProofs ----------------------------
(***************************************************************************)
(* Proofs about what is asked of a database and how its answer is read:    *)
(* the metadata queries of planning, the schema of a Doris table, and the  *)
(* way of a Daft filter into a WHERE clause.                               *)
(***************************************************************************)
EXTENDS MetadataQuery, SchemaPlan, PredicatePushdown, SharedLemmas, SequenceTheorems

-----------------------------------------------------------------------------
(* Metadata queries, for every size limit of the planning endpoint's answer *)

Steps == {"connect", "cursor", "query", "fetch", "interpret", "request", "read", "parse"}

Classes ==
    Signals \cup {"none", "driver", "interrupt", "DependencyError", "ConfigurationError",
                  "SchemaError", "CompatibilityError", "DiscoveryError", "HTTPException",
                  "RecursionError"}

\* Which handles a function holds at each step
HandleInv ==
    /\ pc \in {"request", "read", "parse"} => op = "doris_plan"
    /\ pc \in {"connect", "cursor", "query", "fetch", "interpret", "close_cursor",
               "close_conn"} => op # "doris_plan"
    /\ pc \in {"connect", "request"} => conn = "none" /\ cursor = "none"
    /\ pc = "cursor" => conn = "open" /\ cursor = "none" /\ IsDoris
    /\ pc \in {"query", "fetch", "interpret"} =>
          conn = "open" /\ cursor = IF IsDoris THEN "open" ELSE "none"
    /\ pc = "read" => conn = "open" /\ cursor = "none"
    /\ pc = "parse" => conn = "closed" /\ cursor = "none"
    /\ pc = "close_cursor" => IsDoris /\ (cursor = "open" => conn = "open")
    /\ pc = "close_conn" => cursor # "open"
    /\ pc \notin {"end", "done"} => httpStatus \notin ErrorStatuses
    /\ pc = "end" \/ (pc = "done" /\ ~cut) =>
          (conn = "open" <=> httpStatus \in ErrorStatuses) /\ cursor # "open"
    /\ cursor = "open" => IsDoris /\ conn = "open"

WellFormed(error) ==
    /\ error \in [class : Classes, signals : SUBSET Signals]
    /\ error.class = "none" => error = NoError
    /\ error.class = "interrupt" => error = Interrupt
    /\ error.signals # {} => error.class \in Signals \cup {"driver"}

\* What has left the try block, and what becomes of it
FailureInv ==
    /\ WellFormed(inflight)
    /\ inflight.class \in Signals => ~IsSchema
    /\ pc \in Steps => inflight = NoError /\ ~closeFailed
    /\ op = "doris_plan" => ~closeFailed
    /\ pc # "done" => ~cut
    /\ pc = "done" /\ cut => outcome = "interrupt"
    /\ pc = "done" /\ ~cut => outcome = EndOf

\* When the answer of the planning endpoint was sound, and what was taken from it
Sound ==
    Body <= MaxBody /\ Decodes /\ Verdict(response.payload) = "value"

AnswerInv ==
    /\ response # NoResponse => op = "doris_plan" /\ pc \in {"parse", "end", "done"}
    /\ response # NoResponse => response \in Responses
    /\ pc = "parse" => response # NoResponse /\ Body <= MaxBody
    /\ op = "doris_plan" => ~cut
    /\ response # NoResponse /\ pc \in {"end", "done"} =>
          /\ inflight = NoError => Sound
          /\ inflight = NoError =>
                tablets = {TabletId(raw) : raw \in response.payload.ids}
          /\ Sound => \/ inflight = NoError
                       \/ inflight.class \in {"interrupt", "RecursionError"}

\* How far the queries of a function are
CountInv ==
    /\ pc \in {"connect", "cursor"} => asked = 0
    /\ pc = "query" => asked < 3
    /\ pc = "fetch" => op = "doris_schema"
    /\ pc = "interpret" => op # "doris_bind"

IInv == TypeOK /\ CountInv /\ HandleInv /\ FailureInv /\ AnswerInv

-----------------------------------------------------------------------------
(* The errors that may be raised, and the answers that may come *)

(* What a driver raises is a well-formed error of class driver. *)
LEMMA DriverErrorsWellFormed ==
    ASSUME NEW error \in DriverErrors
    PROVE  WellFormed(error) /\ error.class = "driver"
  <1>1. PICK signals \in SUBSET Signals : error = Error("driver", signals)
    BY DEF DriverErrors
  <1> QED
    BY <1>1 DEF Error, WellFormed, Classes, Signals

(* An error of the connector's own classes is well formed. *)
LEMMA ConnectorWellFormed ==
    ASSUME NEW classes, classes \subseteq Classes \ {"none", "interrupt"},
           NEW error \in Connector(classes)
    PROVE  WellFormed(error) /\ error.class \in classes
  <1>1. PICK class \in classes : error = Error(class, {})
    BY DEF Connector
  <1> QED
    BY <1>1 DEF Error, WellFormed, Classes, Signals

(* An interrupt, and no error, are well formed. *)
LEMMA InterruptWellFormed == WellFormed(Interrupt) /\ WellFormed(NoError)
  BY DEF Interrupt, NoError, Error, WellFormed, Classes, Signals

(* What the planning request raises is well formed and keeps its class. *)
LEMMA PlanErrorWellFormed ==
    ASSUME NEW class \in Classes \ {"none"}
    PROVE  /\ WellFormed(Error(class, {class} \cap Signals))
           /\ Error(class, {class} \cap Signals).class = class
  BY DEF Interrupt, NoError, Error, WellFormed, Classes, Signals

(* What the interpretation of rows raises is well formed, and only a
   discovery, never a schema read, is answered with a capability signal. *)
LEMMA ObjectionsWellFormed ==
    ASSUME NEW error \in Objections, op \in Ops
    PROVE  WellFormed(error) /\ (error.class \in Signals => ~IsSchema)
  <1>1. CASE error = Error("driver", {})
    BY <1>1 DEF Error, WellFormed, Classes, Signals
  <1>2. CASE error \in Connector({"SchemaError", "CompatibilityError"})
    BY <1>2, ConnectorWellFormed DEF Classes, Signals
  <1>3. CASE ~IsSchema /\ error \in Connector({"DiscoveryError",
                                               "DatabaseObjectNotFoundError"})
    BY <1>3, ConnectorWellFormed DEF Classes, Signals
  <1>4. CASE error \in Connector({"DiscoveryError"})
    BY <1>4, ConnectorWellFormed DEF Classes, Signals
  <1> QED
    BY <1>1, <1>2, <1>3, <1>4 DEF Objections, IsSchema, Ops

(* The parts of an answer of the planning endpoint. *)
LEMMA ResponseFields ==
    ASSUME NEW answer \in Responses
    PROVE  /\ answer.size \in Nat /\ answer.document \in Nat
           /\ answer.payload \in Payloads
           /\ answer.payload.ids \subseteq RawIds
           /\ answer # NoResponse
  BY MaxBodyPositive DEF Responses, Payloads, NoResponse

(* The verdict over a payload is a value, a signal or a DiscoveryError. *)
LEMMA VerdictClass ==
    ASSUME NEW payload
    PROVE  Verdict(payload) \in Signals \cup {"DiscoveryError", "value"}
  BY DEF Verdict, Rejection, Signals

-----------------------------------------------------------------------------
(* The inductive invariant *)

(* Before a query starts the invariant holds. *)
LEMMA Initially == Init => IInv
  <1> SUFFICES ASSUME Init PROVE IInv
    OBVIOUS
  <1>1. TypeOK
    <2>1. op \in Ops /\ asked \in 0..3 /\ tablets \subseteq 1..2
      BY DEF Init
    <2>2. closeFailed \in BOOLEAN /\ cut \in BOOLEAN
      BY Zenon DEF Init
    <2> QED
      BY <2>1, <2>2 DEF Init, TypeOK
  <1>2. CountInv /\ HandleInv
    BY DEF Init, CountInv, HandleInv, IsDoris, Ops, ErrorStatuses
  <1>3. FailureInv
    BY InterruptWellFormed DEF Init, FailureInv, Steps, NoError, Error, Signals
  <1>4. AnswerInv
    BY DEF Init, AnswerInv
  <1> QED
    BY <1>1, <1>2, <1>3, <1>4 DEF IInv

(* Connecting. *)
LEMMA ConnectKeeps ==
    ASSUME IInv, Connect
    PROVE  IInv'
  <1>1. TypeOK' /\ CountInv'
    BY DEF IInv, TypeOK, CountInv, HandleInv, Ops, IsDoris, plan, Connect, Raises, Finally
  <1>2. HandleInv'
    BY DEF IInv, TypeOK, CountInv, HandleInv, Ops, IsDoris, plan, Connect, Raises, Finally
  <1>3. FailureInv'
    <2>1. CASE inflight' = inflight
      BY <2>1 DEF IInv, TypeOK, CountInv, HandleInv, FailureInv, IsSchema, Steps, plan, Connect,
         Raises, Finally
    <2>2. CASE inflight' # inflight
      <3>1. inflight' \in (DriverErrors \cup Connector({"DependencyError", "ConfigurationError"})) \cup {Interrupt}
        BY <2>2 DEF Connect, Raises, Finally
      <3>2. WellFormed(inflight') /\ (inflight'.class \in Signals => ~IsSchema)
        <4>1. CASE inflight' \in DriverErrors
          BY <4>1, DriverErrorsWellFormed DEF Signals
        <4>2. CASE inflight' \in Connector({"DependencyError", "ConfigurationError"})
          BY <4>2, ConnectorWellFormed DEF Classes, Signals
        <4> QED
          BY <3>1, <4>1, <4>2, InterruptWellFormed DEF Interrupt, Error, Signals
      <3> QED
        BY <2>2, <3>2 DEF IInv, TypeOK, CountInv, HandleInv, FailureInv, IsSchema, IsDoris,
                          Steps, plan, Connect, Raises, Finally
    <2> QED
      BY <2>1, <2>2
  <1>4. AnswerInv'
    BY DEF IInv, TypeOK, HandleInv, AnswerInv, plan, Connect, Raises, Finally
  <1> QED
    BY <1>1, <1>2, <1>3, <1>4 DEF IInv

(* Opening the cursor (Doris). *)
LEMMA OpenCursorKeeps ==
    ASSUME IInv, OpenCursor
    PROVE  IInv'
  <1>1. TypeOK' /\ CountInv'
    BY DEF IInv, TypeOK, CountInv, HandleInv, Ops, IsDoris, plan, OpenCursor, Raises, Finally
  <1>2. HandleInv'
    BY DEF IInv, TypeOK, CountInv, HandleInv, Ops, IsDoris, plan, OpenCursor, Raises, Finally
  <1>3. FailureInv'
    <2>1. CASE inflight' = inflight
      BY <2>1 DEF IInv, TypeOK, CountInv, HandleInv, FailureInv, IsSchema, Steps, plan, OpenCursor,
         Raises, Finally
    <2>2. CASE inflight' # inflight
      <3>1. inflight' \in (DriverErrors) \cup {Interrupt}
        BY <2>2 DEF OpenCursor, Raises, Finally
      <3>2. WellFormed(inflight') /\ (inflight'.class \in Signals => ~IsSchema)
        BY <3>1, DriverErrorsWellFormed, InterruptWellFormed
           DEF IInv, TypeOK, Interrupt, Error, Signals
      <3> QED
        BY <2>2, <3>2 DEF IInv, TypeOK, CountInv, HandleInv, FailureInv, IsSchema, IsDoris,
                          Steps, plan, OpenCursor, Raises, Finally
    <2> QED
      BY <2>1, <2>2
  <1>4. AnswerInv'
    BY DEF IInv, TypeOK, HandleInv, AnswerInv, plan, OpenCursor, Raises, Finally
  <1> QED
    BY <1>1, <1>2, <1>3, <1>4 DEF IInv

(* Sending the statement. *)
LEMMA QueryKeeps ==
    ASSUME IInv, Query
    PROVE  IInv'
  <1>1. TypeOK' /\ CountInv'
    BY DEF IInv, TypeOK, CountInv, HandleInv, Ops, IsDoris, plan, Query, Raises, Finally
  <1>2. HandleInv'
    BY DEF IInv, TypeOK, CountInv, HandleInv, Ops, IsDoris, plan, Query, Raises, Finally
  <1>3. FailureInv'
    <2>1. CASE inflight' = inflight
      BY <2>1 DEF IInv, TypeOK, CountInv, HandleInv, FailureInv, IsSchema, Steps, plan, Query,
         Raises, Finally
    <2>2. CASE inflight' # inflight
      <3>1. inflight' \in (DriverErrors) \cup {Interrupt}
        BY <2>2 DEF Query, Raises, Finally
      <3>2. WellFormed(inflight') /\ (inflight'.class \in Signals => ~IsSchema)
        BY <3>1, DriverErrorsWellFormed, InterruptWellFormed
           DEF IInv, TypeOK, Interrupt, Error, Signals
      <3> QED
        BY <2>2, <3>2 DEF IInv, TypeOK, CountInv, HandleInv, FailureInv, IsSchema, IsDoris,
                          Steps, plan, Query, Raises, Finally
    <2> QED
      BY <2>1, <2>2
  <1>4. AnswerInv'
    BY DEF IInv, TypeOK, HandleInv, AnswerInv, plan, Query, Raises, Finally
  <1> QED
    BY <1>1, <1>2, <1>3, <1>4 DEF IInv

(* Fetching the rows. *)
LEMMA FetchRowsKeeps ==
    ASSUME IInv, FetchRows
    PROVE  IInv'
  <1>1. TypeOK' /\ CountInv'
    BY DEF IInv, TypeOK, CountInv, HandleInv, Ops, IsDoris, plan, FetchRows, Raises, Finally
  <1>2. HandleInv'
    BY DEF IInv, TypeOK, CountInv, HandleInv, Ops, IsDoris, plan, FetchRows, Raises, Finally
  <1>3. FailureInv'
    <2>1. CASE inflight' = inflight
      BY <2>1 DEF IInv, TypeOK, CountInv, HandleInv, FailureInv, IsSchema, Steps, plan, FetchRows,
         Raises, Finally
    <2>2. CASE inflight' # inflight
      <3>1. inflight' \in (DriverErrors) \cup {Interrupt}
        BY <2>2 DEF FetchRows, Raises, Finally
      <3>2. WellFormed(inflight') /\ (inflight'.class \in Signals => ~IsSchema)
        BY <3>1, DriverErrorsWellFormed, InterruptWellFormed
           DEF IInv, TypeOK, Interrupt, Error, Signals
      <3> QED
        BY <2>2, <3>2 DEF IInv, TypeOK, CountInv, HandleInv, FailureInv, IsSchema, IsDoris,
                          Steps, plan, FetchRows, Raises, Finally
    <2> QED
      BY <2>1, <2>2
  <1>4. AnswerInv'
    BY DEF IInv, TypeOK, HandleInv, AnswerInv, plan, FetchRows, Raises, Finally
  <1> QED
    BY <1>1, <1>2, <1>3, <1>4 DEF IInv

(* Interpreting the rows, and what may be asked next. *)
LEMMA InterpretKeeps ==
    ASSUME IInv, Interpret
    PROVE  IInv'
  <1>1. TypeOK' /\ CountInv'
    BY DEF IInv, TypeOK, CountInv, HandleInv, Ops, IsDoris, plan, Interpret, MayStop, Needed,
       Raises, Finally
  <1>2. HandleInv'
    BY DEF IInv, TypeOK, CountInv, HandleInv, Ops, IsDoris, plan, Interpret, MayStop, Needed,
       Raises, Finally
  <1>3. FailureInv'
    <2>1. CASE inflight' = inflight
      BY <2>1 DEF IInv, TypeOK, CountInv, HandleInv, FailureInv, IsSchema, Steps, plan, Interpret,
         MayStop, Needed, Raises, Finally
    <2>2. CASE inflight' # inflight
      <3>1. inflight' \in (Objections) \cup {Interrupt}
        BY <2>2 DEF Interpret, MayStop, Needed, Raises, Finally
      <3>a. op \in Ops
        BY DEF IInv, TypeOK
      <3>b. WellFormed(Interrupt) /\ Interrupt.class \notin Signals
        BY InterruptWellFormed DEF Interrupt, Error, Signals
      <3>c. \A error \in Objections :
                WellFormed(error) /\ (error.class \in Signals => ~IsSchema)
        BY <3>a, ObjectionsWellFormed
      <3>2. WellFormed(inflight') /\ (inflight'.class \in Signals => ~IsSchema)
        BY ONLY <3>1, <3>b, <3>c
      <3> QED
        BY <2>2, <3>2 DEF IInv, TypeOK, CountInv, HandleInv, FailureInv, IsSchema, IsDoris,
                          Steps, plan, Interpret, MayStop, Needed, Raises, Finally
    <2> QED
      BY <2>1, <2>2
  <1>4. AnswerInv'
    BY DEF IInv, TypeOK, HandleInv, AnswerInv, plan, Interpret, MayStop, Needed, Raises, Finally
  <1> QED
    BY <1>1, <1>2, <1>3, <1>4 DEF IInv

(* Sending the request to the planning endpoint. *)
LEMMA RequestKeeps ==
    ASSUME IInv, Request
    PROVE  IInv'
  <1>1. TypeOK' /\ CountInv'
    BY DEF IInv, TypeOK, CountInv, HandleInv, Ops, IsDoris, plan, Request, PlanRaises,
       PlanInterrupted, NetworkClasses, HttpClass, ErrorStatuses
  <1>2. HandleInv'
    BY DEF IInv, TypeOK, CountInv, HandleInv, Ops, IsDoris, plan, Request, PlanRaises,
       PlanInterrupted, NetworkClasses, HttpClass, ErrorStatuses
  <1>3. FailureInv'
    <2>1. CASE inflight' = inflight
      BY <2>1 DEF IInv, TypeOK, HandleInv, FailureInv, IsSchema, Steps, Request, PlanRaises,
         PlanInterrupted, NetworkClasses, HttpClass
    <2>2. CASE inflight' # inflight
      <3>1. PICK class \in Classes \ {"none"} : PlanRaises(class)
        BY <2>2, VerdictClass DEF Classes, Signals, Request, PlanInterrupted, NetworkClasses,
           HttpClass, DecoderGivesUp
      <3> QED
        BY <3>1, PlanErrorWellFormed
           DEF IInv, HandleInv, FailureInv, IsSchema, Steps, PlanRaises, Request
    <2> QED
      BY <2>1, <2>2
  <1>4. AnswerInv'
    BY DEF IInv, TypeOK, HandleInv, AnswerInv, plan, Request, PlanRaises, PlanInterrupted,
       NetworkClasses, HttpClass
  <1> QED
    BY <1>1, <1>2, <1>3, <1>4 DEF IInv

(* Reading its bounded body. *)
LEMMA ReadBodyKeeps ==
    ASSUME IInv, ReadBody
    PROVE  IInv'
  <1>1. TypeOK' /\ CountInv'
    BY DEF IInv, TypeOK, CountInv, HandleInv, Ops, IsDoris, plan, ReadBody, PlanRaises,
       PlanInterrupted, NetworkClasses
  <1>2. HandleInv'
    BY DEF IInv, TypeOK, CountInv, HandleInv, Ops, IsDoris, plan, ReadBody, PlanRaises,
       PlanInterrupted, NetworkClasses
  <1>3. FailureInv'
    <2>1. CASE inflight' = inflight
      BY <2>1 DEF IInv, TypeOK, HandleInv, FailureInv, IsSchema, Steps, ReadBody, PlanRaises,
         PlanInterrupted, NetworkClasses
    <2>2. CASE inflight' # inflight
      <3>1. PICK class \in Classes \ {"none"} : PlanRaises(class)
        BY <2>2, VerdictClass DEF Classes, Signals, ReadBody, PlanInterrupted, NetworkClasses,
           HttpClass, DecoderGivesUp
      <3> QED
        BY <3>1, PlanErrorWellFormed
           DEF IInv, HandleInv, FailureInv, IsSchema, Steps, PlanRaises, ReadBody
    <2> QED
      BY <2>1, <2>2
  <1>4. AnswerInv'
    <2>1. op = "doris_plan" /\ op' = op /\ ~cut' /\ inflight = NoError
      BY DEF IInv, HandleInv, FailureInv, AnswerInv, ReadBody, Steps
    <2>2. CASE response' = response
      <3>1. response = NoResponse
        BY DEF IInv, AnswerInv, ReadBody
      <3> QED
        BY <2>1, <2>2, <3>1, ResponseFields DEF AnswerInv, ReadBody, PlanRaises, PlanInterrupted
    <2>3. CASE response' \in Responses /\ Body' > MaxBody /\ PlanRaises("DiscoveryError")
      <3>1. ~Sound'
        BY <2>3, MaxBodyPositive, ResponseFields DEF Sound, Body, ReadLimit, Min
      <3> QED
        BY <2>1, <2>3, <3>1, ResponseFields DEF AnswerInv, PlanRaises, Error, NoError
    <2>4. CASE response' \in Responses /\ Body' <= MaxBody /\ pc' = "parse"
      BY <2>1, <2>4, ResponseFields DEF AnswerInv
    <2> QED
      BY <2>2, <2>3, <2>4 DEF ReadBody
  <1> QED
    BY <1>1, <1>2, <1>3, <1>4 DEF IInv

(* Parsing the plan. *)
LEMMA ParsePlanKeeps ==
    ASSUME IInv, ParsePlan
    PROVE  IInv'
  <1>0. /\ response \in Responses /\ response # NoResponse /\ op = "doris_plan"
        /\ Sound' = Sound /\ Body <= MaxBody
    BY ResponseFields
       DEF IInv, HandleInv, AnswerInv, ParsePlan, Sound, Body, Decodes
  <1>a. {TabletId(raw) : raw \in response.payload.ids} \subseteq 0..2
    BY DEF TabletId
  <1>b. Verdict(response.payload) = "value" =>
            {TabletId(raw) : raw \in response.payload.ids} \subseteq 1..2
    BY <1>a DEF Verdict, TabletIdsValid, Rejection
  <1>1. TypeOK' /\ CountInv'
    BY <1>b DEF IInv, TypeOK, CountInv, HandleInv, Ops, IsDoris, plan, ParsePlan, PlanRaises,
                PlanInterrupted, DecoderGivesUp
  <1>2. HandleInv'
    BY DEF IInv, TypeOK, CountInv, HandleInv, Ops, IsDoris, plan, ParsePlan, PlanRaises,
       PlanInterrupted, DecoderGivesUp, Verdict, Rejection
  <1>3. FailureInv'
    <2>1. CASE inflight' = inflight
      BY <2>1 DEF IInv, TypeOK, HandleInv, FailureInv, IsSchema, Steps, ParsePlan, PlanRaises,
         PlanInterrupted, DecoderGivesUp
    <2>2. CASE inflight' # inflight
      <3>1. PICK class \in Classes \ {"none"} : PlanRaises(class)
        BY <2>2, VerdictClass DEF Classes, Signals, ParsePlan, PlanInterrupted, NetworkClasses,
           HttpClass, DecoderGivesUp
      <3> QED
        BY <3>1, PlanErrorWellFormed
           DEF IInv, HandleInv, FailureInv, IsSchema, Steps, PlanRaises, ParsePlan
    <2> QED
      BY <2>1, <2>2
  <1>4. AnswerInv'
    <2>1. inflight = NoError /\ ~cut /\ ~cut' /\ pc' = "end" /\ response' = response
      BY DEF IInv, FailureInv, AnswerInv, ParsePlan, PlanRaises, PlanInterrupted, DecoderGivesUp, Steps
    <2>2. CASE ~Sound /\ \E class \in Classes \ {"none"} : PlanRaises(class)
      BY <1>0, <2>1, <2>2 DEF AnswerInv, PlanRaises, Error, NoError, ParsePlan
    <2>3. CASE Sound /\ tablets' = {TabletId(raw) : raw \in response.payload.ids}
                    /\ inflight' = inflight
      BY <1>0, <2>1, <2>3 DEF AnswerInv, ParsePlan
    <2>4. CASE PlanInterrupted \/ DecoderGivesUp
      BY <1>0, <2>1, <2>4
         DEF AnswerInv, PlanInterrupted, DecoderGivesUp, PlanRaises, Error, NoError, Signals,
             ParsePlan
    <2> QED
      BY <1>0, <2>2, <2>3, <2>4, VerdictClass DEF ParsePlan, Sound, Classes, Signals
  <1> QED
    BY <1>1, <1>2, <1>3, <1>4 DEF IInv

(* Closing the cursor in the finally block. *)
LEMMA CloseCursorKeeps ==
    ASSUME IInv, CloseCursor
    PROVE  IInv'
  <1>1. TypeOK' /\ CountInv'
    BY DEF IInv, TypeOK, CountInv, HandleInv, Ops, IsDoris, plan, CloseCursor, CloseOne, Closed
  <1>2. HandleInv'
    BY DEF IInv, TypeOK, CountInv, HandleInv, Ops, IsDoris, plan, CloseCursor, CloseOne, Closed
  <1>3. FailureInv'
    BY DEF IInv, TypeOK, CountInv, HandleInv, FailureInv, IsSchema, plan, Steps, CloseCursor,
       CloseOne, Closed
  <1>4. AnswerInv'
    BY DEF IInv, TypeOK, HandleInv, AnswerInv, plan, CloseCursor, CloseOne, Closed
  <1> QED
    BY <1>1, <1>2, <1>3, <1>4 DEF IInv

(* Closing the connection in the finally block. *)
LEMMA CloseConnectionKeeps ==
    ASSUME IInv, CloseConnection
    PROVE  IInv'
  <1>1. TypeOK' /\ CountInv'
    BY DEF IInv, TypeOK, CountInv, HandleInv, Ops, IsDoris, plan, CloseConnection, CloseOne, Closed
  <1>2. HandleInv'
    BY DEF IInv, TypeOK, CountInv, HandleInv, Ops, IsDoris, plan, CloseConnection, CloseOne, Closed
  <1>3. FailureInv'
    BY DEF IInv, TypeOK, CountInv, HandleInv, FailureInv, IsSchema, plan, Steps, CloseConnection,
       CloseOne, Closed
  <1>4. AnswerInv'
    BY DEF IInv, TypeOK, HandleInv, AnswerInv, plan, CloseConnection, CloseOne, Closed
  <1> QED
    BY <1>1, <1>2, <1>3, <1>4 DEF IInv

(* Returning, or raising what was caught. *)
LEMMA EndKeeps ==
    ASSUME IInv, End
    PROVE  IInv'
  <1>1. TypeOK' /\ CountInv'
    BY DEF IInv, TypeOK, CountInv, HandleInv, Ops, IsDoris, plan, End
  <1>2. HandleInv'
    BY DEF IInv, TypeOK, CountInv, HandleInv, Ops, IsDoris, plan, End
  <1>3. FailureInv'
    BY DEF IInv, TypeOK, CountInv, HandleInv, FailureInv, IsSchema, plan, Steps, End,
           EndOf, Own, Reported, PassedOn, Translated
  <1>4. AnswerInv'
    BY DEF IInv, TypeOK, AnswerInv, plan, End, Sound, Body, Decodes
  <1> QED
    BY <1>1, <1>2, <1>3, <1>4 DEF IInv

(* Every step of a metadata query keeps the invariant. *)
LEMMA Inductive ==
    ASSUME IInv, [Next]_vars
    PROVE  IInv'
  <1>1. CASE UNCHANGED vars
    <2>1. TypeOK' /\ CountInv' /\ HandleInv'
      BY <1>1 DEF IInv, TypeOK, CountInv, HandleInv, vars, plan, IsDoris
    <2>2. FailureInv'
      BY <1>1 DEF IInv, FailureInv, vars, plan, IsSchema, EndOf, Own, Reported, PassedOn,
                  Translated
    <2>3. AnswerInv'
      BY <1>1 DEF IInv, AnswerInv, vars, plan, Sound, Body, Decodes
    <2> QED
      BY <2>1, <2>2, <2>3 DEF IInv
  <1> QED
    BY <1>1, ConnectKeeps, OpenCursorKeeps, QueryKeeps, FetchRowsKeeps,
       InterpretKeeps, RequestKeeps, ReadBodyKeeps, ParsePlanKeeps,
       CloseCursorKeeps, CloseConnectionKeeps, EndKeeps DEF Next

(* The handles, the failure in flight and the answer of the planning endpoint at
   every step of the five functions. *)
THEOREM Invariant == Spec => []IInv
  BY Initially, Inductive, PTL DEF Spec
-----------------------------------------------------------------------------
(* What follows from it *)

(* Type correctness of the functions that query metadata. *)
THEOREM TypeCorrect == Spec => []TypeOK
  <1>1. IInv => TypeOK
    BY DEF IInv
  <1> QED
    BY <1>1, Invariant, PTL

(* Whatever fails in a metadata query, its cursor, connection, client or response
   is closed when it ends, the cursor first, unless an interrupt hits the closing
   itself: all but the response of an HTTP error status, which nothing closes. *)
THEOREM EverythingReturned == Spec => []ResourcesReturned
  <1>1. IInv => ResourcesReturned
    BY DEF IInv, HandleInv, ResourcesReturned
  <1> QED
    BY <1>1, Invariant, PTL

(* What a caller sees of an error: never a value, and an interrupt as it is. *)
LEMMA ReportedClasses ==
    ASSUME NEW error, WellFormed(error), error # NoError,
           error.class \in Signals => ~IsSchema
    PROVE  /\ Reported(error) # "value"
           /\ error = Interrupt => Reported(error) = "interrupt"
           /\ error.class # "interrupt" => Reported(error) # "interrupt"
           /\ error.signals # {} \/ error.class \in Signals => Reported(error) \in Signals
           /\ error.class \in {"DependencyError", "CompatibilityError"} =>
                  Reported(error) = error.class
  <1>1. error.class \in Classes \ {"none"} /\ error.signals \subseteq Signals
    BY DEF WellFormed
  <1>2. CASE error.class = "interrupt"
    BY <1>2 DEF Reported, WellFormed, Interrupt, Error, Signals
  <1>3. CASE error.class = "driver"
    <2>1. Reported(error) = Translated(error.signals)
      BY <1>3 DEF Reported, PassedOn
    <2>2. error.signals # {} => Translated(error.signals) \in Signals
      BY <1>1 DEF Translated, Signals
    <2>3. Translated(error.signals) \in Signals \cup {"SchemaError", "DiscoveryError"}
      BY DEF Translated, Signals, Own
    <2> QED
      BY <1>3, <2>1, <2>2, <2>3 DEF Signals, Interrupt, Error
  <1>4. CASE error.class \notin {"interrupt", "driver"}
    BY <1>1, <1>4
       DEF WellFormed, Reported, PassedOn, Translated, Own, Classes, Signals, Interrupt, Error
  <1> QED
    BY <1>2, <1>3, <1>4

(* A failure over credentials, privileges or a missing object never ends as the
   class get_tasks falls back on, or as a value, wherever it is met and whatever
   else fails. *)
THEOREM FatalKept == Spec => []FatalStaysFatal
  <1>1. IInv => FatalStaysFatal
    BY ReportedClasses DEF IInv, FailureInv, FatalStaysFatal, EndOf, NoError, Error, Signals
  <1> QED
    BY <1>1, Invariant, PTL

(* No failure of a metadata query, of its closing included, is lost or turned
   into something else than its translation. *)
THEOREM FailuresVisible == Spec => []FailureVisible
  <1>1. IInv => FailureVisible
    <2> SUFFICES ASSUME IInv, pc = "done"
                 PROVE  /\ outcome = "value" => inflight = NoError /\ ~closeFailed
                        /\ inflight = Interrupt => outcome = "interrupt"
                        /\ inflight.class \in {"DependencyError", "CompatibilityError"} /\ ~cut
                              => outcome = inflight.class
                        /\ inflight = NoError /\ closeFailed /\ ~cut => outcome = Own
      BY DEF FailureVisible
    <2>1. CASE cut
      BY <2>1 DEF IInv, FailureInv
    <2>2. CASE ~cut /\ inflight # NoError
      BY <2>2, ReportedClasses DEF IInv, FailureInv, EndOf
    <2>3. CASE ~cut /\ inflight = NoError
      BY <2>3 DEF IInv, FailureInv, EndOf, NoError, Interrupt, Error, Own
    <2> QED
      BY <2>1, <2>2, <2>3
  <1> QED
    BY <1>1, Invariant, PTL

\* As many images as elements means that no two elements have the same one
LEMMA DistinctImages ==
    ASSUME NEW ids \in SUBSET RawIds
    PROVE  TabletIdsValid(ids) <=>
               LET images == {TabletId(raw) : raw \in ids}
               IN  0 \notin images /\ Cardinality(images) = Cardinality(ids)
  <1> DEFINE images == {TabletId(raw) : raw \in ids}
             f == [raw \in ids |-> TabletId(raw)]
  <1>1. IsFiniteSet(ids)
    <2>1. RawIds = ((({"1"} \cup {"01"}) \cup {"2"}) \cup {"-1"}) \cup {"x"}
      BY DEF RawIds
    <2>2. IsFiniteSet(RawIds)
      BY <2>1, FS_Singleton, FS_Union
    <2> QED
      BY <2>2, FS_Subset
  <1>2. f \in Surjection(ids, images)
    BY DEF Surjection
  <1>3. \A raw \in ids : TabletId(raw) \in 0..2
    BY DEF TabletId
  <1>4. Cardinality(images) = Cardinality(ids) <=> f \in Injection(ids, images)
    BY <1>1, <1>2, FS_Surjection
  <1>5. f \in Injection(ids, images) <=>
            \A raw, other \in ids : raw # other => TabletId(raw) # TabletId(other)
    BY <1>2 DEF Injection, Surjection, IsInjective
  <1> QED
    BY <1>3, <1>4, <1>5 DEF TabletIdsValid

(* What is read is the whole body, or more than a body may have. *)
LEMMA BodyIsBounded ==
    ASSUME response.size \in Nat
    PROVE  /\ Body <= MaxBody <=> response.size <= MaxBody
           /\ Body <= MaxBody => Body = response.size
  <1> DEFINE n == response.size
             S == {n, MaxBody + 1}
  <1>1. n \in Nat /\ MaxBody + 1 \in Nat
    BY MaxBodyPositive
  <1>2. Body = CHOOSE x \in S : \A y \in S : x <= y
    BY DEF Body, ReadLimit, Min
  <1> HIDE DEF n
  <1>3. \E x \in S : \A y \in S : x <= y
    <2>1. CASE n <= MaxBody + 1
      BY <1>1, <2>1
    <2>2. CASE ~(n <= MaxBody + 1)
      BY <1>1, <2>2
    <2> QED  BY <2>1, <2>2
  <1>4. Body \in S /\ \A y \in S : Body <= y
    <2> HIDE DEF S
    <2> QED  BY <1>2, <1>3
  <1>5. /\ Body = n \/ Body = MaxBody + 1
        /\ Body <= n /\ Body <= MaxBody + 1
    BY <1>4
  <1>6. /\ Body <= MaxBody <=> n <= MaxBody
        /\ Body <= MaxBody => Body = n
    BY ONLY <1>1, <1>5, MaxBodyPositive
  <1> QED  BY <1>6 DEF n

(* discover_tablets returns a plan for exactly the answers that are sound as a
   whole, for every limit on the size of an answer: one of exactly the limit is
   not refused, one that was cut never yields some of its tablets. *)
THEOREM PlansExact == Spec => []PlanExact
  <1>1. IInv => PlanExact
    <2> SUFFICES ASSUME IInv, pc = "done", response # NoResponse,
                        outcome \notin {"interrupt", "RecursionError"}
                 PROVE  PlanExact
      BY DEF PlanExact
    <2> DEFINE p == response.payload
               complete == /\ response.size <= MaxBody
                           /\ response.document \in 1..response.size
                           /\ response.document < response.size => response.tail = "blank"
               accepted == p.object /\ p.data /\ p.partitions /\ p.code = "0"
                              /\ p.status = "200"
               ids == {TabletId(raw) : raw \in p.ids}
               valid == 0 \notin ids /\ Cardinality(ids) = Cardinality(p.ids)
    <2>1. /\ response \in Responses /\ response.size \in Nat /\ response.document \in Nat
          /\ p.ids \subseteq RawIds
      BY ResponseFields DEF IInv, AnswerInv
    <2>2. Sound <=> complete /\ accepted /\ valid
      <3>1. Body <= MaxBody <=> response.size <= MaxBody
        BY <2>1, BodyIsBounded
      <3>2. Body <= MaxBody => Body = response.size
        BY <2>1, BodyIsBounded
      <3>3. Body <= MaxBody /\ Decodes <=> complete
        BY <2>1, <3>1, <3>2 DEF Decodes
      <3>4. TabletIdsValid(p.ids) <=> valid
        BY <2>1, DistinctImages
      <3>5. Verdict(p) = "value" <=> accepted /\ TabletIdsValid(p.ids)
        BY DEF Verdict, Rejection
      <3> QED
        BY <3>3, <3>4, <3>5 DEF Sound
    <2>3. outcome = "value" <=> inflight = NoError
      <3>1. ~cut /\ ~closeFailed /\ outcome = EndOf
        BY DEF IInv, AnswerInv, FailureInv
      <3> QED
        BY <3>1, ReportedClasses DEF IInv, FailureInv, EndOf
    <2>4. inflight.class \notin {"interrupt", "RecursionError"}
      <3>1. outcome = EndOf /\ op = "doris_plan" /\ WellFormed(inflight)
        BY DEF IInv, AnswerInv, FailureInv
      <3>2. inflight.class # "interrupt"
        BY <3>1, ReportedClasses
           DEF IInv, FailureInv, EndOf, WellFormed, NoError, Interrupt, Error
      <3>3. inflight.class = "RecursionError" => outcome = "RecursionError"
        BY <3>1 DEF EndOf, NoError, Error, Reported, PassedOn, IsSchema
      <3> QED
        BY <3>2, <3>3
    <2>5. /\ inflight = NoError <=> Sound
          /\ inflight = NoError => tablets = ids
      BY <2>4 DEF IInv, AnswerInv
    <2> QED
      BY <2>2, <2>3, <2>5 DEF PlanExact
  <1> QED
    BY <1>1, Invariant, PTL

-----------------------------------------------------------------------------
(* canonical_schema of doris/schema.py *)

\* A Doris schema is planned in one step, from rows that do not change, and
\* only if every one of them is accepted
DorisInv ==
    /\ \E n \in Nat : DOMAIN rows = 1..n /\ rows = [i \in 1..n |-> rows[i]]
    /\ dialect = "doris" =>
          /\ \A i \in DOMAIN rows : ~rows[i].declared.hasArgs => rows[i].declared.args = << >>
          /\ stage \in {"describe", "planned", "refused"}
          /\ stage = "planned" =>
                DorisAccepted /\ columns = [i \in DOMAIN rows |-> DorisField(rows[i])]

(* What DESCRIBE may return is a sequence of rows. *)
LEMMA RowsAreASequence ==
    ASSUME NEW ds, NEW few, NEW r \in RowsOver(ds, few)
    PROVE  /\ \E n \in Nat : DOMAIN r = 1..n /\ r = [i \in 1..n |-> r[i]]
           /\ \A i \in DOMAIN r : r[i].declared \in ds \cup few
  <1>1. CASE r \in {<<Row("a", "ok", d, "YES")>> : d \in ds}
    <2>1. PICK d \in ds : r = <<Row("a", "ok", d, "YES")>>
      BY <1>1
    <2>2. DOMAIN r = 1..1 /\ r = [i \in 1..1 |-> r[i]] /\ r[1].declared = d
      BY <2>1 DEF Row
    <2> QED  BY <2>2
  <1>2. ASSUME NEW n \in 0..2,
               r \in [1..n -> {Row(name, shape, d, nullable) :
                            name \in {"a", "b"}, shape \in {"ok", "malformed"},
                            d \in few, nullable \in {"YES", "NO", "other"}}]
        PROVE  /\ \E m \in Nat : DOMAIN r = 1..m /\ r = [i \in 1..m |-> r[i]]
               /\ \A i \in DOMAIN r : r[i].declared \in ds \cup few
    <2>1. n \in Nat /\ DOMAIN r = 1..n /\ r = [i \in 1..n |-> r[i]]
      BY <1>2
    <2>2. ASSUME NEW i \in DOMAIN r PROVE r[i].declared \in few
      BY <1>2, <2>1 DEF Row
    <2> QED  BY <2>1, <2>2
  <1> QED  BY <1>1, <1>2 DEF RowsOver

(* DorisInv holds before anything is described. *)
LEMMA DorisInitially == SchemaInit => DorisInv
  <1> SUFFICES ASSUME SchemaInit PROVE DorisInv
    OBVIOUS
  <1>1. \E n \in Nat : DOMAIN rows = 1..n /\ rows = [i \in 1..n |-> rows[i]]
    BY RowsAreASequence DEF SchemaInit
  <1>2. ASSUME dialect = "doris", NEW i \in DOMAIN rows, ~rows[i].declared.hasArgs
        PROVE  rows[i].declared.args = << >>
    <2>1. rows[i].declared \in DorisDeclarations \cup FewDoris
      BY <1>2, RowsAreASequence DEF SchemaInit
    <2>2. \A d \in FewDoris : d.args = << >>
      BY DEF FewDoris, Bare, Declared
    <2> QED  BY <1>2, <2>1, <2>2, DeclarationsAssumption
  <1> QED  BY <1>1, <1>2 DEF DorisInv, SchemaInit

(* Only DescribeRows plans a Doris schema. *)
LEMMA DorisStep == DorisInv /\ [SchemaNext]_schemaVars => DorisInv'
  <1> SUFFICES ASSUME DorisInv, [SchemaNext]_schemaVars PROVE DorisInv'
    OBVIOUS
  <1>1. CASE DescribeRows
    BY <1>1 DEF DorisInv, DescribeRows, DorisAccepted, RowsWellFormed, NamesDistinct
  <1>2. CASE DescribeColumns \/ Project
    BY <1>2 DEF DorisInv, DescribeColumns, Project
  <1>3. CASE ProbeSchema \/ RenderProjection
    BY <1>3 DEF DorisInv, ProbeSchema, RenderProjection
  <1>4. CASE UNCHANGED schemaVars
    BY <1>4 DEF DorisInv, schemaVars, DorisAccepted, RowsWellFormed, NamesDistinct
  <1> QED  BY <1>1, <1>2, <1>3, <1>4 DEF SchemaNext

(* doris_type_to_arrow never chooses a type that is too small. *)
LEMMA ArrowHolds ==
    ASSUME NEW d, ~d.hasArgs => d.args = << >>, DorisTypeToArrow(d) # NoArrow
    PROVE  LET held == DorisHolds(d)
               arrow == DorisTypeToArrow(d)
           IN  /\ held.size <= arrow.size
               /\ held.scale <= arrow.scale
               /\ arrow.family = "decimal128" => arrow.size <= 38 /\ arrow.scale = held.scale
  <1> USE DEF Arrow, NoArrow
  <1>1. CASE d.base \in DOMAIN SimpleArrow
    <2>1. DorisTypeToArrow(d) = SimpleArrow[d.base]
      BY <1>1 DEF DorisTypeToArrow, StringLengthLimits, SimpleArrow
    <2> QED  BY <1>1, <2>1 DEF SimpleArrow, DorisHolds
  <1>2. CASE d.base \in DOMAIN StringLengthLimits
    BY <1>2 DEF DorisTypeToArrow, StringLengthLimits, SimpleArrow, DorisHolds
  <1>3. CASE d.base = "DATETIME"
    <2>1. DorisTypeToArrow(d) = Arrow("timestamp", 64, 6)
      BY <1>3 DEF DorisTypeToArrow, StringLengthLimits, SimpleArrow
    <2>2. d.args = << >> \/ (Len(d.args) = 1 /\ d.args[1] \in 0..6)
      BY <1>3 DEF DorisTypeToArrow, StringLengthLimits, SimpleArrow, BoundedArgument,
                  MaxDateTimePrecision
    <2> QED  BY <1>3, <2>1, <2>2 DEF DorisHolds
  <1>4. CASE d.base = "DECIMAL"
    <2>1. DorisTypeToArrow(d) = DecimalToArrow(d)
      BY <1>4 DEF DorisTypeToArrow, StringLengthLimits, SimpleArrow
    <2>2. /\ Len(d.args) = 2 /\ d.args[1] \in 1..38 /\ d.args[2] \in 0..d.args[1]
          /\ DorisTypeToArrow(d) = Arrow("decimal128", d.args[1], d.args[2])
      BY <2>1 DEF DecimalToArrow, MaxPrecision
    <2>3. PICK p \in 1..38 : p = d.args[1]
      BY <2>2
    <2>4. PICK q \in 0..p : q = d.args[2]
      BY <2>2, <2>3
    <2>5. DorisHolds(d) = [size |-> p, scale |-> q]
      BY <1>4, <2>2, <2>3, <2>4 DEF DorisHolds
    <2>6. DorisTypeToArrow(d) = [family |-> "decimal128", size |-> p, scale |-> q]
      BY <2>2, <2>3, <2>4
    <2> QED  BY <2>5, <2>6
  <1>5. CASE /\ d.base \notin DOMAIN SimpleArrow \cup DOMAIN StringLengthLimits
             /\ d.base # "DATETIME" /\ d.base # "DECIMAL"
    BY <1>5 DEF DorisTypeToArrow
  <1> QED  BY <1>1, <1>2, <1>3, <1>4, <1>5

(* For every table of Doris, a schema is accepted as a whole or not at all and
   the Arrow type of a column holds all of its values. *)
THEOREM DorisSchemasFit == SchemaSpec => []DorisValuesFit
  <1>1. DorisInv => DorisValuesFit
    <2> SUFFICES ASSUME DorisInv, dialect = "doris", stage = "planned"
                 PROVE  /\ Len(columns) = Len(rows)
                        /\ \A i \in DOMAIN rows :
                              LET held == DorisHolds(rows[i].declared)
                                  arrow == columns[i].arrow
                              IN  /\ columns[i].name = rows[i].name
                                  /\ held.size <= arrow.size
                                  /\ held.scale <= arrow.scale
                                  /\ arrow.family = "decimal128" =>
                                        arrow.size <= 38 /\ arrow.scale = held.scale
      BY DEF DorisValuesFit
    <2>1. PICK n \in Nat : DOMAIN rows = 1..n
      BY DEF DorisInv
    <2>2. columns = [i \in 1..n |-> DorisField(rows[i])] /\ DorisAccepted
      BY <2>1 DEF DorisInv
    <2>3. Len(columns) = n /\ Len(rows) = n
      BY <2>1, <2>2 DEF DorisInv
    <2>4. ASSUME NEW i \in DOMAIN rows
          PROVE  /\ columns[i].name = rows[i].name
                 /\ columns[i].arrow = DorisTypeToArrow(rows[i].declared)
                 /\ DorisTypeToArrow(rows[i].declared) # NoArrow
                 /\ ~rows[i].declared.hasArgs => rows[i].declared.args = << >>
      BY <2>1, <2>2 DEF DorisField, DorisAccepted, DorisInv
    <2> QED  BY <2>3, <2>4, ArrowHolds
  <1> QED  BY <1>1, DorisInitially, DorisStep, PTL DEF SchemaSpec

-----------------------------------------------------------------------------
(* compile_filter *)

\* The trees up to height m
IsTrees(f, m) ==
    f = [n \in 0..m |->
            IF n = 0 THEN {}
            ELSE {e \in [kind : TreeKinds, val : Int, args : Seq(f[n - 1])] : Shape(e)}]

(* Growing trees by one node is well defined. *)
LEMMA TreesExists ==
    ASSUME NEW m \in Nat
    PROVE  \E f : IsTrees(f, m)
  <1> DEFINE More(n, prev) ==
               {e \in [kind : TreeKinds, val : Int, args : Seq(prev)] : Shape(e)}
             Is(f, n) == f = [k \in 0..n |-> IF k = 0 THEN {} ELSE More(k, f[k - 1])]
             T == {n \in Nat : \E f : Is(f, n)}
  <1> HIDE DEF More
  <1>1. 0 \in T
    <2> DEFINE f == [k \in 0..0 |-> {}]
    <2>1. \A k \in 0..0 : k = 0
      OBVIOUS
    <2>2. Is(f, 0)
      BY <2>1
    <2> QED  BY <2>2
  <1>2. ASSUME NEW n \in Nat, n \in T PROVE n + 1 \in T
    <2>1. PICK g : Is(g, n)
      BY <1>2
    <2> DEFINE f == [k \in 0..(n + 1) |-> IF k = n + 1 THEN More(k, g[n]) ELSE g[k]]
    <2>2. ASSUME NEW k \in 0..(n + 1)
          PROVE  f[k] = IF k = 0 THEN {} ELSE More(k, f[k - 1])
      <3>1. CASE k = n + 1
        <4>1. f[k] = More(k, g[n]) /\ k # 0 /\ f[k - 1] = g[n]
          BY <3>1
        <4> QED  BY <4>1
      <3>2. CASE k # n + 1
        <4>1. k \in 0..n /\ f[k] = g[k]
          BY <3>2
        <4>2. g[k] = IF k = 0 THEN {} ELSE More(k, g[k - 1])
          BY <2>1, <4>1
        <4>3. k # 0 => f[k - 1] = g[k - 1]
          BY <4>1
        <4> QED  BY <4>1, <4>2, <4>3
      <3> QED  BY <3>1, <3>2
    <2>3. f = [k \in 0..(n + 1) |-> f[k]]
      OBVIOUS
    <2> HIDE DEF f
    <2>4. Is(f, n + 1)
      BY <2>2, <2>3
    <2> HIDE DEF Is
    <2> QED  BY <2>4
  <1>3. m \in T
    <2> HIDE DEF T
    <2> QED  BY <1>1, <1>2, SetInduction
  <1>4. PICK f : Is(f, m)
    BY <1>3
  <1>5. IsTrees(f, m)
    BY <1>4 DEF IsTrees, More
  <1> QED  BY <1>5

(* Trees of height n have trees of height n - 1 below their root. *)
LEMMA TreesUnfold ==
    /\ MaxHeight \in Nat
    /\ Trees[0] = {}
    /\ \A n \in 1..(MaxHeight + 1) :
          Trees[n] = {e \in [kind : TreeKinds, val : Int, args : Seq(Trees[n - 1])] : Shape(e)}
  <1> DEFINE f == CHOOSE g : IsTrees(g, MaxHeight + 1)
  <1>1. Trees = f
    BY Zenon DEF Trees, Heights, IsTrees
  <1>2. MaxHeight \in Nat /\ MaxHeight + 1 \in Nat
    BY FiltersAssumption
  <1>3. IsTrees(f, MaxHeight + 1)
    BY <1>2, TreesExists
  <1> HIDE DEF f
  <1>4. Trees[0] = {}
    BY <1>1, <1>2, <1>3 DEF IsTrees
  <1>5. ASSUME NEW n \in 1..(MaxHeight + 1)
        PROVE  Trees[n] = {e \in [kind : TreeKinds, val : Int, args : Seq(Trees[n - 1])] : Shape(e)}
    <2>1. n \in 0..(MaxHeight + 1) /\ n # 0
      BY <1>2
    <2> QED  BY <1>1, <1>3, <2>1 DEF IsTrees
  <1> QED  BY <1>2, <1>4, <1>5

\* What Visit makes of trees up to height m
IsVisit(f, m) ==
    f = [n \in 0..m |->
            IF n = 0 THEN << >>
            ELSE [t \in Trees[n] |->
                     VisitNode(t, [i \in DOMAIN t.args |-> f[n - 1][t.args[i]]])]]

(* Compiling from the leaves up is well defined. *)
LEMMA VisitExists ==
    ASSUME NEW m \in Nat
    PROVE  \E f : IsVisit(f, m)
  <1> DEFINE More(n, prev) ==
               [t \in Trees[n] |->
                     VisitNode(t, [i \in DOMAIN t.args |-> prev[t.args[i]]])]
             Is(f, n) == f = [k \in 0..n |-> IF k = 0 THEN << >> ELSE More(k, f[k - 1])]
             T == {n \in Nat : \E f : Is(f, n)}
  <1> HIDE DEF More
  <1>1. 0 \in T
    <2> DEFINE f == [k \in 0..0 |-> << >>]
    <2>1. \A k \in 0..0 : k = 0
      OBVIOUS
    <2>2. Is(f, 0)
      BY <2>1
    <2> QED  BY <2>2
  <1>2. ASSUME NEW n \in Nat, n \in T PROVE n + 1 \in T
    <2>1. PICK g : Is(g, n)
      BY <1>2
    <2> DEFINE f == [k \in 0..(n + 1) |-> IF k = n + 1 THEN More(k, g[n]) ELSE g[k]]
    <2>2. ASSUME NEW k \in 0..(n + 1)
          PROVE  f[k] = IF k = 0 THEN << >> ELSE More(k, f[k - 1])
      <3>1. CASE k = n + 1
        <4>1. f[k] = More(k, g[n]) /\ k # 0 /\ f[k - 1] = g[n]
          BY <3>1
        <4> QED  BY <4>1
      <3>2. CASE k # n + 1
        <4>1. k \in 0..n /\ f[k] = g[k]
          BY <3>2
        <4>2. g[k] = IF k = 0 THEN << >> ELSE More(k, g[k - 1])
          BY <2>1, <4>1
        <4>3. k # 0 => f[k - 1] = g[k - 1]
          BY <4>1
        <4> QED  BY <4>1, <4>2, <4>3
      <3> QED  BY <3>1, <3>2
    <2>3. f = [k \in 0..(n + 1) |-> f[k]]
      OBVIOUS
    <2> HIDE DEF f
    <2>4. Is(f, n + 1)
      BY <2>2, <2>3
    <2> HIDE DEF Is
    <2> QED  BY <2>4
  <1>3. m \in T
    <2> HIDE DEF T
    <2> QED  BY <1>1, <1>2, SetInduction
  <1>4. PICK f : Is(f, m)
    BY <1>3
  <1>5. IsVisit(f, m)
    BY <1>4 DEF IsVisit, More
  <1> QED  BY <1>5

(* Visit compiles operands before the node above them. *)
LEMMA VisitIs == \E f : IsVisit(f, MaxHeight) /\ \A e : Visit(e) = f[MaxHeight][e]
  <1> DEFINE f == CHOOSE g : IsVisit(g, MaxHeight)
  <1>1. \A e : Visit(e) = f[MaxHeight][e]
    BY Zenon DEF Visit, IsVisit
  <1>2. IsVisit(f, MaxHeight)
    BY FiltersAssumption, VisitExists
  <1> HIDE DEF f
  <1> QED  BY <1>1, <1>2

\* The truth of a predicate, up to height m
IsSql(f, row, m) ==
    f = [n \in 0..m |->
            IF n = 0 THEN << >>
            ELSE [t \in Trees[n] |->
                     SqlNode(t, [i \in DOMAIN t.args |-> f[n - 1][t.args[i]]], row)]]

(* The truth of a predicate is well defined. *)
LEMMA SqlExists ==
    ASSUME NEW row, NEW m \in Nat
    PROVE  \E f : IsSql(f, row, m)
  <1> DEFINE More(n, prev) ==
               [t \in Trees[n] |->
                     SqlNode(t, [i \in DOMAIN t.args |-> prev[t.args[i]]], row)]
             Is(f, n) == f = [k \in 0..n |-> IF k = 0 THEN << >> ELSE More(k, f[k - 1])]
             T == {n \in Nat : \E f : Is(f, n)}
  <1> HIDE DEF More
  <1>1. 0 \in T
    <2> DEFINE f == [k \in 0..0 |-> << >>]
    <2>1. \A k \in 0..0 : k = 0
      OBVIOUS
    <2>2. Is(f, 0)
      BY <2>1
    <2> QED  BY <2>2
  <1>2. ASSUME NEW n \in Nat, n \in T PROVE n + 1 \in T
    <2>1. PICK g : Is(g, n)
      BY <1>2
    <2> DEFINE f == [k \in 0..(n + 1) |-> IF k = n + 1 THEN More(k, g[n]) ELSE g[k]]
    <2>2. ASSUME NEW k \in 0..(n + 1)
          PROVE  f[k] = IF k = 0 THEN << >> ELSE More(k, f[k - 1])
      <3>1. CASE k = n + 1
        <4>1. f[k] = More(k, g[n]) /\ k # 0 /\ f[k - 1] = g[n]
          BY <3>1
        <4> QED  BY <4>1
      <3>2. CASE k # n + 1
        <4>1. k \in 0..n /\ f[k] = g[k]
          BY <3>2
        <4>2. g[k] = IF k = 0 THEN << >> ELSE More(k, g[k - 1])
          BY <2>1, <4>1
        <4>3. k # 0 => f[k - 1] = g[k - 1]
          BY <4>1
        <4> QED  BY <4>1, <4>2, <4>3
      <3> QED  BY <3>1, <3>2
    <2>3. f = [k \in 0..(n + 1) |-> f[k]]
      OBVIOUS
    <2> HIDE DEF f
    <2>4. Is(f, n + 1)
      BY <2>2, <2>3
    <2> HIDE DEF Is
    <2> QED  BY <2>4
  <1>3. m \in T
    <2> HIDE DEF T
    <2> QED  BY <1>1, <1>2, SetInduction
  <1>4. PICK f : Is(f, m)
    BY <1>3
  <1>5. IsSql(f, row, m)
    BY <1>4 DEF IsSql, More
  <1> QED  BY <1>5

(* The truth of a predicate is that of its root, from those of its operands. *)
LEMMA SqlIs ==
    ASSUME NEW row
    PROVE  \E f : IsSql(f, row, MaxHeight + 1) /\ \A e : SqlTruth(e, row) = f[MaxHeight + 1][e]
  <1> DEFINE f == CHOOSE g : IsSql(g, row, MaxHeight + 1)
  <1>1. \A e : SqlTruth(e, row) = f[MaxHeight + 1][e]
    BY Zenon DEF SqlTruth, IsSql, Heights
  <1>2. MaxHeight + 1 \in Nat
    BY FiltersAssumption
  <1>3. IsSql(f, row, MaxHeight + 1)
    BY <1>2, SqlExists
  <1> HIDE DEF f
  <1> QED  BY <1>1, <1>3

\* The truth of a filter, up to height m
IsDaft(f, row, m) ==
    f = [n \in 0..m |->
            IF n = 0 THEN << >>
            ELSE [t \in Trees[n] |->
                     DaftNode(t, [i \in DOMAIN t.args |-> f[n - 1][t.args[i]]], row)]]

(* The truth of a filter is well defined. *)
LEMMA DaftExists ==
    ASSUME NEW row, NEW m \in Nat
    PROVE  \E f : IsDaft(f, row, m)
  <1> DEFINE More(n, prev) ==
               [t \in Trees[n] |->
                     DaftNode(t, [i \in DOMAIN t.args |-> prev[t.args[i]]], row)]
             Is(f, n) == f = [k \in 0..n |-> IF k = 0 THEN << >> ELSE More(k, f[k - 1])]
             T == {n \in Nat : \E f : Is(f, n)}
  <1> HIDE DEF More
  <1>1. 0 \in T
    <2> DEFINE f == [k \in 0..0 |-> << >>]
    <2>1. \A k \in 0..0 : k = 0
      OBVIOUS
    <2>2. Is(f, 0)
      BY <2>1
    <2> QED  BY <2>2
  <1>2. ASSUME NEW n \in Nat, n \in T PROVE n + 1 \in T
    <2>1. PICK g : Is(g, n)
      BY <1>2
    <2> DEFINE f == [k \in 0..(n + 1) |-> IF k = n + 1 THEN More(k, g[n]) ELSE g[k]]
    <2>2. ASSUME NEW k \in 0..(n + 1)
          PROVE  f[k] = IF k = 0 THEN << >> ELSE More(k, f[k - 1])
      <3>1. CASE k = n + 1
        <4>1. f[k] = More(k, g[n]) /\ k # 0 /\ f[k - 1] = g[n]
          BY <3>1
        <4> QED  BY <4>1
      <3>2. CASE k # n + 1
        <4>1. k \in 0..n /\ f[k] = g[k]
          BY <3>2
        <4>2. g[k] = IF k = 0 THEN << >> ELSE More(k, g[k - 1])
          BY <2>1, <4>1
        <4>3. k # 0 => f[k - 1] = g[k - 1]
          BY <4>1
        <4> QED  BY <4>1, <4>2, <4>3
      <3> QED  BY <3>1, <3>2
    <2>3. f = [k \in 0..(n + 1) |-> f[k]]
      OBVIOUS
    <2> HIDE DEF f
    <2>4. Is(f, n + 1)
      BY <2>2, <2>3
    <2> HIDE DEF Is
    <2> QED  BY <2>4
  <1>3. m \in T
    <2> HIDE DEF T
    <2> QED  BY <1>1, <1>2, SetInduction
  <1>4. PICK f : Is(f, m)
    BY <1>3
  <1>5. IsDaft(f, row, m)
    BY <1>4 DEF IsDaft, More
  <1> QED  BY <1>5

(* The truth of a filter is that of its root, from those of its operands. *)
LEMMA DaftIs ==
    ASSUME NEW row
    PROVE  \E f : IsDaft(f, row, MaxHeight) /\ \A e : DaftTruth(e, row) = f[MaxHeight][e]
  <1> DEFINE f == CHOOSE g : IsDaft(g, row, MaxHeight)
  <1>1. \A e : DaftTruth(e, row) = f[MaxHeight][e]
    BY Zenon DEF DaftTruth, IsDaft
  <1>2. MaxHeight \in Nat
    BY FiltersAssumption
  <1>3. IsDaft(f, row, MaxHeight)
    BY <1>2, DaftExists
  <1> HIDE DEF f
  <1> QED  BY <1>1, <1>3

(* A column or a literal has no operands: it is a tree of every height. *)
LEMMA LeafIsTree ==
    ASSUME NEW n \in 1..(MaxHeight + 1), NEW e \in Trees[n], e.kind \in {"col", "lit"},
           NEW k \in 1..(MaxHeight + 1)
    PROVE  e \in Trees[k]
  <1>1. e \in [kind : TreeKinds, val : Int, args : Seq(Trees[n - 1])] /\ Shape(e)
    BY TreesUnfold
  <1>2. e.args = << >>
    BY <1>1 DEF Shape
  <1>3. << >> \in Seq(Trees[k - 1])
    OBVIOUS
  <1>4. e \in [kind : TreeKinds, val : Int, args : Seq(Trees[k - 1])]
    BY <1>1, <1>2, <1>3
  <1> QED  BY <1>1, <1>4, TreesUnfold

(* The root of a tree, and what is below it. *)
LEMMA TreeParts ==
    ASSUME NEW n \in 1..(MaxHeight + 1), NEW e \in Trees[n]
    PROVE  /\ e = Node(e.kind, e.val, e.args) /\ e.kind \in TreeKinds /\ e.val \in Int
           /\ e.args \in Seq(Trees[n - 1]) /\ DOMAIN e.args = 1..Len(e.args)
           /\ Len(e.args) \in Nat /\ Shape(e)
           /\ \A i \in DOMAIN e.args : e.args[i] \in Trees[n - 1]
  <1>1. e \in [kind : TreeKinds, val : Int, args : Seq(Trees[n - 1])] /\ Shape(e)
    BY TreesUnfold
  <1> QED  BY <1>1 DEF Node

(* A node over trees is a tree. *)
LEMMA OpIsTree ==
    ASSUME NEW n \in 1..MaxHeight, NEW kind \in TreeKinds, NEW args \in Seq(Trees[n]),
           Shape(Op(kind, args))
    PROVE  Op(kind, args) \in Trees[n + 1]
  <1>1. n + 1 \in 1..(MaxHeight + 1) /\ (n + 1) - 1 = n
    BY TreesUnfold
  <1>2. Trees[n + 1] = {e \in [kind : TreeKinds, val : Int, args : Seq(Trees[n])] : Shape(e)}
    BY <1>1, TreesUnfold
  <1>3. Op(kind, args) \in [kind : TreeKinds, val : Int, args : Seq(Trees[n])]
    BY DEF Op, Node
  <1> QED  BY <1>2, <1>3

\* What a compiled expression p has in common with the expression e: a value is
\* the same value, and a predicate is true of the same rows
Means(p, e, n, sql, daft) ==
    /\ p.kind \in {"col", "lit"} => p = e
    /\ p.kind \in PredicateKinds => p \in Trees[n + 1] /\ sql[n + 1][p] = daft[n][e]

\* Functions that evaluate trees of height n from those of their operands
Evaluates(n, row, sql, daft) ==
    /\ \A q \in Trees[n + 1] :
          sql[n + 1][q] = SqlNode(q, [i \in DOMAIN q.args |-> sql[n][q.args[i]]], row)
    /\ \A e \in Trees[n] :
          daft[n][e] = DaftNode(e, [i \in DOMAIN e.args |-> daft[n - 1][e.args[i]]], row)

\* Operands that were compiled, and their values
Operands(e, operand, n, sql, daft) ==
    /\ operand = [i \in DOMAIN e.args |-> operand[i]]
    /\ \A i \in DOMAIN e.args : Means(operand[i], e.args[i], n - 1, sql, daft)

ValuesOf(operand) == [i \in DOMAIN operand |-> ValueOf(operand[i])]

(* _value passes columns and literals on as they are. *)
LEMMA ValuesKept ==
    ASSUME NEW n \in 1..MaxHeight, NEW e \in Trees[n], NEW operand, NEW sql, NEW daft,
           Operands(e, operand, n, sql, daft)
    PROVE  /\ DOMAIN ValuesOf(operand) = DOMAIN e.args
           /\ \A i \in DOMAIN e.args :
                 /\ ValuesOf(operand)[i].kind \in {"col", "lit", "unsupported"}
                 /\ ValuesOf(operand)[i].kind # "unsupported" =>
                       /\ ValuesOf(operand)[i] = e.args[i]
                       /\ e.args[i].kind \in {"col", "lit"}
                       /\ e.args[i] \in Trees[n]
  <1>1. DOMAIN operand = DOMAIN e.args
    BY DEF Operands
  <1>2. ASSUME NEW i \in DOMAIN e.args
        PROVE  LET v == ValuesOf(operand)[i]
               IN  /\ v.kind \in {"col", "lit", "unsupported"}
                   /\ v.kind # "unsupported" =>
                         v = e.args[i] /\ e.args[i].kind \in {"col", "lit"} /\ e.args[i] \in Trees[n]
    <2>1. ValuesOf(operand)[i] = ValueOf(operand[i])
      BY <1>1 DEF ValuesOf
    <2>2. CASE operand[i].kind \in {"col", "lit"}
      <3>1. ValueOf(operand[i]) = operand[i] /\ operand[i] = e.args[i]
        BY <2>2 DEF ValueOf, Operands, Means
      <3>2. e.args[i] \in Trees[n - 1] /\ n \in 1..(MaxHeight + 1)
        BY TreeParts, TreesUnfold
      <3>3. n - 1 \in 1..(MaxHeight + 1)
        <4>1. n - 1 # 0
          BY <3>2, TreesUnfold
        <4> QED  BY <4>1, TreesUnfold
      <3>4. e.args[i] \in Trees[n]
        BY <2>2, <3>1, <3>2, <3>3, LeafIsTree
      <3> QED  BY <2>1, <2>2, <3>1, <3>4
    <2>3. CASE operand[i].kind \notin {"col", "lit"}
      BY <2>1, <2>3 DEF ValueOf, Unsupported, Token, Op, Node
    <2> QED  BY <2>2, <2>3
  <1> QED  BY <1>1, <1>2 DEF ValuesOf

(* The operators of SQL, and the methods of the visitor that they are for. *)
LEMMA OperatorKinds ==
    /\ DOMAIN Operator = {"equal", "not_equal", "less_than", "less_than_or_equal",
                          "greater_than", "greater_than_or_equal"}
    /\ {Operator[o] : o \in DOMAIN Operator} = {"=", "!=", "<", "<=", ">", ">="}
  <1>1. DOMAIN Operator = {"equal", "not_equal", "less_than", "less_than_or_equal",
                           "greater_than", "greater_than_or_equal"}
    BY DEF Operator
  <1>2. \A o \in DOMAIN Operator : Operator[o] \in {"=", "!=", "<", "<=", ">", ">="}
    BY DEF Operator
  <1>3. \A k \in {"=", "!=", "<", "<=", ">", ">="} : \E o \in DOMAIN Operator : Operator[o] = k
    BY DEF Operator
  <1> QED  BY <1>1, <1>2, <1>3

(* A function on the first places is a sequence. *)
LEMMA PlacesMakeSequence ==
    ASSUME NEW S, NEW k \in Nat, NEW f, f = [i \in 1..k |-> f[i]], \A i \in 1..k : f[i] \in S
    PROVE  f \in Seq(S) /\ Len(f) = k
  <1>1. f \in [1..k -> S]
    OBVIOUS
  <1> QED  BY <1>1

(* Sequences of one and of two elements. *)
LEMMA ShortSequences ==
    ASSUME NEW S, NEW x \in S, NEW y \in S
    PROVE  <<x>> \in Seq(S) /\ <<x, y>> \in Seq(S)
  OBVIOUS

(* A comparison is pushed only if both sides are values and none is NULL. *)
LEMMA ComparedMeans ==
    ASSUME NEW row, NEW n \in 1..MaxHeight, NEW sign \in {Operator[o] : o \in DOMAIN Operator},
           NEW left \in Trees[n], NEW right \in Trees[n], NEW sql, NEW daft,
           Evaluates(n, row, sql, daft)
    PROVE  /\ Op(sign, <<left, right>>) \in Trees[n + 1]
           /\ sql[n + 1][Op(sign, <<left, right>>)]
                = Compared(sign, ValueAt(left, row), ValueAt(right, row))
  <1> DEFINE p == Op(sign, <<left, right>>)
  <1>1. sign \in TreeKinds /\ sign \in {"=", "!=", "<", "<=", ">", ">="}
    BY OperatorKinds DEF TreeKinds, PredicateKinds
  <1>2. p.kind = sign /\ p.args = <<left, right>> /\ Len(p.args) = 2 /\ DOMAIN p.args = 1..2
    BY DEF Op, Node
  <1>3. Shape(p)
    BY <1>1, <1>2, OperatorKinds DEF Shape
  <1>4. p \in Trees[n + 1]
    <2>1. <<left, right>> \in Seq(Trees[n])
      BY ShortSequences
    <2> QED  BY <1>1, <1>3, <2>1, OpIsTree
  <1>5. sql[n + 1][p] = SqlNode(p, [i \in DOMAIN p.args |-> sql[n][p.args[i]]], row)
    BY <1>4 DEF Evaluates
  <1>6. SqlNode(p, [i \in DOMAIN p.args |-> sql[n][p.args[i]]], row)
            = Compared(sign, ValueAt(left, row), ValueAt(right, row))
    <2> DEFINE a == [i \in DOMAIN p.args |-> ValueAt(p.args[i], row)]
    <2>1. a[1] = ValueAt(left, row) /\ a[2] = ValueAt(right, row)
      BY <1>2
    <2> HIDE DEF p
    <2>2. SqlNode(p, [i \in DOMAIN p.args |-> sql[n][p.args[i]]], row) = Compared(sign, a[1], a[2])
      BY <1>1, <1>2 DEF SqlNode
    <2> QED  BY <2>1, <2>2
  <1> QED  BY <1>4, <1>5, <1>6

(* What is not pushed means nothing. *)
LEMMA UnsupportedMeans ==
    ASSUME NEW e, NEW n, NEW sql, NEW daft
    PROVE  Means(Unsupported, e, n, sql, daft)
  BY DEF Means, Unsupported, Token, Op, Node, PredicateKinds, Operator

\* Functions that evaluate trees of every height
EvaluatesAll(row, sql, daft) == \A k \in 1..MaxHeight : Evaluates(k, row, sql, daft)

(* _compare gives up, or compares two values that are not NULL. *)
LEMMA CompareCases ==
    ASSUME NEW sign \in {"=", "!=", "<", "<=", ">", ">="}, NEW left, NEW right
    PROVE  \/ Compare(sign, left, right) = Unsupported
           \/ /\ left.kind # "unsupported" /\ right.kind # "unsupported"
              /\ Compare(sign, left, right) = Op(sign, <<left, right>>)
  <1>1. CASE Supported(<<left, right>>)
    BY <1>1 DEF Compare, Supported
  <1> QED  BY <1>1 DEF Compare

(* visit_equal and the other comparisons. *)
LEMMA CompareMeans ==
    ASSUME NEW row, NEW n \in 1..MaxHeight, NEW e \in Trees[n], NEW operand, NEW sql, NEW daft,
           EvaluatesAll(row, sql, daft), Operands(e, operand, n, sql, daft),
           e.kind \in DOMAIN Operator
    PROVE  Means(VisitNode(e, operand), e, n, sql, daft)
  <1> DEFINE v == ValuesOf(operand)
             sign == Operator[e.kind]
             p == Compare(sign, v[1], v[2])
  <1>0. n \in 1..(MaxHeight + 1)
    BY TreesUnfold
  <1>1. sign \in {"=", "!=", "<", "<=", ">", ">="} /\ e.kind \notin {"col", "lit"}
    BY OperatorKinds
  <1>2. VisitNode(e, operand) = p
    BY OperatorKinds DEF VisitNode, ValuesOf
  <1>3. Len(e.args) = 2 /\ DOMAIN e.args = 1..2 /\ 1 \in DOMAIN e.args /\ 2 \in DOMAIN e.args
    <2>1. Shape(e) /\ DOMAIN e.args = 1..Len(e.args)
      BY <1>0, TreeParts
    <2>2. Len(e.args) = 2
      BY <2>1 DEF Shape
    <2> QED  BY <2>1, <2>2
  <1>4. DOMAIN v = DOMAIN e.args
    BY ValuesKept
  <1>5. daft[n][e] = Compared(sign, ValueAt(e.args[1], row), ValueAt(e.args[2], row))
    <2> DEFINE a == [i \in DOMAIN e.args |-> ValueAt(e.args[i], row)]
    <2>1. a[1] = ValueAt(e.args[1], row) /\ a[2] = ValueAt(e.args[2], row)
      BY <1>3
    <2>2. daft[n][e] = DaftNode(e, [i \in DOMAIN e.args |-> daft[n - 1][e.args[i]]], row)
      BY DEF EvaluatesAll, Evaluates
    <2>3. DaftNode(e, [i \in DOMAIN e.args |-> daft[n - 1][e.args[i]]], row)
            = Compared(sign, a[1], a[2])
      BY OperatorKinds DEF DaftNode
    <2> QED  BY <2>1, <2>2, <2>3
  <1>6. CASE p = Unsupported
    BY <1>2, <1>6, UnsupportedMeans
  <1>7. CASE /\ v[1].kind # "unsupported" /\ v[2].kind # "unsupported"
             /\ p = Op(sign, <<v[1], v[2]>>)
    <2>1. v[1] = e.args[1] /\ v[2] = e.args[2] /\ e.args[1] \in Trees[n] /\ e.args[2] \in Trees[n]
      BY <1>3, <1>7, ValuesKept
    <2>2. Evaluates(n, row, sql, daft)
      BY DEF EvaluatesAll
    <2>3. sign \in {Operator[o] : o \in DOMAIN Operator}
      BY <1>1, OperatorKinds
    <2>4. /\ Op(sign, <<v[1], v[2]>>) \in Trees[n + 1]
          /\ sql[n + 1][Op(sign, <<v[1], v[2]>>)]
               = Compared(sign, ValueAt(e.args[1], row), ValueAt(e.args[2], row))
      <3> DEFINE left == e.args[1]
                 right == e.args[2]
      <3>1. left \in Trees[n] /\ right \in Trees[n]
        BY <2>1
      <3>2. v[1] = left /\ v[2] = right
        BY <2>1
      <3> HIDE DEF v, sign, left, right
      <3>3. /\ Op(sign, <<left, right>>) \in Trees[n + 1]
            /\ sql[n + 1][Op(sign, <<left, right>>)]
                 = Compared(sign, ValueAt(left, row), ValueAt(right, row))
        BY ONLY <2>2, <2>3, <3>1, n \in 1..MaxHeight, ComparedMeans
      <3> QED  BY <3>2, <3>3 DEF left, right
    <2>5. p.kind = sign
      BY <1>7 DEF Op, Node
    <2> HIDE DEF p
    <2> QED  BY <1>1, <1>2, <1>5, <1>7, <2>4, <2>5 DEF Means
  <1> HIDE DEF v, sign
  <1> QED  BY <1>1, <1>6, <1>7, CompareCases

(* visit_is_null and visit_not_null. *)
LEMMA NullTestMeans ==
    ASSUME NEW row, NEW n \in 1..MaxHeight, NEW e \in Trees[n], NEW operand, NEW sql, NEW daft,
           EvaluatesAll(row, sql, daft), Operands(e, operand, n, sql, daft),
           e.kind \in {"is_null", "not_null"}
    PROVE  Means(VisitNode(e, operand), e, n, sql, daft)
  <1> DEFINE v == ValuesOf(operand)
             kind == IF e.kind = "is_null" THEN "is null" ELSE "is not null"
             p == NullTest(kind, v[1])
  <1>0. n \in 1..(MaxHeight + 1)
    BY TreesUnfold
  <1>1. VisitNode(e, operand) = p
    BY OperatorKinds DEF VisitNode, ValuesOf
  <1>2. Len(e.args) = 1 /\ DOMAIN e.args = 1..1 /\ 1 \in DOMAIN e.args
    <2>1. Shape(e) /\ DOMAIN e.args = 1..Len(e.args)
      BY <1>0, TreeParts
    <2>2. Len(e.args) = 1
      BY <2>1 DEF Shape
    <2> QED  BY <2>1, <2>2
  <1>3. CASE v[1].kind # "col"
    BY <1>1, <1>3, UnsupportedMeans DEF NullTest
  <1>4. CASE v[1].kind = "col"
    <2>1. v[1] = e.args[1] /\ e.args[1] \in Trees[n]
      BY <1>2, <1>4, ValuesKept
    <2>2. p = Op(kind, <<e.args[1]>>)
      BY <1>4, <2>1 DEF NullTest
    <2>3. p.kind = kind /\ p.args = <<e.args[1]>> /\ DOMAIN p.args = 1..1 /\ Len(p.args) = 1
      <3> HIDE DEF p, kind
      <3> QED  BY <2>2 DEF Op, Node
    <2>4. Shape(p) /\ kind \in TreeKinds
      BY <2>3, OperatorKinds DEF Shape, TreeKinds, PredicateKinds
    <2>5. p \in Trees[n + 1]
      <3>1. <<e.args[1]>> \in Seq(Trees[n])
        BY <2>1, ShortSequences
      <3> HIDE DEF p, kind
      <3> QED  BY <2>2, <2>4, <3>1, OpIsTree
    <2>6. sql[n + 1][p] = SqlNode(p, [i \in DOMAIN p.args |-> sql[n][p.args[i]]], row)
      BY <2>5 DEF EvaluatesAll, Evaluates
    <2>7. daft[n][e] = DaftNode(e, [i \in DOMAIN e.args |-> daft[n - 1][e.args[i]]], row)
      BY DEF EvaluatesAll, Evaluates
    <2> DEFINE a == [i \in DOMAIN p.args |-> ValueAt(p.args[i], row)]
               b == [i \in DOMAIN e.args |-> ValueAt(e.args[i], row)]
    <2>8. a[1] = b[1]
      <3> HIDE DEF p
      <3>1. a[1] = ValueAt(p.args[1], row) /\ b[1] = ValueAt(e.args[1], row)
        BY <1>2, <2>3
      <3>2. p.args[1] = e.args[1]
        <4>1. <<e.args[1]>>[1] = e.args[1]
          OBVIOUS
        <4> QED  BY <2>3, <4>1
      <3> QED  BY <3>1, <3>2
    <2>9. SqlNode(p, [i \in DOMAIN p.args |-> sql[n][p.args[i]]], row)
            = IF e.kind = "is_null" THEN Truth(a[1] = Null) ELSE Truth(a[1] # Null)
      <3> HIDE DEF p
      <3> QED  BY <2>3 DEF SqlNode
    <2>10. DaftNode(e, [i \in DOMAIN e.args |-> daft[n - 1][e.args[i]]], row)
            = IF e.kind = "is_null" THEN Truth(b[1] = Null) ELSE Truth(b[1] # Null)
      BY OperatorKinds DEF DaftNode
    <2>11. sql[n + 1][p] = daft[n][e]
      <3> HIDE DEF p, a, b
      <3> QED  BY <2>6, <2>7, <2>8, <2>9, <2>10
    <2>12. p.kind \notin {"col", "lit"}
      BY <2>3
    <2> HIDE DEF p
    <2> QED  BY <1>1, <2>5, <2>11, <2>12 DEF Means
  <1> QED  BY <1>3, <1>4

(* And, Or and Not exist only over predicates. *)
LEMMA CombineMeans ==
    ASSUME NEW row, NEW n \in 1..MaxHeight, NEW e \in Trees[n], NEW operand, NEW sql, NEW daft,
           EvaluatesAll(row, sql, daft), Operands(e, operand, n, sql, daft),
           e.kind \in {"and", "or", "not"}
    PROVE  Means(VisitNode(e, operand), e, n, sql, daft)
  <1> DEFINE p == Combine(e.kind, operand)
             len == Len(e.args)
  <1>0. n \in 1..(MaxHeight + 1)
    BY TreesUnfold
  <1>1. VisitNode(e, operand) = p
    BY OperatorKinds DEF VisitNode
  <1>2. len \in Nat /\ DOMAIN e.args = 1..len /\ Shape(e)
    BY <1>0, TreeParts
  <1>3. operand = [i \in 1..len |-> operand[i]] /\ DOMAIN operand = 1..len
    BY <1>2 DEF Operands
  <1>4. CASE ~\A i \in DOMAIN operand : operand[i].kind \in PredicateKinds
    BY <1>1, <1>4, UnsupportedMeans DEF Combine
  <1>5. CASE \A i \in DOMAIN operand : operand[i].kind \in PredicateKinds
    <2>1. p = Op(e.kind, operand)
      BY <1>5 DEF Combine
    <2>2. \A i \in 1..len : operand[i] \in Trees[n] /\ sql[n][operand[i]] = daft[n - 1][e.args[i]]
      <3>1. (n - 1) + 1 = n
        BY TreesUnfold
      <3> QED  BY <1>2, <1>3, <1>5, <3>1 DEF Operands, Means
    <2>3. operand \in Seq(Trees[n]) /\ Len(operand) = len
      <3> HIDE DEF len
      <3> QED  BY <1>2, <1>3, <2>2, PlacesMakeSequence
    <2>4. p.kind = e.kind /\ p.args = operand
      <3> HIDE DEF p
      <3> QED  BY <2>1 DEF Op, Node
    <2>5. p \in Trees[n + 1]
      <3>1. e.kind = "not" => len = 1
        BY <1>2 DEF Shape
      <3>2. Shape(p) /\ e.kind \in TreeKinds
        <4> HIDE DEF p
        <4> QED  BY <2>3, <2>4, <3>1, OperatorKinds DEF Shape, TreeKinds, PredicateKinds
      <3> HIDE DEF p
      <3> QED  BY <2>1, <2>3, <3>2, OpIsTree
    <2> DEFINE below == [i \in DOMAIN p.args |-> sql[n][p.args[i]]]
               above == [i \in DOMAIN e.args |-> daft[n - 1][e.args[i]]]
    <2>6. sql[n + 1][p] = SqlNode(p, below, row) /\ daft[n][e] = DaftNode(e, above, row)
      BY <2>5 DEF EvaluatesAll, Evaluates
    <2>7. below = above
      <3> HIDE DEF p
      <3>1. \A i \in 1..len : sql[n][p.args[i]] = daft[n - 1][e.args[i]]
        BY <2>2, <2>4
      <3>2. DOMAIN p.args = 1..len
        BY <1>3, <2>4
      <3> QED  BY <1>2, <3>1, <3>2
    <2>8. SqlNode(p, above, row) = DaftNode(e, above, row)
      <3> HIDE DEF p, above
      <3> QED  BY <2>4, OperatorKinds DEF SqlNode, DaftNode
    <2>9. sql[n + 1][p] = daft[n][e]
      <3> HIDE DEF p, above, below
      <3> QED  BY <2>6, <2>7, <2>8
    <2>10. p.kind \notin {"col", "lit"}
      BY <2>4
    <2> HIDE DEF p
    <2> QED  BY <1>1, <2>5, <2>9, <2>10 DEF Means
  <1> QED  BY <1>4, <1>5

(* visit_between: two comparisons that must both be possible. *)
LEMMA BetweenMeans ==
    ASSUME NEW row, NEW n \in 1..MaxHeight, NEW e \in Trees[n], NEW operand, NEW sql, NEW daft,
           EvaluatesAll(row, sql, daft), Operands(e, operand, n, sql, daft),
           e.kind = "between"
    PROVE  Means(VisitNode(e, operand), e, n, sql, daft)
  <1> DEFINE v == ValuesOf(operand)
             lower == Compare(">=", v[1], v[2])
             upper == Compare("<=", v[1], v[3])
             both == <<lower, upper>>
             p == Combine("and", both)
             At(i) == ValueAt(e.args[i], row)
  <1>0. n \in 1..(MaxHeight + 1)
    BY TreesUnfold
  <1>1. VisitNode(e, operand) = p
    BY OperatorKinds DEF VisitNode, ValuesOf
  <1>2. DOMAIN e.args = 1..3 /\ 1 \in DOMAIN e.args /\ 2 \in DOMAIN e.args /\ 3 \in DOMAIN e.args
    <2>1. Shape(e) /\ DOMAIN e.args = 1..Len(e.args)
      BY <1>0, TreeParts
    <2>2. Len(e.args) = 3
      BY <2>1 DEF Shape
    <2> QED  BY <2>1, <2>2
  <1>3. DOMAIN both = 1..2 /\ both[1] = lower /\ both[2] = upper
    BY DEF both
  <1>4. CASE ~(lower.kind \in PredicateKinds /\ upper.kind \in PredicateKinds)
    <2>1. p = Unsupported
      <3> HIDE DEF lower, upper, both
      <3> QED  BY <1>3, <1>4 DEF Combine
    <2> QED  BY <1>1, <2>1, UnsupportedMeans
  <1>5. CASE lower.kind \in PredicateKinds /\ upper.kind \in PredicateKinds
    <2>1. p = Op("and", both)
      <3> HIDE DEF lower, upper, both
      <3> QED  BY <1>3, <1>5 DEF Combine
    <2>2. "unsupported" \notin PredicateKinds /\ Unsupported.kind = "unsupported"
      BY OperatorKinds DEF PredicateKinds, Unsupported, Token, Op, Node
    <2>3. /\ v[1].kind # "unsupported" /\ v[2].kind # "unsupported" /\ v[3].kind # "unsupported"
          /\ lower = Op(">=", <<v[1], v[2]>>) /\ upper = Op("<=", <<v[1], v[3]>>)
      <3> HIDE DEF v
      <3> QED  BY <1>5, <2>2, CompareCases
    <2>4. \A i \in 1..3 : v[i] = e.args[i]
      BY <1>2, <2>3, ValuesKept
    <2>5. \A i \in 1..3 : e.args[i] \in Trees[n - 1]
      BY <1>0, <1>2, TreeParts
    <2>6. n - 1 \in 1..MaxHeight /\ (n - 1) + 1 = n
      <3>1. n - 1 # 0
        BY <2>5, TreesUnfold
      <3> QED  BY <3>1, TreesUnfold
    <2>7. Evaluates(n - 1, row, sql, daft)
      BY <2>6 DEF EvaluatesAll
    <2>8. /\ lower \in Trees[n] /\ sql[n][lower] = Compared(">=", At(1), At(2))
          /\ upper \in Trees[n] /\ sql[n][upper] = Compared("<=", At(1), At(3))
      <3> DEFINE m == n - 1
      <3>1. m \in 1..MaxHeight /\ m + 1 = n /\ Evaluates(m, row, sql, daft)
        BY <2>6, <2>7
      <3>2. {">=", "<="} \subseteq {Operator[o] : o \in DOMAIN Operator}
        BY OperatorKinds
      <3>3. \A i \in 1..3 : e.args[i] \in Trees[m]
        BY <2>5
      <3>4. lower = Op(">=", <<e.args[1], e.args[2]>>) /\ upper = Op("<=", <<e.args[1], e.args[3]>>)
        BY <2>3, <2>4
      <3> HIDE DEF lower, upper, m
      <3>5. /\ lower \in Trees[m + 1] /\ sql[m + 1][lower] = Compared(">=", At(1), At(2))
            /\ upper \in Trees[m + 1] /\ sql[m + 1][upper] = Compared("<=", At(1), At(3))
        BY <3>1, <3>2, <3>3, <3>4, ComparedMeans
      <3> QED  BY <3>1, <3>5
    <2>9. p.kind = "and" /\ p.args = both
      <3> HIDE DEF p, both
      <3> QED  BY <2>1 DEF Op, Node
    <2>10. p \in Trees[n + 1]
      <3>1. both \in Seq(Trees[n])
        <4> HIDE DEF lower, upper
        <4> QED  BY <2>8, ShortSequences
      <3>2. Shape(p) /\ "and" \in TreeKinds
        <4> HIDE DEF p
        <4> QED  BY <2>9, OperatorKinds DEF Shape, TreeKinds, PredicateKinds
      <3> HIDE DEF p, both
      <3> QED  BY <2>1, <3>1, <3>2, OpIsTree
    <2> DEFINE below == [i \in DOMAIN p.args |-> sql[n][p.args[i]]]
               above == [i \in DOMAIN e.args |-> daft[n - 1][e.args[i]]]
               a == [i \in DOMAIN e.args |-> ValueAt(e.args[i], row)]
    <2>11. sql[n + 1][p] = SqlNode(p, below, row) /\ daft[n][e] = DaftNode(e, above, row)
      BY <2>10 DEF EvaluatesAll, Evaluates
    <2>12. Range(below) = {Compared(">=", At(1), At(2)), Compared("<=", At(1), At(3))}
      <3> HIDE DEF p, lower, upper, both, At
      <3>1. below = [i \in 1..2 |-> sql[n][both[i]]]
        BY <1>3, <2>9
      <3>2. Range(below) = {below[1], below[2]} /\ below[1] = sql[n][lower] /\ below[2] = sql[n][upper]
        BY <1>3, <3>1 DEF Range
      <3> QED  BY <2>8, <3>2
    <2>13. SqlNode(p, below, row) = Both(Range(below))
      <3> HIDE DEF p, below
      <3> QED  BY <2>9 DEF SqlNode
    <2>14. a[1] = At(1) /\ a[2] = At(2) /\ a[3] = At(3)
      BY <1>2
    <2>15. DaftNode(e, above, row) = Both({Compared(">=", a[1], a[2]), Compared("<=", a[1], a[3])})
      <3> HIDE DEF above
      <3> QED  BY OperatorKinds DEF DaftNode
    <2>16. sql[n + 1][p] = daft[n][e]
      <3> HIDE DEF p, above, below, a, At
      <3> QED  BY <2>11, <2>12, <2>13, <2>14, <2>15
    <2>17. p.kind \notin {"col", "lit"}
      BY <2>9
    <2> HIDE DEF p
    <2> QED  BY <1>1, <2>10, <2>16, <2>17 DEF Means
  <1> QED  BY <1>4, <1>5

(* SQL's IN over values that are not NULL is Daft's is_in. *)
SqlIn(x, a, len) == Either({Compared("=", x, a[i]) : i \in 2..len})
DaftIn(x, a, len) == IF x = Null THEN "U" ELSE Truth(\E i \in 2..len : a[i] = x)

(* IN over values that are not null is a match with one of them. *)
LEMMA InIsSome ==
    ASSUME NEW x, NEW len \in Nat, len >= 2, NEW a, \A i \in 2..len : a[i] # Null
    PROVE  SqlIn(x, a, len) = DaftIn(x, a, len)
  <1> DEFINE S == {Compared("=", x, a[i]) : i \in 2..len}
             N == {Negated(t) : t \in S}
  <1>0. 2 \in 2..len
    OBVIOUS
  <1>1. CASE x = Null
    <2>1. \A i \in 2..len : Compared("=", x, a[i]) = "U"
      BY <1>1 DEF Compared
    <2>2. S = {"U"}
      BY <1>0, <2>1
    <2>3. N = {"U"}
      BY <2>2 DEF Negated
    <2> HIDE DEF N
    <2> QED  BY <1>1, <2>3 DEF SqlIn, DaftIn, Either, Both, Negated, N
  <1>2. CASE x # Null
    <2>1. \A i \in 2..len : Compared("=", x, a[i]) = IF a[i] = x THEN "T" ELSE "F"
      BY <1>2 DEF Compared, Truth
    <2>2. CASE \E i \in 2..len : a[i] = x
      <3>1. "T" \in S
        BY <2>1, <2>2
      <3>2. "F" \in N
        BY <3>1 DEF Negated
      <3> HIDE DEF N
      <3> QED  BY <1>2, <2>2, <3>2 DEF Either, Both, Negated, Truth, SqlIn, DaftIn, N
    <2>3. CASE ~\E i \in 2..len : a[i] = x
      <3>1. S = {"F"}
        BY <1>0, <2>1, <2>3
      <3>2. N = {"T"}
        BY <3>1 DEF Negated
      <3> HIDE DEF N
      <3> QED  BY <1>2, <2>3, <3>2 DEF Either, Both, Negated, Truth, SqlIn, DaftIn, N
    <2> QED  BY <2>2, <2>3
  <1> QED  BY <1>1, <1>2

(* visit_is_in: a column, and at least one literal, none of them NULL. *)
LEMMA InMeans ==
    ASSUME NEW row, NEW n \in 1..MaxHeight, NEW e \in Trees[n], NEW operand, NEW sql, NEW daft,
           EvaluatesAll(row, sql, daft), Operands(e, operand, n, sql, daft),
           e.kind = "is_in"
    PROVE  Means(VisitNode(e, operand), e, n, sql, daft)
  <1> DEFINE v == ValuesOf(operand)
             len == Len(e.args)
             p == InValues(v[1], Tail(v))
  <1>0. n \in 1..(MaxHeight + 1)
    BY TreesUnfold
  <1>1. VisitNode(e, operand) = p
    BY OperatorKinds DEF VisitNode, ValuesOf
  <1>2. len \in Nat /\ len >= 1 /\ DOMAIN e.args = 1..len /\ 1 \in 1..len
    <2>1. Shape(e) /\ DOMAIN e.args = 1..len /\ len \in Nat
      BY <1>0, TreeParts
    <2>2. len >= 1
      BY <2>1 DEF Shape
    <2> QED  BY <2>1, <2>2
  <1>3. v = [i \in 1..len |-> v[i]] /\ DOMAIN v = 1..len
    <2>1. DOMAIN v = 1..len
      BY <1>2, ValuesKept
    <2> QED  BY <2>1 DEF ValuesOf
  <1>4. /\ v \in Seq({v[i] : i \in 1..len}) /\ Len(v) = len
    <2> DEFINE S == {v[i] : i \in 1..len}
    <2>1. \A i \in 1..len : v[i] \in S
      OBVIOUS
    <2> HIDE DEF v, len, S
    <2>2. v \in Seq(S) /\ Len(v) = len
      BY <1>2, <1>3, <2>1, PlacesMakeSequence
    <2> QED  BY <2>2 DEF S
  <1>5. /\ DOMAIN Tail(v) = 1..(len - 1) /\ \A i \in 1..(len - 1) : Tail(v)[i] = v[i + 1]
        /\ Tail(v) # << >> => len >= 2
    <2> HIDE DEF v, len
    <2> QED  BY <1>2, <1>4
  <1>6. CASE p = Unsupported
    BY <1>1, <1>6, UnsupportedMeans
  <1>7. CASE p # Unsupported
    <2>1. /\ v[1].kind = "col" /\ Tail(v) # << >>
          /\ \A i \in DOMAIN Tail(v) : Tail(v)[i].kind = "lit" /\ Tail(v)[i] # Lit(Null)
          /\ p = Op("in", <<v[1]>> \o Tail(v))
      <3> HIDE DEF v
      <3> QED  BY <1>7 DEF InValues
    <2>2. len >= 2 /\ \A i \in 2..len : v[i].kind = "lit" /\ v[i] # Lit(Null)
      <3> HIDE DEF v, len
      <3>1. len >= 2
        BY <1>5, <2>1
      <3> SUFFICES ASSUME NEW i \in 2..len PROVE v[i].kind = "lit" /\ v[i] # Lit(Null)
        BY <3>1
      <3> DEFINE k == i - 1
      <3>2. k \in 1..(len - 1) /\ k + 1 = i
        BY <1>2
      <3> HIDE DEF k
      <3>3. k \in DOMAIN Tail(v) /\ Tail(v)[k] = v[i]
        BY <1>5, <3>2
      <3> QED  BY <2>1, <3>3
    <2>3. \A i \in 1..len : v[i] = e.args[i] /\ e.args[i] \in Trees[n]
      <3>1. \A i \in 1..len : v[i].kind # "unsupported"
        <4> HIDE DEF v, len
        <4>1. \A i \in 1..len : i = 1 \/ i \in 2..len
          BY <1>2
        <4> QED  BY <2>1, <2>2, <4>1
      <3> QED  BY <1>2, <3>1, ValuesKept
    <2>4. <<v[1]>> \o Tail(v) = e.args
      <3> HIDE DEF v, len
      <3>1. v = e.args
        <4>1. e.args = [i \in 1..len |-> e.args[i]]
          BY <1>0, <1>2, TreeParts
        <4> QED  BY <1>3, <2>3, <4>1
      <3>2. <<v[1]>> \o Tail(v) = v
        BY <1>2, <1>4
      <3> QED  BY <3>1, <3>2
    <2>5. p = Op("in", e.args)
      BY <2>1, <2>4
    <2>6. p.kind = "in" /\ p.args = e.args
      <3> HIDE DEF p
      <3> QED  BY <2>5 DEF Op, Node
    <2>7. p \in Trees[n + 1]
      <3>1. e.args \in Seq(Trees[n])
        <4>1. e.args = [i \in 1..len |-> e.args[i]]
          BY <1>0, <1>2, TreeParts
        <4> HIDE DEF v, len
        <4> QED  BY <1>2, <2>3, <4>1, PlacesMakeSequence
      <3>2. Shape(p) /\ "in" \in TreeKinds
        <4> HIDE DEF p
        <4> QED  BY <1>2, <2>6, OperatorKinds DEF Shape, TreeKinds, PredicateKinds
      <3> HIDE DEF p
      <3> QED  BY <2>5, <3>1, <3>2, OpIsTree
    <2> DEFINE below == [i \in DOMAIN p.args |-> sql[n][p.args[i]]]
               above == [i \in DOMAIN e.args |-> daft[n - 1][e.args[i]]]
               a == [i \in DOMAIN e.args |-> ValueAt(e.args[i], row)]
    <2>8. sql[n + 1][p] = SqlNode(p, below, row) /\ daft[n][e] = DaftNode(e, above, row)
      BY <2>7 DEF EvaluatesAll, Evaluates
    <2>9. Len(a) = len /\ DOMAIN a = 1..len
      <3>1. a = [i \in 1..len |-> a[i]] /\ \A i \in 1..len : a[i] \in {a[k] : k \in 1..len}
        BY <1>2
      <3> HIDE DEF a, len
      <3> QED  BY <1>2, <3>1, PlacesMakeSequence
    <2>10. SqlNode(p, below, row) = Either({Compared("=", a[1], a[i]) : i \in 2..Len(a)})
      <3> HIDE DEF p, below
      <3> QED  BY <2>6 DEF SqlNode
    <2>11. DaftNode(e, above, row) = IF a[1] = Null THEN "U"
                                     ELSE Truth(\E i \in 2..Len(a) : a[i] = a[1])
      <3> HIDE DEF above
      <3> QED  BY OperatorKinds DEF DaftNode
    <2>12. \A i \in 2..len : a[i] # Null
      <3> SUFFICES ASSUME NEW i \in 2..len PROVE a[i] # Null
        OBVIOUS
      <3>1. i \in 1..len
        BY <1>2
      <3>2. e.args[i].kind = "lit" /\ e.args[i] # Lit(Null) /\ e.args[i] \in Trees[n]
        BY <2>2, <2>3, <3>1
      <3>3. e.args[i] = Node("lit", e.args[i].val, << >>)
        BY <1>0, <3>2, TreeParts DEF Shape
      <3>4. e.args[i].val # Null
        BY <3>2, <3>3 DEF Lit
      <3>5. a[i] = e.args[i].val
        BY <1>2, <3>1, <3>2 DEF ValueAt
      <3> QED  BY <3>4, <3>5
    <2>13. sql[n + 1][p] = daft[n][e]
      <3> HIDE DEF p, above, below, a, len
      <3>1. Either({Compared("=", a[1], a[i]) : i \in 2..len})
              = IF a[1] = Null THEN "U" ELSE Truth(\E i \in 2..len : a[i] = a[1])
        <4>1. len \in Nat /\ len >= 2
          BY <1>2, <2>2
        <4>2. SqlIn(a[1], a, len) = DaftIn(a[1], a, len)
          BY <4>1, <2>12, InIsSome
        <4> QED  BY <4>2 DEF SqlIn, DaftIn
      <3> QED  BY ONLY <2>8, <2>9, <2>10, <2>11, <3>1
    <2>14. p.kind \notin {"col", "lit"}
      BY <2>6
    <2> HIDE DEF p
    <2> QED  BY <1>1, <2>7, <2>13, <2>14 DEF Means
  <1> QED  BY <1>6, <1>7

(* Whatever node: compiled it means the same, or it is not pushed. *)
LEMMA NodeMeans ==
    ASSUME NEW row, NEW n \in 1..MaxHeight, NEW e \in Trees[n], NEW operand, NEW sql, NEW daft,
           EvaluatesAll(row, sql, daft), Operands(e, operand, n, sql, daft)
    PROVE  Means(VisitNode(e, operand), e, n, sql, daft)
  <1>0. n \in 1..(MaxHeight + 1)
    BY TreesUnfold
  <1>1. CASE e.kind = "col"
    <2>1. VisitNode(e, operand) = e
      BY <1>1, OperatorKinds DEF VisitNode
    <2> QED  BY <1>1, <2>1, OperatorKinds DEF Means, PredicateKinds
  <1>2. CASE e.kind = "lit"
    <2>1. VisitNode(e, operand) = Literal(e.val)
      BY <1>2, OperatorKinds DEF VisitNode
    <2>2. e = Lit(e.val)
      BY <1>0, <1>2, TreeParts DEF Shape, Lit
    <2>3. VisitNode(e, operand) \in {e, Unsupported}
      BY <2>1, <2>2 DEF Literal
    <2>4. Means(e, e, n, sql, daft)
      BY <1>2, OperatorKinds DEF Means, PredicateKinds
    <2>5. Means(Unsupported, e, n, sql, daft)
      BY UnsupportedMeans
    <2> QED  BY <2>3, <2>4, <2>5
  <1>3. CASE e.kind \notin {"col", "lit", "between", "is_in", "is_null", "not_null", "and", "or",
                            "not"} \cup DOMAIN Operator
    <2>1. VisitNode(e, operand) = Unsupported
      BY <1>3 DEF VisitNode
    <2> QED  BY <2>1, UnsupportedMeans
  <1>4. CASE e.kind \in DOMAIN Operator
    BY <1>4, CompareMeans
  <1>5. CASE e.kind \in {"is_null", "not_null"}
    BY <1>5, NullTestMeans
  <1>6. CASE e.kind \in {"and", "or", "not"}
    BY <1>6, CombineMeans
  <1>7. CASE e.kind = "between"
    BY <1>7, BetweenMeans
  <1>8. CASE e.kind = "is_in"
    BY <1>8, InMeans
  <1> QED  BY <1>1, <1>2, <1>3, <1>4, <1>5, <1>6, <1>7, <1>8

(* Visit, from the leaves up: whatever is compiled means the same. *)
LEMMA VisitMeans ==
    ASSUME NEW row, NEW visit, IsVisit(visit, MaxHeight), NEW sql, IsSql(sql, row, MaxHeight + 1),
           NEW daft, IsDaft(daft, row, MaxHeight)
    PROVE  \A n \in 0..MaxHeight : \A t \in Trees[n] : Means(visit[n][t], t, n, sql, daft)
  <1>0. MaxHeight \in Nat
    BY TreesUnfold
  <1>1. EvaluatesAll(row, sql, daft)
    <2> SUFFICES ASSUME NEW k \in 1..MaxHeight PROVE Evaluates(k, row, sql, daft)
      BY DEF EvaluatesAll
    <2>1. k + 1 \in 0..(MaxHeight + 1) /\ k + 1 # 0 /\ (k + 1) - 1 = k /\ k \in 0..MaxHeight /\ k # 0
      BY <1>0
    <2>2. sql[k + 1] = [t \in Trees[k + 1] |->
                          SqlNode(t, [i \in DOMAIN t.args |-> sql[k][t.args[i]]], row)]
      BY <2>1 DEF IsSql
    <2>3. daft[k] = [t \in Trees[k] |->
                        DaftNode(t, [i \in DOMAIN t.args |-> daft[k - 1][t.args[i]]], row)]
      BY <2>1 DEF IsDaft
    <2> QED  BY <2>2, <2>3 DEF Evaluates
  <1> DEFINE T == {k \in Nat : k <= MaxHeight =>
                      \A t \in Trees[k] : Means(visit[k][t], t, k, sql, daft)}
  <1>2. 0 \in T
    BY TreesUnfold
  <1>3. ASSUME NEW k \in Nat, k \in T PROVE k + 1 \in T
    <2> DEFINE n == k + 1
    <2> SUFFICES ASSUME n <= MaxHeight, NEW t \in Trees[n]
                 PROVE  Means(visit[n][t], t, n, sql, daft)
      OBVIOUS
    <2>1. n \in 1..MaxHeight /\ n - 1 = k /\ n \in 1..(MaxHeight + 1) /\ n \in 0..MaxHeight /\ n # 0
      BY <1>0
    <2>2. \A s \in Trees[k] : Means(visit[k][s], s, k, sql, daft)
      <3>1. k <= MaxHeight
        BY <1>0
      <3> QED  BY <1>3, <3>1
    <2> HIDE DEF n
    <2> DEFINE operand == [i \in DOMAIN t.args |-> visit[k][t.args[i]]]
    <2>3. visit[n] = [s \in Trees[n] |->
                        VisitNode(s, [i \in DOMAIN s.args |-> visit[n - 1][s.args[i]]])]
      BY <2>1 DEF IsVisit
    <2>4. visit[n][t] = VisitNode(t, operand)
      BY <2>1, <2>3
    <2>5. \A i \in DOMAIN t.args : t.args[i] \in Trees[n - 1]
      BY <2>1, TreeParts
    <2>6. Operands(t, operand, n, sql, daft)
      BY <2>1, <2>2, <2>5 DEF Operands
    <2> HIDE DEF operand
    <2> QED  BY <1>1, <2>1, <2>4, <2>6, NodeMeans
  <1>4. \A n \in 0..MaxHeight : n \in T
    <2> HIDE DEF T
    <2> QED  BY <1>0, <1>2, <1>3, SetInduction
  <1> QED  BY <1>0, <1>4

(* For every filter that is pushed and every row: the predicate is true of the
   row exactly as Daft's filter is, unknown as well.  Nothing that Daft would
   have filtered differently is pushed. *)
THEOREM CompiledMeansTheSame ==
    ASSUME NEW e \in Trees[MaxHeight], NEW row, CompileFilter(e) # Unsupported
    PROVE  /\ CompileFilter(e) \in Trees[MaxHeight + 1]
           /\ SqlTruth(CompileFilter(e), row) = DaftTruth(e, row)
  <1>0. MaxHeight \in Nat
    BY TreesUnfold
  <1>1. PICK visit : IsVisit(visit, MaxHeight) /\ \A t : Visit(t) = visit[MaxHeight][t]
    BY VisitIs
  <1>2. PICK sql : IsSql(sql, row, MaxHeight + 1) /\ \A t : SqlTruth(t, row) = sql[MaxHeight + 1][t]
    BY SqlIs
  <1>3. PICK daft : IsDaft(daft, row, MaxHeight) /\ \A t : DaftTruth(t, row) = daft[MaxHeight][t]
    BY DaftIs
  <1>4. Means(visit[MaxHeight][e], e, MaxHeight, sql, daft)
    BY <1>0, <1>1, <1>2, <1>3, VisitMeans
  <1>5. CompileFilter(e) = visit[MaxHeight][e] /\ visit[MaxHeight][e].kind \in PredicateKinds
    BY <1>1 DEF CompileFilter
  <1> QED  BY <1>2, <1>3, <1>4, <1>5 DEF Means

-----------------------------------------------------------------------------
(* What is compiled is made of predicates over columns and literals only. *)

PureNode(t, below) ==
    \/ t.kind \in {"col", "lit"}
    \/ /\ t.kind \in PredicateKinds /\ t.val = 0
       /\ \A i \in DOMAIN t.args : t.args[i] \in below

\* The trees up to height m that hold predicates over values only
IsPure(f, m) ==
    f = [n \in 0..m |->
            IF n = 0 THEN {}
            ELSE {t \in Trees[n] : PureNode(t, f[n - 1])}]

(* Being pure is well defined. *)
LEMMA PureExists ==
    ASSUME NEW m \in Nat
    PROVE  \E f : IsPure(f, m)
  <1> DEFINE More(n, prev) ==
               {t \in Trees[n] : PureNode(t, prev)}
             Is(f, n) == f = [k \in 0..n |-> IF k = 0 THEN {} ELSE More(k, f[k - 1])]
             T == {n \in Nat : \E f : Is(f, n)}
  <1> HIDE DEF More
  <1>1. 0 \in T
    <2> DEFINE f == [k \in 0..0 |-> {}]
    <2>1. \A k \in 0..0 : k = 0
      OBVIOUS
    <2>2. Is(f, 0)
      BY <2>1
    <2> QED  BY <2>2
  <1>2. ASSUME NEW n \in Nat, n \in T PROVE n + 1 \in T
    <2>1. PICK g : Is(g, n)
      BY <1>2
    <2> DEFINE f == [k \in 0..(n + 1) |-> IF k = n + 1 THEN More(k, g[n]) ELSE g[k]]
    <2>2. ASSUME NEW k \in 0..(n + 1)
          PROVE  f[k] = IF k = 0 THEN {} ELSE More(k, f[k - 1])
      <3>1. CASE k = n + 1
        <4>1. f[k] = More(k, g[n]) /\ k # 0 /\ f[k - 1] = g[n]
          BY <3>1
        <4> QED  BY <4>1
      <3>2. CASE k # n + 1
        <4>1. k \in 0..n /\ f[k] = g[k]
          BY <3>2
        <4>2. g[k] = IF k = 0 THEN {} ELSE More(k, g[k - 1])
          BY <2>1, <4>1
        <4>3. k # 0 => f[k - 1] = g[k - 1]
          BY <4>1
        <4> QED  BY <4>1, <4>2, <4>3
      <3> QED  BY <3>1, <3>2
    <2>3. f = [k \in 0..(n + 1) |-> f[k]]
      OBVIOUS
    <2> HIDE DEF f
    <2>4. Is(f, n + 1)
      BY <2>2, <2>3
    <2> HIDE DEF Is
    <2> QED  BY <2>4
  <1>3. m \in T
    <2> HIDE DEF T
    <2> QED  BY <1>1, <1>2, SetInduction
  <1>4. PICK f : Is(f, m)
    BY <1>3
  <1>5. IsPure(f, m)
    BY <1>4 DEF IsPure, More
  <1> QED  BY <1>5

(* A pure tree of height n. *)
LEMMA PureParts ==
    ASSUME NEW pure, IsPure(pure, MaxHeight + 1), NEW n \in 1..(MaxHeight + 1)
    PROVE  pure[n] = {t \in Trees[n] : PureNode(t, pure[n - 1])}
  <1>1. n \in 0..(MaxHeight + 1) /\ n # 0
    BY TreesUnfold
  <1> QED  BY <1>1 DEF IsPure

(* A column or a literal is pure, at every height. *)
LEMMA LeafIsPure ==
    ASSUME NEW pure, IsPure(pure, MaxHeight + 1), NEW n \in 1..(MaxHeight + 1),
           NEW t \in Trees[n], t.kind \in {"col", "lit"}, NEW k \in 1..(MaxHeight + 1)
    PROVE  t \in pure[k]
  <1>1. t \in Trees[k]
    BY LeafIsTree
  <1> QED  BY <1>1, PureParts DEF PureNode

\* A predicate, with operands that are values or pure
PureAbove(p, below) ==
    p.kind \in PredicateKinds =>
        /\ p.val = 0
        /\ \A i \in DOMAIN p.args : p.args[i].kind \in {"col", "lit"} \/ p.args[i] \in below

(* A predicate over pure operands is pure. *)
LEMMA PureIsPure ==
    ASSUME NEW pure, IsPure(pure, MaxHeight + 1), NEW n \in 1..(MaxHeight + 1),
           NEW q \in Trees[n], q.kind \in PredicateKinds, PureAbove(q, pure[n - 1])
    PROVE  q \in pure[n]
  <1>1. ASSUME NEW i \in DOMAIN q.args PROVE q.args[i] \in pure[n - 1]
    <2>1. CASE q.args[i] \in pure[n - 1]
      BY <2>1
    <2>2. CASE q.args[i].kind \in {"col", "lit"}
      <3>1. q.args[i] \in Trees[n - 1]
        BY TreeParts
      <3>2. n - 1 # 0
        BY <3>1, TreesUnfold
      <3>3. n - 1 \in 1..(MaxHeight + 1)
        BY <3>2, TreesUnfold
      <3> QED  BY <2>2, <3>1, <3>3, LeafIsPure
    <2> QED  BY <2>1, <2>2 DEF PureAbove
  <1>2. PureNode(q, pure[n - 1])
    BY <1>1 DEF PureNode, PureAbove
  <1> QED  BY <1>2, PureParts

(* Only a column or a literal compiles to one. *)
LEMMA VisitNoLeaf ==
    ASSUME NEW e, NEW operand, e.kind \notin {"col", "lit"}
    PROVE  VisitNode(e, operand).kind \notin {"col", "lit"}
  <1> DEFINE v == ValuesOf(operand)
             p == VisitNode(e, operand)
  <1> SUFFICES p.kind \notin {"col", "lit"}
    OBVIOUS
  <1>0. Unsupported.kind = "unsupported"
    BY DEF Unsupported, Token, Op, Node
  <1>1. CASE e.kind \in DOMAIN Operator
    <2>1. p = Compare(Operator[e.kind], v[1], v[2])
      BY <1>1, OperatorKinds DEF VisitNode, ValuesOf
    <2>2. Operator[e.kind] \in {"=", "!=", "<", "<=", ">", ">="}
      BY <1>1, OperatorKinds
    <2> HIDE DEF v, p
    <2> QED  BY <1>0, <2>1, <2>2 DEF Compare, Op, Node
  <1>2. CASE e.kind \in {"is_null", "not_null"}
    <2>1. p \in {NullTest("is null", v[1]), NullTest("is not null", v[1])}
      BY <1>2, OperatorKinds DEF VisitNode, ValuesOf
    <2> HIDE DEF v, p
    <2>2. \A k : NullTest(k, v[1]) \in {Unsupported, Op(k, <<v[1]>>)}
      BY DEF NullTest
    <2>3. p \in {Unsupported, Op("is null", <<v[1]>>), Op("is not null", <<v[1]>>)}
      BY <2>1, <2>2
    <2>4. \A k, a : Op(k, a).kind = k
      BY DEF Op, Node
    <2>5. CASE p = Unsupported
      BY <1>0, <2>5
    <2>6. CASE p = Op("is null", <<v[1]>>)
      BY <2>4, <2>6
    <2>7. CASE p = Op("is not null", <<v[1]>>)
      BY <2>4, <2>7
    <2> QED  BY <2>3, <2>5, <2>6, <2>7
  <1>3. CASE e.kind \in {"and", "or", "not", "between"}
    <2>1. \E k \in {"and", "or", "not"} : \E a : p = Combine(k, a)
      BY <1>3, OperatorKinds DEF VisitNode, ValuesOf
    <2> HIDE DEF v, p
    <2> QED  BY <1>0, <2>1 DEF Combine, Op, Node
  <1>4. CASE e.kind = "is_in"
    <2>1. p = InValues(v[1], Tail(v))
      BY <1>4, OperatorKinds DEF VisitNode, ValuesOf
    <2> HIDE DEF v, p
    <2> QED  BY <1>0, <2>1 DEF InValues, Op, Node
  <1>5. CASE e.kind \notin {"col", "lit", "between", "is_in", "is_null", "not_null", "and", "or",
                            "not"} \cup DOMAIN Operator
    <2>1. p = Unsupported
      BY <1>5 DEF VisitNode
    <2> QED  BY <1>0, <2>1
  <1> QED  BY <1>1, <1>2, <1>3, <1>4, <1>5

(* Unsupported is no predicate. *)
LEMMA UnsupportedPure == ASSUME NEW below PROVE PureAbove(Unsupported, below)
  BY DEF PureAbove, Unsupported, Token, Op, Node, PredicateKinds, Operator

(* A comparison of two values. *)
LEMMA ComparePure ==
    ASSUME NEW sign \in {"=", "!=", "<", "<=", ">", ">="}, NEW left, NEW right, NEW below,
           left.kind \in {"col", "lit", "unsupported"}, right.kind \in {"col", "lit", "unsupported"}
    PROVE  PureAbove(Compare(sign, left, right), below)
  <1> DEFINE p == Compare(sign, left, right)
  <1> SUFFICES PureAbove(p, below)
    OBVIOUS
  <1>1. CASE p = Unsupported
    BY <1>1, UnsupportedPure
  <1>2. CASE /\ left.kind # "unsupported" /\ right.kind # "unsupported"
             /\ p = Op(sign, <<left, right>>)
    <2> HIDE DEF p
    <2>1. p.val = 0 /\ p.args = <<left, right>>
      BY <1>2 DEF Op, Node
    <2>2. DOMAIN p.args = 1..2 /\ p.args[1] = left /\ p.args[2] = right
      BY <2>1
    <2> QED  BY <1>2, <2>1, <2>2 DEF PureAbove
  <1> QED  BY <1>1, <1>2, CompareCases

(* Whatever node is compiled, its operands were compiled before. *)
LEMMA VisitPure ==
    ASSUME NEW e, NEW operand, NEW below, NEW len \in Nat,
           operand = [i \in 1..len |-> operand[i]],
           \A i \in 1..len : operand[i].kind \in PredicateKinds => operand[i] \in below,
           e.kind \in DOMAIN Operator \cup {"is_null", "not_null"} => len >= 1,
           e.kind \in DOMAIN Operator => len >= 2,
           e.kind = "between" => len >= 3, e.kind = "is_in" => len >= 1,
           e.kind \notin {"col", "lit", "between"}
    PROVE  PureAbove(VisitNode(e, operand), below)
  <1> DEFINE v == ValuesOf(operand)
             p == VisitNode(e, operand)
  <1> SUFFICES PureAbove(p, below)
    OBVIOUS
  <1>1. DOMAIN v = 1..len /\ \A i \in 1..len : v[i].kind \in {"col", "lit", "unsupported"}
    BY DEF ValuesOf, ValueOf, Unsupported, Token, Op, Node
  <1>2. CASE e.kind \in DOMAIN Operator
    <2>1. p = Compare(Operator[e.kind], v[1], v[2])
      BY <1>2, OperatorKinds DEF VisitNode, ValuesOf
    <2>2. 1 \in 1..len /\ 2 \in 1..len /\ Operator[e.kind] \in {"=", "!=", "<", "<=", ">", ">="}
      BY <1>2, OperatorKinds
    <2> HIDE DEF v, p
    <2> QED  BY <1>1, <2>1, <2>2, ComparePure
  <1>3. CASE e.kind \in {"is_null", "not_null"}
    <2> DEFINE kind == IF e.kind = "is_null" THEN "is null" ELSE "is not null"
    <2>1. p = NullTest(kind, v[1])
      BY <1>3, OperatorKinds DEF VisitNode, ValuesOf
    <2> HIDE DEF v, p
    <2>2. CASE p = Unsupported
      BY <2>2, UnsupportedPure
    <2>3. CASE v[1].kind = "col" /\ p = Op(kind, <<v[1]>>)
      <3>1. p.val = 0 /\ p.args = <<v[1]>>
        BY <2>3 DEF Op, Node
      <3>2. p.args[1] = v[1] /\ \A i \in DOMAIN p.args : i = 1
        BY <3>1
      <3> QED  BY <2>3, <3>1, <3>2 DEF PureAbove
    <2> QED  BY <2>1, <2>2, <2>3 DEF NullTest
  <1>4. CASE e.kind \in {"and", "or", "not"}
    <2>1. p = Combine(e.kind, operand)
      BY <1>4, OperatorKinds DEF VisitNode
    <2> HIDE DEF v, p
    <2>2. CASE p = Unsupported
      BY <2>2, UnsupportedPure
    <2>3. CASE /\ \A i \in DOMAIN operand : operand[i].kind \in PredicateKinds
               /\ p = Op(e.kind, operand)
      <3>1. p.val = 0 /\ p.args = operand
        BY <2>3 DEF Op, Node
      <3> QED  BY <2>3, <3>1 DEF PureAbove
    <2> QED  BY <2>1, <2>2, <2>3 DEF Combine
  <1>5. CASE e.kind = "is_in"
    <2>1. p = InValues(v[1], Tail(v))
      BY <1>5, OperatorKinds DEF VisitNode, ValuesOf
    <2> DEFINE S == {v[i] : i \in 1..len}
    <2>2. v = [i \in 1..len |-> v[i]] /\ \A i \in 1..len : v[i] \in S
      BY <1>1 DEF ValuesOf
    <2> HIDE DEF v, p
    <2>3. v \in Seq(S) /\ Len(v) = len /\ len >= 1
      <3> HIDE DEF S
      <3> QED  BY <1>5, <2>2, PlacesMakeSequence
    <2>4. <<v[1]>> \o Tail(v) = v
      <3> HIDE DEF S
      <3> QED  BY <2>3
    <2>5. CASE p = Unsupported
      BY <2>5, UnsupportedPure
    <2>6. CASE /\ v[1].kind = "col" /\ \A i \in DOMAIN Tail(v) : Tail(v)[i].kind = "lit"
               /\ p = Op("in", <<v[1]>> \o Tail(v))
      <3>1. p.val = 0 /\ p.args = v
        BY <2>4, <2>6 DEF Op, Node
      <3>2. ASSUME NEW i \in 1..len PROVE v[i].kind \in {"col", "lit"}
        <4>1. CASE i = 1
          BY <2>6, <4>1
        <4>2. CASE i # 1
          <5> DEFINE k == i - 1
          <5>1. k \in 1..(len - 1) /\ k + 1 = i
            BY <4>2
          <5> HIDE DEF k, S
          <5>2. DOMAIN Tail(v) = 1..(len - 1) /\ Tail(v)[k] = v[k + 1]
            BY <2>3, <5>1
          <5> QED  BY <2>6, <5>1, <5>2
        <4> QED  BY <4>1, <4>2
      <3> QED  BY <1>1, <3>1, <3>2 DEF PureAbove
    <2> QED  BY <2>1, <2>5, <2>6 DEF InValues
  <1>6. CASE e.kind \notin {"col", "lit", "between", "is_in", "is_null", "not_null", "and", "or",
                            "not"} \cup DOMAIN Operator
    <2>1. p = Unsupported
      BY <1>6 DEF VisitNode
    <2> QED  BY <2>1, UnsupportedPure
  <1> QED  BY <1>2, <1>3, <1>4, <1>5, <1>6

(* visit_between is the conjunction of two comparisons of values. *)
LEMMA BetweenPure ==
    ASSUME NEW pure, IsPure(pure, MaxHeight + 1), NEW n \in 1..MaxHeight, NEW e,
           e.kind = "between", NEW operand, NEW len \in Nat, len >= 3,
           operand = [i \in 1..len |-> operand[i]],
           VisitNode(e, operand).kind \in PredicateKinds, VisitNode(e, operand) \in Trees[n + 1]
    PROVE  PureAbove(VisitNode(e, operand), pure[n])
  <1> DEFINE v == ValuesOf(operand)
             p == VisitNode(e, operand)
             lower == Compare(">=", v[1], v[2])
             upper == Compare("<=", v[1], v[3])
  <1> SUFFICES PureAbove(p, pure[n])
    OBVIOUS
  <1>1. DOMAIN v = 1..len /\ \A i \in 1..len : v[i].kind \in {"col", "lit", "unsupported"}
    BY DEF ValuesOf, ValueOf, Unsupported, Token, Op, Node
  <1>2. 1 \in 1..len /\ 2 \in 1..len /\ 3 \in 1..len /\ n + 1 \in 1..(MaxHeight + 1)
        /\ n \in 1..(MaxHeight + 1) /\ (n + 1) - 1 = n
    BY TreesUnfold
  <1>3. p = Combine("and", <<lower, upper>>)
    BY OperatorKinds DEF VisitNode, ValuesOf
  <1>4. p \in Trees[n + 1] /\ p.kind \in PredicateKinds
    OBVIOUS
  <1>5. PureAbove(lower, pure[n - 1]) /\ PureAbove(upper, pure[n - 1])
    <2> HIDE DEF v
    <2> QED  BY <1>1, <1>2, ComparePure
  <1> HIDE DEF v, p, lower, upper
  <1>6. p = Op("and", <<lower, upper>>) /\ \A i \in DOMAIN <<lower, upper>> :
                                              <<lower, upper>>[i].kind \in PredicateKinds
    <2>1. p # Unsupported
      <3>1. Unsupported.kind \notin PredicateKinds
        BY OperatorKinds DEF Unsupported, Token, Op, Node, PredicateKinds
      <3> QED  BY <1>4, <3>1
    <2> QED  BY <1>3, <2>1 DEF Combine
  <1>7. lower.kind \in PredicateKinds /\ upper.kind \in PredicateKinds
    BY <1>6
  <1>8. p.val = 0 /\ p.args = <<lower, upper>>
    BY <1>6 DEF Op, Node
  <1>9. p.args[1] = lower /\ p.args[2] = upper /\ DOMAIN p.args = 1..2
    BY <1>8
  <1>10. lower \in Trees[n] /\ upper \in Trees[n]
    BY <1>2, <1>4, <1>9, TreeParts
  <1>11. ASSUME NEW q \in Trees[n], q.kind \in PredicateKinds, PureAbove(q, pure[n - 1])
         PROVE  q \in pure[n]
    BY <1>2, <1>11, PureIsPure
  <1>12. lower \in pure[n] /\ upper \in pure[n]
    BY <1>5, <1>7, <1>10, <1>11
  <1> QED  BY <1>8, <1>9, <1>12 DEF PureAbove

\* What becomes of a node of height n: a value, a pure predicate, or nothing
Purified(p, n, pure) ==
    /\ p.kind \in {"col", "lit"} => \A k \in 1..(MaxHeight + 1) : p \in pure[k]
    /\ p.kind \in PredicateKinds => p \in pure[n + 1]

(* A filter that is pushed is a pure predicate. *)
LEMMA CompiledIsPure ==
    ASSUME NEW pure, IsPure(pure, MaxHeight + 1), NEW e \in Trees[MaxHeight],
           CompileFilter(e) # Unsupported
    PROVE  CompileFilter(e) \in pure[MaxHeight + 1] /\ CompileFilter(e).kind \in PredicateKinds
  <1>0. MaxHeight \in Nat
    BY TreesUnfold
  <1>1. PICK visit : IsVisit(visit, MaxHeight) /\ \A t : Visit(t) = visit[MaxHeight][t]
    BY VisitIs
  <1>2. ASSUME NEW n \in 0..MaxHeight, NEW t \in Trees[n], visit[n][t].kind \in PredicateKinds
        PROVE  visit[n][t] \in Trees[n + 1]
    <2>1. PICK sql : IsSql(sql, 0, MaxHeight + 1)
      BY <1>0, SqlExists
    <2>2. PICK daft : IsDaft(daft, 0, MaxHeight)
      BY <1>0, DaftExists
    <2>3. Means(visit[n][t], t, n, sql, daft)
      BY <1>1, <2>1, <2>2, VisitMeans
    <2> QED  BY <1>2, <2>3 DEF Means
  <1> DEFINE T == {k \in Nat : k <= MaxHeight =>
                      \A t \in Trees[k] : Purified(visit[k][t], k, pure)}
  <1>3. 0 \in T
    BY TreesUnfold
  <1>4. ASSUME NEW k \in Nat, k \in T PROVE k + 1 \in T
    <2> DEFINE n == k + 1
    <2> SUFFICES ASSUME n <= MaxHeight, NEW t \in Trees[n]
                 PROVE  Purified(visit[n][t], n, pure)
      OBVIOUS
    <2>1. /\ n \in 1..MaxHeight /\ n - 1 = k /\ n \in 1..(MaxHeight + 1) /\ n \in 0..MaxHeight
          /\ n # 0 /\ (n + 1) - 1 = n /\ n + 1 \in 1..(MaxHeight + 1)
      BY <1>0
    <2>2. \A s \in Trees[k] : Purified(visit[k][s], k, pure)
      <3>1. k <= MaxHeight
        BY <1>0
      <3> QED  BY <1>4, <3>1
    <2> HIDE DEF n
    <2> DEFINE operand == [i \in DOMAIN t.args |-> visit[k][t.args[i]]]
               len == Len(t.args)
               p == VisitNode(t, operand)
    <2>3. visit[n][t] = p
      <3>1. visit[n] = [s \in Trees[n] |->
                          VisitNode(s, [i \in DOMAIN s.args |-> visit[n - 1][s.args[i]]])]
        BY <1>1, <2>1 DEF IsVisit
      <3> QED  BY <2>1, <3>1
    <2>4. /\ Shape(t) /\ len \in Nat /\ DOMAIN t.args = 1..len
          /\ \A i \in 1..len : t.args[i] \in Trees[k]
      BY <2>1, TreeParts
    <2>5. /\ operand = [i \in 1..len |-> operand[i]]
          /\ \A i \in 1..len : operand[i].kind \in PredicateKinds => operand[i] \in pure[n]
      <3>1. operand = [i \in 1..len |-> operand[i]]
        BY <2>4
      <3>2. \A i \in 1..len : t.args[i] \in Trees[k] /\ operand[i] = visit[k][t.args[i]]
        BY <2>4
      <3>3. n = k + 1
        BY DEF n
      <3> HIDE DEF operand, len
      <3>4. ASSUME NEW i \in 1..len, operand[i].kind \in PredicateKinds
            PROVE  operand[i] \in pure[n]
        <4>1. Purified(operand[i], k, pure)
          BY <2>2, <3>2
        <4> QED  BY ONLY <3>3, <3>4, <4>1 DEF Purified
      <3> QED  BY <3>1, <3>4
    <2>6. /\ t.kind \in DOMAIN Operator \cup {"is_null", "not_null"} => len >= 1
          /\ t.kind \in DOMAIN Operator => len >= 2
          /\ t.kind = "between" => len >= 3
          /\ t.kind = "is_in" => len >= 1
      <3> HIDE DEF operand, p, T
      <3>1. t.kind \in {"is_null", "not_null"} => len = 1
        BY <2>4 DEF Shape
      <3>2. t.kind \in DOMAIN Operator => len = 2
        BY <2>4 DEF Shape
      <3>3. t.kind = "between" => len = 3
        BY <2>4 DEF Shape
      <3>4. t.kind = "is_in" => len >= 1
        BY <2>4 DEF Shape
      <3> HIDE DEF len
      <3> QED  BY ONLY <3>1, <3>2, <3>3, <3>4
    <2>7. p.kind \in PredicateKinds => p \in Trees[n + 1]
      BY <1>2, <2>1, <2>3
    <2>8. CASE t.kind \in {"col", "lit"}
      <3>1. p \in {t, Unsupported}
        <4>1. t.kind = "col" => p = t
          BY OperatorKinds DEF VisitNode
        <4>2. t.kind = "lit" => p = Literal(t.val) /\ t = Lit(t.val)
          BY <2>1, <2>4, TreeParts, OperatorKinds DEF VisitNode, Lit, Shape
        <4> QED  BY <2>8, <4>1, <4>2 DEF Literal
      <3>2. \A j \in 1..(MaxHeight + 1) : t \in pure[j]
        BY <2>1, <2>8, LeafIsPure
      <3>3. Purified(t, n, pure)
        BY <2>8, <3>2, OperatorKinds DEF Purified, PredicateKinds
      <3>4. Purified(Unsupported, n, pure)
        BY OperatorKinds DEF Purified, PredicateKinds, Unsupported, Token, Op, Node
      <3> QED  BY <2>3, <3>1, <3>3, <3>4
    <2>9. CASE t.kind \notin {"col", "lit"}
      <3> HIDE DEF operand, len
      <3>1. p.kind \in PredicateKinds => PureAbove(p, pure[n])
        <4>1. CASE t.kind = "between"
          BY <2>1, <2>4, <2>5, <2>6, <2>7, <4>1, BetweenPure
        <4>2. CASE t.kind # "between"
          BY <2>4, <2>5, <2>6, <2>9, <4>2, VisitPure
        <4> QED  BY <4>1, <4>2
      <3>2. p.kind \in PredicateKinds => p \in pure[n + 1]
        <4> HIDE DEF p
        <4> QED  BY <2>1, <2>7, <3>1, PureIsPure
      <3>3. p.kind \notin {"col", "lit"}
        BY <2>9, VisitNoLeaf
      <3> QED  BY <2>3, <3>2, <3>3 DEF Purified
    <2> QED  BY <2>8, <2>9
  <1>5. MaxHeight \in T
    <2> HIDE DEF T
    <2> QED  BY <1>0, <1>3, <1>4, SetInduction
  <1>6. CompileFilter(e) = visit[MaxHeight][e] /\ visit[MaxHeight][e].kind \in PredicateKinds
    BY <1>1 DEF CompileFilter
  <1> QED  BY <1>5, <1>6 DEF Purified


-----------------------------------------------------------------------------
(* The renderer and the driver go through operands from left to right. *)

(* One sequence behind another. *)
LEMMA ConcatenationParts ==
    ASSUME NEW X, NEW s \in Seq(X), NEW t \in Seq(X)
    PROVE  /\ s \o t \in Seq(X) /\ Len(s \o t) = Len(s) + Len(t)
           /\ Len(s) \in Nat /\ Len(t) \in Nat
           /\ \A x \in 1..Len(s) : (s \o t)[x] = s[x]
           /\ \A j \in 1..Len(t) : (s \o t)[Len(s) + j] = t[j]
  OBVIOUS

(* Sequences written out place by place. *)
LEMMA AppendPlaces ==
    ASSUME NEW n \in Nat, NEW B
    PROVE  Append([j \in 1..n |-> B[j]], B[n + 1]) = [j \in 1..(n + 1) |-> B[j]]
  <1> DEFINE f == [j \in 1..n |-> B[j]]
             S == {B[j] : j \in 1..n}
  <1>1. f \in [1..n -> S]
    OBVIOUS
  <1>2. f \in Seq(S) /\ Len(f) = n
    BY <1>1
  <1> HIDE DEF f
  <1>3. Append(f, B[n + 1]) = [j \in 1..(Len(f) + 1) |-> IF j <= Len(f) THEN f[j] ELSE B[n + 1]]
    BY <1>2
  <1>4. \A j \in 1..(n + 1) : (IF j <= n THEN f[j] ELSE B[n + 1]) = B[j]
    BY DEF f
  <1> QED  BY <1>2, <1>3, <1>4 DEF f

\* What BindArgs has done after m operands
IsBindArgs(f, args, used, bind, m) ==
    f = [n \in 0..m |->
            IF n = 0 THEN [args |-> << >>, used |-> used]
            ELSE LET one == bind[args[n]][f[n - 1].used]
                 IN  [args |-> Append(f[n - 1].args, one.sql), used |-> one.used]]

(* Binding operands is well defined. *)
LEMMA BindArgsExists ==
    ASSUME NEW args, NEW used, NEW bind, NEW m \in Nat
    PROVE  \E f : IsBindArgs(f, args, used, bind, m)
  <1> DEFINE More(n, prev) ==
               LET one == bind[args[n]][prev.used]
                 IN  [args |-> Append(prev.args, one.sql), used |-> one.used]
             Is(f, n) == f = [k \in 0..n |-> IF k = 0 THEN [args |-> << >>, used |-> used] ELSE More(k, f[k - 1])]
             T == {n \in Nat : \E f : Is(f, n)}
  <1> HIDE DEF More
  <1>1. 0 \in T
    <2> DEFINE f == [k \in 0..0 |-> [args |-> << >>, used |-> used]]
    <2>1. \A k \in 0..0 : k = 0
      OBVIOUS
    <2>2. Is(f, 0)
      BY <2>1
    <2> QED  BY <2>2
  <1>2. ASSUME NEW n \in Nat, n \in T PROVE n + 1 \in T
    <2>1. PICK g : Is(g, n)
      BY <1>2
    <2> DEFINE f == [k \in 0..(n + 1) |-> IF k = n + 1 THEN More(k, g[n]) ELSE g[k]]
    <2>2. ASSUME NEW k \in 0..(n + 1)
          PROVE  f[k] = IF k = 0 THEN [args |-> << >>, used |-> used] ELSE More(k, f[k - 1])
      <3>1. CASE k = n + 1
        <4>1. f[k] = More(k, g[n]) /\ k # 0 /\ f[k - 1] = g[n]
          BY <3>1
        <4> QED  BY <4>1
      <3>2. CASE k # n + 1
        <4>1. k \in 0..n /\ f[k] = g[k]
          BY <3>2
        <4>2. g[k] = IF k = 0 THEN [args |-> << >>, used |-> used] ELSE More(k, g[k - 1])
          BY <2>1, <4>1
        <4>3. k # 0 => f[k - 1] = g[k - 1]
          BY <4>1
        <4> QED  BY <4>1, <4>2, <4>3
      <3> QED  BY <3>1, <3>2
    <2>3. f = [k \in 0..(n + 1) |-> f[k]]
      OBVIOUS
    <2> HIDE DEF f
    <2>4. Is(f, n + 1)
      BY <2>2, <2>3
    <2> HIDE DEF Is
    <2> QED  BY <2>4
  <1>3. m \in T
    <2> HIDE DEF T
    <2> QED  BY <1>1, <1>2, SetInduction
  <1>4. PICK f : Is(f, m)
    BY <1>3
  <1>5. IsBindArgs(f, args, used, bind, m)
    BY <1>4 DEF IsBindArgs, More
  <1> QED  BY <1>5

\* What RenderArgs has done after m operands
IsRenderArgs(f, args, before, render, m) ==
    f = [n \in 0..m |->
            IF n = 0 THEN [args |-> << >>, params |-> << >>]
            ELSE LET one == render[args[n]][before + Len(f[n - 1].params)]
                 IN  [args |-> Append(f[n - 1].args, one.sql), params |-> f[n - 1].params \o one.params]]

(* Rendering operands is well defined. *)
LEMMA RenderArgsExists ==
    ASSUME NEW args, NEW before, NEW render, NEW m \in Nat
    PROVE  \E f : IsRenderArgs(f, args, before, render, m)
  <1> DEFINE More(n, prev) ==
               LET one == render[args[n]][before + Len(prev.params)]
                 IN  [args |-> Append(prev.args, one.sql), params |-> prev.params \o one.params]
             Is(f, n) == f = [k \in 0..n |-> IF k = 0 THEN [args |-> << >>, params |-> << >>] ELSE More(k, f[k - 1])]
             T == {n \in Nat : \E f : Is(f, n)}
  <1> HIDE DEF More
  <1>1. 0 \in T
    <2> DEFINE f == [k \in 0..0 |-> [args |-> << >>, params |-> << >>]]
    <2>1. \A k \in 0..0 : k = 0
      OBVIOUS
    <2>2. Is(f, 0)
      BY <2>1
    <2> QED  BY <2>2
  <1>2. ASSUME NEW n \in Nat, n \in T PROVE n + 1 \in T
    <2>1. PICK g : Is(g, n)
      BY <1>2
    <2> DEFINE f == [k \in 0..(n + 1) |-> IF k = n + 1 THEN More(k, g[n]) ELSE g[k]]
    <2>2. ASSUME NEW k \in 0..(n + 1)
          PROVE  f[k] = IF k = 0 THEN [args |-> << >>, params |-> << >>] ELSE More(k, f[k - 1])
      <3>1. CASE k = n + 1
        <4>1. f[k] = More(k, g[n]) /\ k # 0 /\ f[k - 1] = g[n]
          BY <3>1
        <4> QED  BY <4>1
      <3>2. CASE k # n + 1
        <4>1. k \in 0..n /\ f[k] = g[k]
          BY <3>2
        <4>2. g[k] = IF k = 0 THEN [args |-> << >>, params |-> << >>] ELSE More(k, g[k - 1])
          BY <2>1, <4>1
        <4>3. k # 0 => f[k - 1] = g[k - 1]
          BY <4>1
        <4> QED  BY <4>1, <4>2, <4>3
      <3> QED  BY <3>1, <3>2
    <2>3. f = [k \in 0..(n + 1) |-> f[k]]
      OBVIOUS
    <2> HIDE DEF f
    <2>4. Is(f, n + 1)
      BY <2>2, <2>3
    <2> HIDE DEF Is
    <2> QED  BY <2>4
  <1>3. m \in T
    <2> HIDE DEF T
    <2> QED  BY <1>1, <1>2, SetInduction
  <1>4. PICK f : Is(f, m)
    BY <1>3
  <1>5. IsRenderArgs(f, args, before, render, m)
    BY <1>4 DEF IsRenderArgs, More
  <1> QED  BY <1>5

\* What Render makes of trees up to height m
IsRender(f, sty, m) ==
    f = [n \in 0..m |->
            IF n = 0 THEN << >>
            ELSE [t \in Trees[n] |->
                     [before \in Nat |-> RenderNode(t, before, f[n - 1], sty)]]]

(* Rendering is well defined. *)
LEMMA RenderExists ==
    ASSUME NEW sty, NEW m \in Nat
    PROVE  \E f : IsRender(f, sty, m)
  <1> DEFINE More(n, prev) ==
               [t \in Trees[n] |->
                     [before \in Nat |-> RenderNode(t, before, prev, sty)]]
             Is(f, n) == f = [k \in 0..n |-> IF k = 0 THEN << >> ELSE More(k, f[k - 1])]
             T == {n \in Nat : \E f : Is(f, n)}
  <1> HIDE DEF More
  <1>1. 0 \in T
    <2> DEFINE f == [k \in 0..0 |-> << >>]
    <2>1. \A k \in 0..0 : k = 0
      OBVIOUS
    <2>2. Is(f, 0)
      BY <2>1
    <2> QED  BY <2>2
  <1>2. ASSUME NEW n \in Nat, n \in T PROVE n + 1 \in T
    <2>1. PICK g : Is(g, n)
      BY <1>2
    <2> DEFINE f == [k \in 0..(n + 1) |-> IF k = n + 1 THEN More(k, g[n]) ELSE g[k]]
    <2>2. ASSUME NEW k \in 0..(n + 1)
          PROVE  f[k] = IF k = 0 THEN << >> ELSE More(k, f[k - 1])
      <3>1. CASE k = n + 1
        <4>1. f[k] = More(k, g[n]) /\ k # 0 /\ f[k - 1] = g[n]
          BY <3>1
        <4> QED  BY <4>1
      <3>2. CASE k # n + 1
        <4>1. k \in 0..n /\ f[k] = g[k]
          BY <3>2
        <4>2. g[k] = IF k = 0 THEN << >> ELSE More(k, g[k - 1])
          BY <2>1, <4>1
        <4>3. k # 0 => f[k - 1] = g[k - 1]
          BY <4>1
        <4> QED  BY <4>1, <4>2, <4>3
      <3> QED  BY <3>1, <3>2
    <2>3. f = [k \in 0..(n + 1) |-> f[k]]
      OBVIOUS
    <2> HIDE DEF f
    <2>4. Is(f, n + 1)
      BY <2>2, <2>3
    <2> HIDE DEF Is
    <2> QED  BY <2>4
  <1>3. m \in T
    <2> HIDE DEF T
    <2> QED  BY <1>1, <1>2, SetInduction
  <1>4. PICK f : Is(f, m)
    BY <1>3
  <1>5. IsRender(f, sty, m)
    BY <1>4 DEF IsRender, More
  <1> QED  BY <1>5

\* What the driver makes of trees up to height m
IsBind(f, ps, m) ==
    f = [n \in 0..m |->
            IF n = 0 THEN << >>
            ELSE [t \in Trees[n] |->
                     [u \in 0..Len(ps) |-> BindNode(t, u, f[n - 1], ps)]]]

(* Binding is well defined. *)
LEMMA BindExists ==
    ASSUME NEW ps, NEW m \in Nat
    PROVE  \E f : IsBind(f, ps, m)
  <1> DEFINE More(n, prev) ==
               [t \in Trees[n] |->
                     [u \in 0..Len(ps) |-> BindNode(t, u, prev, ps)]]
             Is(f, n) == f = [k \in 0..n |-> IF k = 0 THEN << >> ELSE More(k, f[k - 1])]
             T == {n \in Nat : \E f : Is(f, n)}
  <1> HIDE DEF More
  <1>1. 0 \in T
    <2> DEFINE f == [k \in 0..0 |-> << >>]
    <2>1. \A k \in 0..0 : k = 0
      OBVIOUS
    <2>2. Is(f, 0)
      BY <2>1
    <2> QED  BY <2>2
  <1>2. ASSUME NEW n \in Nat, n \in T PROVE n + 1 \in T
    <2>1. PICK g : Is(g, n)
      BY <1>2
    <2> DEFINE f == [k \in 0..(n + 1) |-> IF k = n + 1 THEN More(k, g[n]) ELSE g[k]]
    <2>2. ASSUME NEW k \in 0..(n + 1)
          PROVE  f[k] = IF k = 0 THEN << >> ELSE More(k, f[k - 1])
      <3>1. CASE k = n + 1
        <4>1. f[k] = More(k, g[n]) /\ k # 0 /\ f[k - 1] = g[n]
          BY <3>1
        <4> QED  BY <4>1
      <3>2. CASE k # n + 1
        <4>1. k \in 0..n /\ f[k] = g[k]
          BY <3>2
        <4>2. g[k] = IF k = 0 THEN << >> ELSE More(k, g[k - 1])
          BY <2>1, <4>1
        <4>3. k # 0 => f[k - 1] = g[k - 1]
          BY <4>1
        <4> QED  BY <4>1, <4>2, <4>3
      <3> QED  BY <3>1, <3>2
    <2>3. f = [k \in 0..(n + 1) |-> f[k]]
      OBVIOUS
    <2> HIDE DEF f
    <2>4. Is(f, n + 1)
      BY <2>2, <2>3
    <2> HIDE DEF Is
    <2> QED  BY <2>4
  <1>3. m \in T
    <2> HIDE DEF T
    <2> QED  BY <1>1, <1>2, SetInduction
  <1>4. PICK f : Is(f, m)
    BY <1>3
  <1>5. IsBind(f, ps, m)
    BY <1>4 DEF IsBind, More
  <1> QED  BY <1>5

(* BindArgs, if each operand becomes B[i] and counts from us[i - 1] to us[i]. *)
LEMMA BindArgsFollow ==
    ASSUME NEW args, NEW used, NEW bind, Len(args) \in Nat, NEW us, us[0] = used,
           NEW B, B = [i \in 1..Len(args) |-> B[i]],
           \A i \in 1..Len(args) : bind[args[i]][us[i - 1]] = [sql |-> B[i], used |-> us[i]]
    PROVE  BindArgs(args, used, bind) = [args |-> B, used |-> us[Len(args)]]
  <1> DEFINE f == CHOOSE g : IsBindArgs(g, args, used, bind, Len(args))
  <1>1. BindArgs(args, used, bind) = f[Len(args)]
    BY Zenon DEF BindArgs, IsBindArgs
  <1>2. IsBindArgs(f, args, used, bind, Len(args))
    BY BindArgsExists
  <1> HIDE DEF f
  <1> DEFINE T == {n \in Nat : n <= Len(args) =>
                      f[n] = [args |-> [j \in 1..n |-> B[j]], used |-> us[n]]}
  <1>3. 0 \in T
    <2>1. f[0] = [args |-> << >>, used |-> used]
      BY <1>2 DEF IsBindArgs
    <2>2. [j \in 1..0 |-> B[j]] = << >>
      OBVIOUS
    <2> QED  BY <2>1, <2>2
  <1>4. ASSUME NEW n \in Nat, n \in T PROVE n + 1 \in T
    <2> SUFFICES ASSUME n + 1 <= Len(args)
                 PROVE  f[n + 1] = [args |-> [j \in 1..(n + 1) |-> B[j]], used |-> us[n + 1]]
      OBVIOUS
    <2>1. n + 1 \in 0..Len(args) /\ n + 1 # 0 /\ (n + 1) - 1 = n /\ n + 1 \in 1..Len(args)
      OBVIOUS
    <2>2. f[n] = [args |-> [j \in 1..n |-> B[j]], used |-> us[n]]
      BY <1>4
    <2> DEFINE one == bind[args[n + 1]][f[n].used]
    <2>3. f[n + 1] = [args |-> Append(f[n].args, one.sql), used |-> one.used]
      BY <1>2, <2>1 DEF IsBindArgs
    <2>4. one = [sql |-> B[n + 1], used |-> us[n + 1]]
      BY <2>1, <2>2
    <2> HIDE DEF one
    <2>5. Append([j \in 1..n |-> B[j]], B[n + 1]) = [j \in 1..(n + 1) |-> B[j]]
      BY AppendPlaces
    <2>6. f[n].args = [j \in 1..n |-> B[j]] /\ one.sql = B[n + 1] /\ one.used = us[n + 1]
      BY <2>2, <2>4
    <2> QED  BY ONLY <2>3, <2>5, <2>6
  <1>5. Len(args) \in T
    <2> HIDE DEF T
    <2> QED  BY <1>3, <1>4, SetInduction
  <1> QED  BY <1>1, <1>5

\* k[i] parameters come from the first i operands
Rendering(all, args, before, render, k) ==
    /\ k \in [0..Len(args) -> Nat] /\ k[0] = 0
    /\ \A i \in 1..Len(args) :
          LET one == render[args[i]][before + k[i - 1]]
          IN  /\ k[i] = k[i - 1] + Len(one.params) /\ k[i] <= k[Len(args)]
              /\ all.args[i] = one.sql
              /\ \A j \in 1..Len(one.params) : all.params[k[i - 1] + j] = one.params[j]
    /\ all.args = [i \in 1..Len(args) |-> all.args[i]]
    /\ Len(all.params) = k[Len(args)]

(* RenderArgs puts the operands and their parameters side by side. *)
LEMMA RenderArgsFollow ==
    ASSUME NEW args, Len(args) \in Nat, NEW before \in Nat, NEW render, NEW X,
           \A i \in 1..Len(args) : \A b \in Nat : render[args[i]][b].params \in Seq(X)
    PROVE  LET all == RenderArgs(args, before, render)
           IN  all.params \in Seq(X) /\ \E k : Rendering(all, args, before, render, k)
  <1> DEFINE f == CHOOSE g : IsRenderArgs(g, args, before, render, Len(args))
             L == Len(args)
  <1>1. RenderArgs(args, before, render) = f[L]
    BY Zenon DEF RenderArgs, IsRenderArgs
  <1>2. IsRenderArgs(f, args, before, render, L)
    BY RenderArgsExists
  <1> HIDE DEF f
  <1> DEFINE k == [i \in 0..L |-> Len(f[i].params)]
             one(i) == render[args[i]][before + k[i - 1]]
             Upto(n) ==
                /\ f[n].params \in Seq(X)
                /\ f[n].args = [i \in 1..n |-> one(i).sql]
                /\ \A i \in 1..n :
                      /\ k[i - 1] \in Nat /\ one(i).params \in Seq(X)
                      /\ k[i] = k[i - 1] + Len(one(i).params) /\ k[i] <= k[n]
                      /\ \A j \in 1..Len(one(i).params) :
                            f[n].params[k[i - 1] + j] = one(i).params[j]
  <1>3. Upto(0)
    <2>1. f[0] = [args |-> << >>, params |-> << >>]
      BY <1>2 DEF IsRenderArgs
    <2>2. [i \in 1..0 |-> one(i).sql] = << >>
      OBVIOUS
    <2> HIDE DEF k, one
    <2>3. f[0].params \in Seq(X) /\ f[0].args = [i \in 1..0 |-> one(i).sql]
      BY <2>1, <2>2
    <2> QED  BY <2>3
  <1> HIDE DEF Upto
  <1>4. ASSUME NEW n \in Nat, n + 1 <= L, Upto(n) PROVE Upto(n + 1)
    <2> DEFINE m == n + 1
               new == one(m)
               prev == f[n]
               now == f[m]
    <2>1. m \in 0..L /\ m # 0 /\ m - 1 = n /\ m \in 1..L /\ n \in 0..L
      BY <1>4
    <2>2. prev.params \in Seq(X) /\ prev.args = [i \in 1..n |-> one(i).sql]
      BY <1>4 DEF Upto
    <2>3. k[n] = Len(prev.params) /\ k[m] = Len(now.params) /\ k[n] \in Nat
      <3>1. k[n] = Len(prev.params) /\ k[m] = Len(now.params)
        BY <2>1
      <3> HIDE DEF k, prev, now
      <3> QED  BY <2>2, <3>1
    <2>4. now = [args |-> Append(prev.args, new.sql), params |-> prev.params \o new.params]
      <3>1. new = render[args[m]][before + Len(f[n].params)]
        BY <2>1
      <3> QED  BY <1>2, <2>1, <3>1 DEF IsRenderArgs
    <2>5. new.params \in Seq(X)
      <3>1. new = render[args[m]][before + k[n]] /\ before + k[n] \in Nat
        BY <2>1, <2>3
      <3> HIDE DEF new, k, m
      <3> QED  BY <2>1, <3>1
    <2>6. now.params = prev.params \o new.params /\ now.args = Append(prev.args, new.sql)
      <3> HIDE DEF new, prev, now
      <3> QED  BY ONLY <2>4
    <2>7. /\ now.params \in Seq(X) /\ k[m] = k[n] + Len(new.params) /\ Len(new.params) \in Nat
          /\ \A x \in 1..k[n] : now.params[x] = prev.params[x]
          /\ \A j \in 1..Len(new.params) : now.params[k[n] + j] = new.params[j]
      <3> HIDE DEF new, k, m, prev, now
      <3> DEFINE a == prev.params
                 b == new.params
                 c == now.params
      <3>1. a \in Seq(X) /\ b \in Seq(X) /\ c = a \o b /\ k[n] = Len(a) /\ k[m] = Len(c)
        BY <2>2, <2>3, <2>5, <2>6
      <3> HIDE DEF a, b, c
      <3>2. /\ c \in Seq(X) /\ Len(c) = Len(a) + Len(b) /\ Len(b) \in Nat
            /\ \A x \in 1..Len(a) : c[x] = a[x]
            /\ \A j \in 1..Len(b) : c[Len(a) + j] = b[j]
        BY <3>1, ConcatenationParts
      <3>3. /\ c \in Seq(X) /\ k[m] = k[n] + Len(b) /\ Len(b) \in Nat
            /\ \A x \in 1..k[n] : c[x] = a[x]
            /\ \A j \in 1..Len(b) : c[k[n] + j] = b[j]
        BY ONLY <3>1, <3>2
      <3> QED  BY ONLY <3>3 DEF a, b, c
    <2>8. now.args = [i \in 1..m |-> one(i).sql]
      <3> DEFINE B == [i \in 1..m |-> one(i).sql]
      <3>1. [i \in 1..n |-> B[i]] = [i \in 1..n |-> one(i).sql] /\ B[n + 1] = new.sql
            /\ B = [i \in 1..m |-> B[i]]
        BY <2>1
      <3> HIDE DEF B, new, one, k, prev, now
      <3>2. Append([i \in 1..n |-> B[i]], B[n + 1]) = [i \in 1..(n + 1) |-> B[i]]
        BY AppendPlaces
      <3>3. now.args = Append([i \in 1..n |-> B[i]], B[n + 1])
        BY <2>2, <2>6, <3>1
      <3>4. now.args = B
        BY <3>1, <3>2, <3>3
      <3> QED  BY <3>4 DEF B
    <2>9. ASSUME NEW i \in 1..m
          PROVE  /\ k[i - 1] \in Nat /\ one(i).params \in Seq(X)
                 /\ k[i] = k[i - 1] + Len(one(i).params) /\ k[i] <= k[m]
                 /\ \A j \in 1..Len(one(i).params) :
                       now.params[k[i - 1] + j] = one(i).params[j]
      <3>1. CASE i = m
        <4> HIDE DEF k, one, now, prev
        <4>1. one(i) = new /\ i - 1 = n
          BY <2>1, <3>1
        <4>2. k[m] \in Int
          <5> HIDE DEF new, m
          <5> QED  BY <2>3, <2>7
        <4> HIDE DEF new, m
        <4>3. k[i - 1] = k[n] /\ k[i] = k[m]
          BY <3>1, <4>1
        <4>4. k[m] <= k[m]
          BY <4>2
        <4> QED  BY ONLY <2>3, <2>5, <2>7, <4>1, <4>3, <4>4
      <3>2. CASE i # m
        <4>1. i \in 1..n
          BY <2>1, <3>2
        <4> DEFINE old == one(i)
        <4>2. /\ k[i - 1] \in Nat /\ old.params \in Seq(X)
              /\ k[i] = k[i - 1] + Len(old.params) /\ k[i] <= k[n]
              /\ \A j \in 1..Len(old.params) : prev.params[k[i - 1] + j] = old.params[j]
          <5> HIDE DEF k, one
          <5> QED  BY <1>4, <4>1 DEF Upto
        <4> HIDE DEF k, one, old, new, prev, now, m
        <4>3. Len(old.params) \in Nat
          BY <4>2
        <4>4. ASSUME NEW j \in 1..Len(old.params)
              PROVE  now.params[k[i - 1] + j] = old.params[j]
          <5>1. k[i - 1] + j \in 1..k[n]
            BY <2>3, <4>2, <4>3
          <5> QED  BY <2>7, <4>2, <5>1
        <4>5. k[i] <= k[m]
          <5> DEFINE x == k[i]
                     y == k[n]
                     z == Len(new.params)
          <5>1. x \in Int /\ y \in Int /\ z \in Nat /\ x <= y /\ k[m] = y + z
            BY <2>3, <2>7, <4>2, <4>3
          <5> HIDE DEF x, y, z
          <5>2. x <= y + z
            BY <5>1
          <5> QED  BY <5>1, <5>2 DEF x
        <4> QED  BY <4>2, <4>4, <4>5 DEF old
      <3> QED  BY <3>1, <3>2
    <2> HIDE DEF k, one
    <2> QED  BY <2>7, <2>8, <2>9 DEF Upto
  <1>5. Upto(L)
    <2> DEFINE T == {n \in Nat : n <= L => Upto(n)}
    <2>1. 0 \in T
      BY <1>3
    <2>2. ASSUME NEW n \in Nat, n \in T PROVE n + 1 \in T
      BY <1>4, <2>2
    <2>3. L \in T
      <3> HIDE DEF T
      <3> QED  BY <2>1, <2>2, SetInduction
    <2> QED  BY <2>3
  <1>6. \A i \in 0..L : k[i] \in Nat
    <2> SUFFICES ASSUME NEW i \in 0..L PROVE k[i] \in Nat
      OBVIOUS
    <2>1. CASE i = L
      <3>1. f[L].params \in Seq(X)
        BY <1>5 DEF Upto
      <3> QED  BY <2>1, <3>1
    <2>2. CASE i # L
      <3>1. i + 1 \in 1..L /\ (i + 1) - 1 = i
        BY <2>2
      <3> HIDE DEF k, one
      <3> QED  BY <1>5, <3>1 DEF Upto
    <2> QED  BY <2>1, <2>2
  <1>7. k[0] = 0 /\ Len(f[L].params) = k[L] /\ k \in [0..L -> Nat]
    <2>1. f[0] = [args |-> << >>, params |-> << >>]
      BY <1>2 DEF IsRenderArgs
    <2>2. k = [i \in 0..L |-> k[i]] /\ k[0] = 0 /\ Len(f[L].params) = k[L]
      BY <2>1
    <2> HIDE DEF k
    <2> QED  BY <1>6, <2>2
  <1>8. Rendering(f[L], args, before, render, k)
    <2> HIDE DEF k, f
    <2>1. f[L].args = [i \in 1..L |-> f[L].args[i]] /\ \A i \in 1..L : f[L].args[i] = one(i).sql
      BY <1>5 DEF Upto
    <2> QED  BY <1>5, <1>7, <2>1 DEF Rendering, Upto
  <1> QED  BY <1>1, <1>5, <1>8 DEF Upto

-----------------------------------------------------------------------------
(* What the renderer wrote, the driver reads back. *)

(* Render goes from the leaves up. *)
LEMMA RenderIs ==
    ASSUME NEW sty
    PROVE  \E f : IsRender(f, sty, MaxHeight + 1) /\ \A p : Render(p, sty) = f[MaxHeight + 1][p][0]
  <1> DEFINE f == CHOOSE g : IsRender(g, sty, MaxHeight + 1)
  <1>1. \A p : Render(p, sty) = f[MaxHeight + 1][p][0]
    BY Zenon DEF Render, IsRender, Heights
  <1>2. MaxHeight + 1 \in Nat
    BY FiltersAssumption
  <1>3. IsRender(f, sty, MaxHeight + 1)
    BY <1>2, RenderExists
  <1> HIDE DEF f
  <1> QED  BY <1>1, <1>3

(* Bind too. *)
LEMMA BindIs ==
    ASSUME NEW ps
    PROVE  \E f : /\ IsBind(f, ps, MaxHeight + 1)
                  /\ \A p, u : Bind(p, u, ps) = f[MaxHeight + 1][p][u]
  <1> DEFINE f == CHOOSE g : IsBind(g, ps, MaxHeight + 1)
  <1>1. \A p, u : Bind(p, u, ps) = f[MaxHeight + 1][p][u]
    BY Zenon DEF Bind, IsBind, Heights
  <1>2. MaxHeight + 1 \in Nat
    BY FiltersAssumption
  <1>3. IsBind(f, ps, MaxHeight + 1)
    BY <1>2, BindExists
  <1> HIDE DEF f
  <1> QED  BY <1>1, <1>3

\* The parameters of a predicate
Bindings == [name : {Placeholder} \cup {Daft(k) : k \in Nat}, value : Int]

\* The driver's parameters hold these, from place u on or by their names
Holds(sty, ps, some, u) ==
    IF sty = "mysql"
    THEN u + Len(some) <= Len(ps) /\ \A j \in 1..Len(some) : ps[u + j].value = some[j].value
    ELSE \A j \in 1..Len(some) : ValueNamed(ps, some[j].name) = some[j].value

\* Only %s counts
After(sty, u, k) == IF sty = "mysql" THEN u + k ELSE u

\* Rendered behind b parameters: a tree, and parameters that are named by their
\* place
RenderedWell(r, n, b, sty) ==
    /\ r.sql \in Trees[n]
    /\ r.params \in Seq(Bindings)
    /\ sty = "flight" => r.params = << >>
    /\ sty = "clickhouse" => \A j \in 1..Len(r.params) : r.params[j].name = Daft((b + j) - 1)

\* The driver puts the parameters back; without any there is nothing to put back
Restored(t, r, n, sty, ps, bind) ==
    /\ r.params = << >> => r.sql = t
    /\ \A u \in 0..Len(ps) :
          Holds(sty, ps, r.params, u) =>
              bind[n][r.sql][u] = [sql |-> t, used |-> After(sty, u, Len(r.params))]

(* The nodes that stand for a value. *)
LEMMA MarkersAreTrees ==
    ASSUME NEW n \in 1..(MaxHeight + 1), NEW b \in Nat
    PROVE  /\ Placeholder \in Trees[n] /\ Daft(b) \in Trees[n]
           /\ Placeholder.kind = "%s" /\ Daft(b).kind = "daft" /\ Daft(b) # Placeholder
  <1>1. << >> \in Seq(Trees[n - 1])
    OBVIOUS
  <1>2. Trees[n] = {e \in [kind : TreeKinds, val : Int, args : Seq(Trees[n - 1])] : Shape(e)}
    BY TreesUnfold
  <1>3. "%s" \in TreeKinds /\ "daft" \in TreeKinds
    BY DEF TreeKinds
  <1>4. /\ Placeholder = [kind |-> "%s", val |-> 0, args |-> << >>]
        /\ Daft(b) = [kind |-> "daft", val |-> b, args |-> << >>]
    BY DEF Placeholder, Daft, Token, Op, Node
  <1>5. Shape(Placeholder) /\ Shape(Daft(b))
    <2>1. Placeholder.kind = "%s" /\ Daft(b).kind = "daft"
      BY <1>4
    <2> QED  BY ONLY <2>1, OperatorKinds DEF Shape
  <1> QED  BY <1>1, <1>2, <1>3, <1>4, <1>5

(* The functions, one height up. *)
LEMMA RenderStep ==
    ASSUME NEW sty, NEW render, IsRender(render, sty, MaxHeight + 1), NEW n \in 1..(MaxHeight + 1),
           NEW t \in Trees[n], NEW b \in Nat
    PROVE  render[n][t][b] = RenderNode(t, b, render[n - 1], sty)
  <1>1. n \in 0..(MaxHeight + 1) /\ n # 0
    BY TreesUnfold
  <1>2. render[n] = [s \in Trees[n] |-> [before \in Nat |-> RenderNode(s, before, render[n - 1], sty)]]
    BY <1>1 DEF IsRender
  <1> QED  BY <1>2

(* Binding a node: the names below it are bound first. *)
LEMMA BindStep ==
    ASSUME NEW ps, NEW bind, IsBind(bind, ps, MaxHeight + 1), NEW n \in 1..(MaxHeight + 1),
           NEW t \in Trees[n], NEW u \in 0..Len(ps)
    PROVE  bind[n][t][u] = BindNode(t, u, bind[n - 1], ps)
  <1>1. n \in 0..(MaxHeight + 1) /\ n # 0
    BY TreesUnfold
  <1>2. bind[n] = [s \in Trees[n] |-> [v \in 0..Len(ps) |-> BindNode(s, v, bind[n - 1], ps)]]
    BY <1>1 DEF IsBind
  <1> QED  BY <1>2

(* A node without operands that stands for itself. *)
LEMMA BindLeaf ==
    ASSUME NEW t, t = Node(t.kind, t.val, << >>), t.kind \notin {"%s", "daft", "partition"},
           NEW u, NEW bind, NEW ps
    PROVE  BindNode(t, u, bind, ps) = [sql |-> t, used |-> u]
  <1>1. t.args = << >> /\ Len(t.args) = 0
    BY DEF Node
  <1>2. t # Placeholder
    BY DEF Placeholder, Token, Op, Node
  <1> DEFINE us == [i \in {0} |-> u]
  <1>3. BindArgs(t.args, u, bind) = [args |-> t.args, used |-> us[Len(t.args)]]
    <2>1. t.args = [i \in 1..Len(t.args) |-> t.args[i]] /\ us[0] = u /\ 1..Len(t.args) = {}
      BY <1>1
    <2> HIDE DEF us
    <2>2. \A i \in 1..Len(t.args) :
              bind[t.args[i]][us[i - 1]] = [sql |-> t.args[i], used |-> us[i]]
      BY <2>1
    <2>3. Len(t.args) \in Nat
      BY <1>1
    <2> QED  BY <2>1, <2>2, <2>3, BindArgsFollow
  <1>4. BindNode(t, u, bind, ps)
           = [sql |-> [t EXCEPT !.args = BindArgs(t.args, u, bind).args],
              used |-> BindArgs(t.args, u, bind).used]
    BY <1>2 DEF BindNode
  <1>5. [t EXCEPT !.args = t.args] = t
    BY DEF Node
  <1> QED  BY <1>1, <1>3, <1>4, <1>5

(* Literals and columns. *)
LEMMA LeafRestored ==
    ASSUME NEW sty \in Styles, NEW render, IsRender(render, sty, MaxHeight + 1),
           NEW ps, Len(ps) \in Nat, NEW bind, IsBind(bind, ps, MaxHeight + 1),
           NEW n \in 1..(MaxHeight + 1), NEW t \in Trees[n], t.kind \in {"col", "lit"}, NEW b \in Nat
    PROVE  /\ RenderedWell(render[n][t][b], n, b, sty)
           /\ Restored(t, render[n][t][b], n, sty, ps, bind)
  <1> DEFINE r == render[n][t][b]
  <1>1. r = RenderNode(t, b, render[n - 1], sty)
    BY RenderStep
  <1>2. t = Node(t.kind, t.val, << >>) /\ t.val \in Int
    BY TreeParts DEF Shape
  <1> HIDE DEF r
  <1> SUFFICES RenderedWell(r, n, b, sty) /\ Restored(t, r, n, sty, ps, bind)
    BY DEF r
  <1>3. CASE t.kind = "col" \/ sty = "flight"
    <2>1. r.sql = t /\ r.params = << >> /\ Len(r.params) = 0
      <3>1. r = [sql |-> t, params |-> << >>]
        BY <1>1, <1>2, <1>3 DEF RenderNode, RenderLiteral, Lit
      <3> QED  BY <3>1
    <2>2. RenderedWell(r, n, b, sty)
      BY <2>1 DEF RenderedWell
    <2>3. ASSUME NEW u \in 0..Len(ps)
          PROVE  bind[n][r.sql][u] = [sql |-> t, used |-> After(sty, u, Len(r.params))]
      <3>1. bind[n][t][u] = [sql |-> t, used |-> u]
        BY <1>2, BindStep, BindLeaf
      <3>2. After(sty, u, 0) = u
        BY DEF After
      <3> QED  BY <2>1, <3>1, <3>2
    <2> QED  BY <2>1, <2>2, <2>3 DEF Restored
  <1>4. CASE t.kind = "lit" /\ sty = "mysql"
    <2>1. r = [sql |-> Placeholder, params |-> <<Parameter(Placeholder, t.val)>>]
      BY <1>1, <1>4 DEF RenderNode, RenderLiteral
    <2>2. r.sql = Placeholder /\ r.params = <<Parameter(Placeholder, t.val)>>
      BY <2>1
    <2>3. Parameter(Placeholder, t.val) \in Bindings
      BY <1>2 DEF Parameter, Bindings
    <2>4. RenderedWell(r, n, b, sty)
      BY <1>4, <2>2, <2>3, MarkersAreTrees DEF RenderedWell
    <2>5. ASSUME NEW u \in 0..Len(ps), Holds(sty, ps, r.params, u)
          PROVE  bind[n][r.sql][u] = [sql |-> t, used |-> After(sty, u, Len(r.params))]
      <3>1. Len(r.params) = 1 /\ r.params[1].value = t.val
        BY <2>2 DEF Parameter
      <3>2. ps[u + 1].value = t.val
        BY <1>4, <2>5, <3>1 DEF Holds
      <3>3. bind[n][Placeholder][u] = BindNode(Placeholder, u, bind[n - 1], ps)
        BY BindStep, MarkersAreTrees
      <3>4. BindNode(Placeholder, u, bind[n - 1], ps)
              = [sql |-> Lit(ps[u + 1].value), used |-> u + 1]
        BY MarkersAreTrees DEF BindNode
      <3>5. t = Lit(t.val) /\ After(sty, u, 1) = u + 1
        BY <1>2, <1>4 DEF Lit, After
      <3> QED  BY <2>2, <3>1, <3>2, <3>3, <3>4, <3>5
    <2> QED  BY <2>2, <2>4, <2>5 DEF Restored
  <1>5. CASE t.kind = "lit" /\ sty = "clickhouse"
    <2>1. r = [sql |-> Daft(b), params |-> <<Parameter(Daft(b), t.val)>>]
      BY <1>1, <1>5 DEF RenderNode, RenderLiteral
    <2>2. r.sql = Daft(b) /\ r.params = <<Parameter(Daft(b), t.val)>>
      BY <2>1
    <2>3. Parameter(Daft(b), t.val) \in Bindings
      BY <1>2 DEF Parameter, Bindings
    <2>4. /\ Len(r.params) = 1 /\ r.params[1].value = t.val /\ r.params[1].name = Daft(b)
          /\ r.params \in Seq(Bindings)
      BY <2>2, <2>3 DEF Parameter
    <2>5. RenderedWell(r, n, b, sty)
      <3>1. \A j \in 1..Len(r.params) : j = 1 /\ (b + j) - 1 = b
        BY <2>4
      <3>2. \A j \in 1..Len(r.params) : r.params[j].name = Daft((b + j) - 1)
        BY <2>4, <3>1
      <3> QED  BY <1>5, <2>2, <2>4, <3>2, MarkersAreTrees DEF RenderedWell
    <2>6. ASSUME NEW u \in 0..Len(ps), Holds(sty, ps, r.params, u)
          PROVE  bind[n][r.sql][u] = [sql |-> t, used |-> After(sty, u, Len(r.params))]
      <3>1. ValueNamed(ps, Daft(b)) = t.val
        BY <1>5, <2>4, <2>6 DEF Holds
      <3>2. bind[n][Daft(b)][u] = BindNode(Daft(b), u, bind[n - 1], ps)
        BY BindStep, MarkersAreTrees
      <3>3. BindNode(Daft(b), u, bind[n - 1], ps)
              = [sql |-> Lit(ValueNamed(ps, Daft(b))), used |-> u]
        BY MarkersAreTrees DEF BindNode
      <3>4. t = Lit(t.val) /\ After(sty, u, 1) = u
        BY <1>2, <1>5 DEF Lit, After
      <3> QED  BY <2>2, <2>4, <3>1, <3>2, <3>3, <3>4
    <2> QED  BY <2>4, <2>5, <2>6 DEF Restored
  <1> QED  BY <1>3, <1>4, <1>5 DEF Styles

(* The shape of a predicate is that of its operands' number. *)
LEMMA SameShape ==
    ASSUME NEW n \in 1..(MaxHeight + 1), NEW t \in Trees[n], t.kind \in PredicateKinds,
           NEW a \in Seq(Trees[n - 1]), Len(a) = Len(t.args)
    PROVE  Op(t.kind, a) \in Trees[n]
  <1>1. /\ t.kind \in TreeKinds /\ Shape(t)
        /\ Trees[n] = {e \in [kind : TreeKinds, val : Int, args : Seq(Trees[n - 1])] : Shape(e)}
    BY TreeParts, TreesUnfold
  <1> DEFINE p == Op(t.kind, a)
  <1>2. p.kind = t.kind /\ p.args = a /\ p \in [kind : TreeKinds, val : Int, args : Seq(Trees[n - 1])]
    BY <1>1 DEF Op, Node
  <1>3. p.kind \notin {"col", "lit", "unsupported"}
    BY <1>2, OperatorKinds DEF PredicateKinds
  <1> HIDE DEF p
  <1>4. Shape(p)
    BY <1>1, <1>2, <1>3 DEF Shape
  <1> QED  BY <1>1, <1>2, <1>4 DEF p

\* Everything below height n comes back
Returns(m, sty, render, ps, bind, pure) ==
    \A t \in pure[m], b \in Nat :
        /\ RenderedWell(render[m][t][b], m, b, sty)
        /\ Restored(t, render[m][t][b], m, sty, ps, bind)

(* A predicate, whose operands are rendered and bound one after the other. *)
LEMMA NodeRestored ==
    ASSUME NEW sty \in Styles, NEW render, IsRender(render, sty, MaxHeight + 1),
           NEW ps, Len(ps) \in Nat, NEW bind, IsBind(bind, ps, MaxHeight + 1),
           NEW pure, NEW n \in 1..(MaxHeight + 1), Returns(n - 1, sty, render, ps, bind, pure),
           NEW t \in Trees[n], t.kind \in PredicateKinds, t.val = 0,
           \A i \in DOMAIN t.args : t.args[i] \in pure[n - 1], NEW b \in Nat
    PROVE  /\ RenderedWell(render[n][t][b], n, b, sty)
           /\ Restored(t, render[n][t][b], n, sty, ps, bind)
  <1> DEFINE r == render[n][t][b]
             below == render[n - 1]
             all == RenderArgs(t.args, b, below)
             L == Len(t.args)
  <1>0. t.kind \notin {"col", "lit", "%s", "daft", "partition"}
    BY OperatorKinds DEF PredicateKinds
  <1>1. r = [sql |-> Op(t.kind, all.args), params |-> all.params]
    <2>1. r = RenderNode(t, b, below, sty)
      BY RenderStep
    <2> HIDE DEF r, below
    <2> QED  BY <1>0, <2>1 DEF RenderNode
  <1>2. t = Node(t.kind, 0, t.args) /\ L \in Nat /\ DOMAIN t.args = 1..L
        /\ t.args = [i \in 1..L |-> t.args[i]]
    BY TreeParts
  <1>3. ASSUME NEW i \in 1..L, NEW c \in Nat
        PROVE  /\ RenderedWell(below[t.args[i]][c], n - 1, c, sty)
               /\ Restored(t.args[i], below[t.args[i]][c], n - 1, sty, ps, bind)
    BY <1>2 DEF Returns
  <1>4. \A i \in 1..L : \A c \in Nat : below[t.args[i]][c].params \in Seq(Bindings)
    BY <1>3 DEF RenderedWell
  <1> HIDE DEF r, below
  <1>5. all.params \in Seq(Bindings) /\ \E k : Rendering(all, t.args, b, below, k)
    BY <1>2, <1>4, RenderArgsFollow
  <1> HIDE DEF all
  <1>6. PICK k : Rendering(all, t.args, b, below, k)
    BY <1>5
  <1> DEFINE one(i) == below[t.args[i]][b + k[i - 1]]
             bindBelow == bind[n - 1]
  <1>7. /\ k \in [0..L -> Nat] /\ k[0] = 0 /\ Len(all.params) = k[L]
        /\ all.args = [i \in 1..L |-> all.args[i]]
        /\ \A i \in 1..L :
              /\ k[i] = k[i - 1] + Len(one(i).params) /\ k[i] <= k[L]
              /\ all.args[i] = one(i).sql
              /\ \A j \in 1..Len(one(i).params) : all.params[k[i - 1] + j] = one(i).params[j]
    BY <1>6 DEF Rendering
  <1>8. ASSUME NEW i \in 1..L
        PROVE  /\ k[i - 1] \in Nat /\ k[i] \in Nat /\ b + k[i - 1] \in Nat
               /\ RenderedWell(one(i), n - 1, b + k[i - 1], sty)
               /\ Restored(t.args[i], one(i), n - 1, sty, ps, bind)
    <2>1. i - 1 \in 0..L /\ i \in 0..L
      BY <1>2
    <2>2. k[i - 1] \in Nat /\ k[i] \in Nat /\ b + k[i - 1] \in Nat
      <3>1. k \in [0..L -> Nat]
        BY <1>7
      <3>2. k[i - 1] \in Nat /\ k[i] \in Nat
        BY ONLY <2>1, <3>1
      <3> QED  BY ONLY <3>2, b \in Nat
    <2> QED  BY <1>3, <2>2
  <1>9. all.args \in Seq(Trees[n - 1]) /\ Len(all.args) = L
    <2>1. \A i \in 1..L : all.args[i] \in Trees[n - 1]
      BY <1>7, <1>8 DEF RenderedWell
    <2> DEFINE A == all.args
    <2>2. L \in Nat /\ A = [i \in 1..L |-> A[i]] /\ \A i \in 1..L : A[i] \in Trees[n - 1]
      BY <1>2, <1>7, <2>1
    <2> HIDE DEF A, L
    <2>3. A \in Seq(Trees[n - 1]) /\ Len(A) = L
      BY ONLY <2>2, PlacesMakeSequence
    <2> QED  BY <2>3 DEF A
  <1>10. r.sql = Op(t.kind, all.args) /\ r.params = all.params
    BY <1>1
  <1>11. r.sql \in Trees[n]
    BY <1>9, <1>10, SameShape
  <1>12. RenderedWell(r, n, b, sty)
    <2>1. ASSUME sty = "clickhouse", NEW x \in 1..Len(all.params)
          PROVE  all.params[x].name = Daft((b + x) - 1)
      <3>1. \E i \in 1..L : k[i - 1] < x /\ x <= k[i]
        <4> DEFINE T == {i \in Nat : i \in 0..L /\ x <= k[i]}
        <4>1. L \in T
          BY <1>2, <1>7, <2>1
        <4>2. PICK i \in T : \A y \in T : i <= y
          <5> HIDE DEF T
          <5>1. T \subseteq Nat
            BY DEF T
          <5> QED  BY <4>1, <5>1, LeastNumber
        <4>3. i # 0
          BY <1>7
        <4>4. i \in 1..L /\ i - 1 \in 0..L /\ i - 1 \in Nat /\ ~(i <= i - 1)
          BY <4>3
        <4>5. ~(x <= k[i - 1])
          BY <4>2, <4>4
        <4>6. k[i - 1] \in Nat /\ x \in Int
          BY <1>8, <4>4
        <4> QED  BY <4>4, <4>5, <4>6
      <3>2. PICK i \in 1..L : k[i - 1] < x /\ x <= k[i]
        BY <3>1
      <3> DEFINE c == k[i - 1]
                 j == x - c
                 o == one(i)
      <3>3. c \in Nat /\ k[i] = c + Len(o.params) /\ RenderedWell(o, n - 1, b + c, sty)
        BY <1>7, <1>8
      <3>4. \A y \in 1..Len(o.params) : all.params[c + y] = o.params[y]
        BY <1>7
      <3>5. c < x /\ x <= k[i]
        BY <3>2
      <3> HIDE DEF c, o
      <3>6. Len(o.params) \in Nat
        BY <3>3 DEF RenderedWell
      <3>7. j \in 1..Len(o.params) /\ c + j = x /\ ((b + c) + j) - 1 = (b + x) - 1
        <4> DEFINE y == k[i]
                   z == Len(o.params)
        <4>1. c < x /\ x <= y /\ c \in Nat /\ z \in Nat /\ y = c + z /\ x \in Int /\ b \in Nat
          BY <3>3, <3>6, <3>5
        <4> HIDE DEF y, z
        <4>2. x - c \in 1..z /\ c + (x - c) = x /\ ((b + c) + (x - c)) - 1 = (b + x) - 1
          BY ONLY <4>1
        <4> QED  BY <4>2 DEF z
      <3> HIDE DEF j
      <3>8. o.params[j].name = Daft(((b + c) + j) - 1)
        BY <2>1, <3>3, <3>7 DEF RenderedWell
      <3> QED  BY <3>4, <3>7, <3>8
    <2>2. ASSUME sty = "flight" PROVE all.params = << >>
      <3>1. \A i \in 1..L : one(i).params = << >> /\ k[i] = k[i - 1]
        <4> SUFFICES ASSUME NEW i \in 1..L PROVE one(i).params = << >> /\ k[i] = k[i - 1]
          OBVIOUS
        <4>1. one(i).params = << >>
          BY <1>8, <2>2 DEF RenderedWell
        <4>2. k[i] = k[i - 1] + Len(one(i).params) /\ k[i - 1] \in Nat
          BY <1>7, <1>8
        <4> HIDE DEF one
        <4> QED  BY <4>1, <4>2
      <3> DEFINE T == {i \in Nat : i <= L => k[i] = 0}
      <3>2. 0 \in T
        BY <1>7
      <3>3. ASSUME NEW i \in Nat, i \in T PROVE i + 1 \in T
        <4> SUFFICES ASSUME i + 1 <= L PROVE k[i + 1] = 0
          OBVIOUS
        <4>1. i + 1 \in 1..L /\ (i + 1) - 1 = i /\ i <= L
          BY <1>2
        <4> QED  BY <3>1, <3>3, <4>1
      <3>4. L \in T
        <4> HIDE DEF T
        <4> QED  BY <1>2, <3>2, <3>3, SetInduction
      <3>5. Len(all.params) = 0
        BY <1>2, <1>7, <3>4
      <3> QED  BY <1>5, <3>5
    <2> QED  BY <1>5, <1>10, <1>11, <2>1, <2>2 DEF RenderedWell
  <1>13. ASSUME NEW u \in 0..Len(ps), Holds(sty, ps, r.params, u)
         PROVE  bind[n][r.sql][u] = [sql |-> t, used |-> After(sty, u, Len(r.params))]
    <2> DEFINE us == [i \in 0..L |-> After(sty, u, k[i])]
    <2>1. ASSUME NEW i \in 1..L
          PROVE  bindBelow[all.args[i]][us[i - 1]] = [sql |-> t.args[i], used |-> us[i]]
      <3> DEFINE c == k[i - 1]
                 o == one(i)
                 v == After(sty, u, c)
      <3>1. /\ c \in Nat /\ k[i] = c + Len(o.params) /\ k[i] <= k[L] /\ Len(all.params) = k[L]
            /\ all.args[i] = o.sql /\ RenderedWell(o, n - 1, b + c, sty)
            /\ Restored(t.args[i], o, n - 1, sty, ps, bind) /\ k[i] \in Nat /\ k[L] \in Nat
        <4>1. L \in 0..L
          BY <1>2
        <4>2. k[L] \in Nat
          BY <1>7, <4>1
        <4> QED  BY <1>7, <1>8, <4>2
      <3>2. \A y \in 1..Len(o.params) : all.params[c + y] = o.params[y]
        BY <1>7
      <3>3. us[i - 1] = v /\ us[i] = After(sty, u, k[i])
        <4>1. i - 1 \in 0..L /\ i \in 0..L
          BY <1>2
        <4> QED  BY <4>1
      <3> HIDE DEF us, c, o, v
      <3>4. Len(o.params) \in Nat
        BY <3>1 DEF RenderedWell
      <3>5. \A y \in 1..Len(o.params) : c + y \in 1..Len(all.params)
        BY <3>1, <3>4
      <3>6. v \in 0..Len(ps) /\ Holds(sty, ps, o.params, v)
            /\ After(sty, v, Len(o.params)) = After(sty, u, k[i])
        <4>1. CASE sty = "mysql"
          <5>1. /\ u + Len(all.params) <= Len(ps)
                /\ \A y \in 1..Len(all.params) : ps[u + y].value = all.params[y].value
            BY <1>10, <1>13, <4>1 DEF Holds
          <5>2. v = u + c
            BY <4>1 DEF v, After
          <5>3. /\ v \in 0..Len(ps) /\ v + Len(o.params) <= Len(ps)
                /\ v + Len(o.params) = u + k[i] /\ \A y \in 1..Len(o.params) : v + y = u + (c + y)
            <6> DEFINE w == Len(ps)
                       x == k[i]
                       y == k[L]
                       z == Len(o.params)
            <6>1. /\ u \in 0..w /\ w \in Nat /\ c \in Nat /\ x = c + z /\ x <= y /\ z \in Nat
                  /\ u + y <= w /\ y \in Nat /\ v = u + c
              BY <3>1, <3>4, <5>1, <5>2
            <6> HIDE DEF w, x, y, z
            <6>2. /\ v \in 0..w /\ v + z <= w /\ v + z = u + x
                  /\ \A m \in 1..z : v + m = u + (c + m)
              BY ONLY <6>1
            <6> QED  BY <6>2 DEF w, x, z
          <5>4. \A y \in 1..Len(o.params) : ps[v + y].value = o.params[y].value
            BY <3>2, <3>5, <5>1, <5>3
          <5> QED  BY <4>1, <5>3, <5>4 DEF Holds, After
        <4>2. CASE sty # "mysql"
          <5>1. \A y \in 1..Len(all.params) : ValueNamed(ps, all.params[y].name) = all.params[y].value
            BY <1>10, <1>13, <4>2 DEF Holds
          <5>2. \A y \in 1..Len(o.params) : ValueNamed(ps, o.params[y].name) = o.params[y].value
            BY <3>2, <3>5, <5>1
          <5>3. v = u /\ After(sty, v, Len(o.params)) = v /\ After(sty, u, k[i]) = u
            BY <4>2 DEF v, After
          <5>4. Holds(sty, ps, o.params, v)
            BY <4>2, <5>2 DEF Holds
          <5> QED  BY <5>3, <5>4
        <4> QED  BY <4>1, <4>2
      <3>7. bindBelow[o.sql][v] = [sql |-> t.args[i], used |-> After(sty, v, Len(o.params))]
        BY <3>1, <3>6 DEF Restored
      <3> HIDE DEF bindBelow
      <3> QED  BY <3>1, <3>3, <3>6, <3>7
    <2>2. us[0] = u /\ us[L] = After(sty, u, k[L]) /\ L \in 0..L
      <3>1. L \in 0..L /\ 0 \in 0..L
        BY <1>2
      <3>2. After(sty, u, 0) = u
        BY DEF After
      <3> QED  BY <1>7, <3>1, <3>2
    <2> HIDE DEF us, bindBelow
    <2>3. BindArgs(all.args, u, bindBelow) = [args |-> t.args, used |-> us[L]]
      <3> DEFINE A == all.args
                 B == t.args
      <3>1. /\ Len(A) = L /\ L \in Nat /\ B = [i \in 1..L |-> B[i]] /\ us[0] = u
            /\ \A i \in 1..L : bindBelow[A[i]][us[i - 1]] = [sql |-> B[i], used |-> us[i]]
        BY <1>2, <1>9, <2>1, <2>2
      <3> HIDE DEF A, B, L
      <3>2. /\ Len(A) \in Nat /\ B = [i \in 1..Len(A) |-> B[i]]
            /\ \A i \in 1..Len(A) : bindBelow[A[i]][us[i - 1]] = [sql |-> B[i], used |-> us[i]]
        BY ONLY <3>1
      <3>3. BindArgs(A, u, bindBelow) = [args |-> B, used |-> us[Len(A)]]
        BY ONLY <3>1, <3>2, BindArgsFollow
      <3> QED  BY <3>1, <3>3 DEF A, B
    <2>4. bind[n][r.sql][u] = BindNode(r.sql, u, bindBelow, ps)
      BY <1>11, BindStep DEF bindBelow
    <2>5. r.sql.kind = t.kind /\ r.sql.args = all.args /\ [r.sql EXCEPT !.args = t.args] = t
      BY <1>2, <1>10 DEF Op, Node
    <2>6. r.sql # Placeholder
      BY <1>0, <2>5 DEF Placeholder, Token, Op, Node
    <2>7. BindNode(r.sql, u, bindBelow, ps)
            = [sql |-> [r.sql EXCEPT !.args = BindArgs(all.args, u, bindBelow).args],
               used |-> BindArgs(all.args, u, bindBelow).used]
      BY <1>0, <2>5, <2>6 DEF BindNode
    <2>8. Len(r.params) = k[L]
      BY <1>7, <1>10
    <2> QED  BY <2>2, <2>3, <2>4, <2>5, <2>7, <2>8
  <1>14. ASSUME r.params = << >> PROVE r.sql = t
    <2>1. k[L] = 0
      BY <1>7, <1>10, <1>14
    <2>2. ASSUME NEW i \in 1..L PROVE all.args[i] = t.args[i]
      <3> DEFINE o == one(i)
      <3>1. /\ k[i] = k[i - 1] + Len(o.params) /\ k[i] <= k[L] /\ k[i - 1] \in Nat
            /\ o.params \in Seq(Bindings) /\ all.args[i] = o.sql
            /\ o.params = << >> => o.sql = t.args[i]
        BY <1>7, <1>8 DEF RenderedWell, Restored
      <3> HIDE DEF o
      <3>2. Len(o.params) \in Nat
        BY <3>1
      <3>3. Len(o.params) = 0
        BY <2>1, <3>1, <3>2
      <3> QED  BY <3>1, <3>3
    <2>3. all.args = t.args
      BY <1>2, <1>7, <2>2
    <2> QED  BY <1>2, <1>10, <2>3 DEF Op, Node
  <1>15. RenderedWell(r, n, b, sty) /\ Restored(t, r, n, sty, ps, bind)
    BY <1>12, <1>13, <1>14 DEF Restored
  <1> QED  BY <1>15 DEF r

(* Through any number of nested predicates. *)
LEMMA RenderRestored ==
    ASSUME NEW sty \in Styles, NEW render, IsRender(render, sty, MaxHeight + 1),
           NEW ps, Len(ps) \in Nat, NEW bind, IsBind(bind, ps, MaxHeight + 1),
           NEW pure, IsPure(pure, MaxHeight + 1)
    PROVE  Returns(MaxHeight + 1, sty, render, ps, bind, pure)
  <1>0. MaxHeight \in Nat
    BY TreesUnfold
  <1> DEFINE T == {m \in Nat : m <= MaxHeight + 1 => Returns(m, sty, render, ps, bind, pure)}
  <1>1. 0 \in T
    <2>1. pure[0] = {}
      BY <1>0 DEF IsPure
    <2> QED  BY <2>1 DEF Returns
  <1>2. ASSUME NEW m \in Nat, m \in T PROVE m + 1 \in T
    <2> DEFINE n == m + 1
    <2> SUFFICES ASSUME n <= MaxHeight + 1 PROVE Returns(n, sty, render, ps, bind, pure)
      OBVIOUS
    <2>1. n \in 1..(MaxHeight + 1) /\ n - 1 = m /\ m <= MaxHeight + 1
      BY <1>0
    <2>2. Returns(n - 1, sty, render, ps, bind, pure)
      BY <1>2, <2>1
    <2> HIDE DEF n, T
    <2> SUFFICES ASSUME NEW t \in pure[n], NEW b \in Nat
                 PROVE  /\ RenderedWell(render[n][t][b], n, b, sty)
                        /\ Restored(t, render[n][t][b], n, sty, ps, bind)
      BY DEF Returns
    <2>3. t \in Trees[n] /\ PureNode(t, pure[n - 1])
      BY <2>1, PureParts
    <2>4. CASE t.kind \in {"col", "lit"}
      BY <2>1, <2>3, <2>4, LeafRestored
    <2>5. CASE t.kind \notin {"col", "lit"}
      BY <2>1, <2>2, <2>3, <2>5, NodeRestored DEF PureNode
    <2> QED  BY <2>4, <2>5
  <1> HIDE DEF T
  <1>3. MaxHeight + 1 \in T
    BY <1>0, <1>1, <1>2, SetInduction
  <1> QED  BY <1>0, <1>3 DEF T

-----------------------------------------------------------------------------
(* The text of the fragment *)

\* What the driver has formatted after m tokens
IsFormat(f, text, used, ps, m) ==
    f = [n \in 0..m |->
            IF n = 0 THEN Formatted(<< >>, used, 0)
            ELSE FormatRound(text, n, f[n - 1], ps)]

(* Formatting is well defined. *)
LEMMA FormatExists ==
    ASSUME NEW text, NEW used, NEW ps, NEW m \in Nat
    PROVE  \E f : IsFormat(f, text, used, ps, m)
  <1> DEFINE More(n, prev) ==
               FormatRound(text, n, prev, ps)
             Is(f, n) == f = [k \in 0..n |-> IF k = 0 THEN Formatted(<< >>, used, 0) ELSE More(k, f[k - 1])]
             T == {n \in Nat : \E f : Is(f, n)}
  <1> HIDE DEF More
  <1>1. 0 \in T
    <2> DEFINE f == [k \in 0..0 |-> Formatted(<< >>, used, 0)]
    <2>1. \A k \in 0..0 : k = 0
      OBVIOUS
    <2>2. Is(f, 0)
      BY <2>1
    <2> QED  BY <2>2
  <1>2. ASSUME NEW n \in Nat, n \in T PROVE n + 1 \in T
    <2>1. PICK g : Is(g, n)
      BY <1>2
    <2> DEFINE f == [k \in 0..(n + 1) |-> IF k = n + 1 THEN More(k, g[n]) ELSE g[k]]
    <2>2. ASSUME NEW k \in 0..(n + 1)
          PROVE  f[k] = IF k = 0 THEN Formatted(<< >>, used, 0) ELSE More(k, f[k - 1])
      <3>1. CASE k = n + 1
        <4>1. f[k] = More(k, g[n]) /\ k # 0 /\ f[k - 1] = g[n]
          BY <3>1
        <4> QED  BY <4>1
      <3>2. CASE k # n + 1
        <4>1. k \in 0..n /\ f[k] = g[k]
          BY <3>2
        <4>2. g[k] = IF k = 0 THEN Formatted(<< >>, used, 0) ELSE More(k, g[k - 1])
          BY <2>1, <4>1
        <4>3. k # 0 => f[k - 1] = g[k - 1]
          BY <4>1
        <4> QED  BY <4>1, <4>2, <4>3
      <3> QED  BY <3>1, <3>2
    <2>3. f = [k \in 0..(n + 1) |-> f[k]]
      OBVIOUS
    <2> HIDE DEF f
    <2>4. Is(f, n + 1)
      BY <2>2, <2>3
    <2> HIDE DEF Is
    <2> QED  BY <2>4
  <1>3. m \in T
    <2> HIDE DEF T
    <2> QED  BY <1>1, <1>2, SetInduction
  <1>4. PICK f : Is(f, m)
    BY <1>3
  <1>5. IsFormat(f, text, used, ps, m)
    BY <1>4 DEF IsFormat, More
  <1> QED  BY <1>5

(* Format goes from left to right. *)
LEMMA FormatIs ==
    ASSUME NEW text, NEW used, NEW ps, Len(text) \in Nat
    PROVE  \E f : IsFormat(f, text, used, ps, Len(text)) /\ Format(text, used, ps) = f[Len(text)]
  <1> DEFINE f == CHOOSE g : IsFormat(g, text, used, ps, Len(text))
  <1>1. Format(text, used, ps) = f[Len(text)]
    BY Zenon DEF Format, IsFormat
  <1>2. IsFormat(f, text, used, ps, Len(text))
    BY FormatExists
  <1> HIDE DEF f
  <1> QED  BY <1>1, <1>2

\* What the scanner has found after m tokens
IsScan(f, t, bind, m) ==
    f = [n \in 0..m |->
            IF n = 0 THEN Scan(<< >>, NoQuote, 0)
            ELSE ScanRound(t, n, f[n - 1], bind)]

(* Scanning is well defined. *)
LEMMA ScanExists ==
    ASSUME NEW t, NEW bind, NEW m \in Nat
    PROVE  \E f : IsScan(f, t, bind, m)
  <1> DEFINE More(n, prev) ==
               ScanRound(t, n, prev, bind)
             Is(f, n) == f = [k \in 0..n |-> IF k = 0 THEN Scan(<< >>, NoQuote, 0) ELSE More(k, f[k - 1])]
             T == {n \in Nat : \E f : Is(f, n)}
  <1> HIDE DEF More
  <1>1. 0 \in T
    <2> DEFINE f == [k \in 0..0 |-> Scan(<< >>, NoQuote, 0)]
    <2>1. \A k \in 0..0 : k = 0
      OBVIOUS
    <2>2. Is(f, 0)
      BY <2>1
    <2> QED  BY <2>2
  <1>2. ASSUME NEW n \in Nat, n \in T PROVE n + 1 \in T
    <2>1. PICK g : Is(g, n)
      BY <1>2
    <2> DEFINE f == [k \in 0..(n + 1) |-> IF k = n + 1 THEN More(k, g[n]) ELSE g[k]]
    <2>2. ASSUME NEW k \in 0..(n + 1)
          PROVE  f[k] = IF k = 0 THEN Scan(<< >>, NoQuote, 0) ELSE More(k, f[k - 1])
      <3>1. CASE k = n + 1
        <4>1. f[k] = More(k, g[n]) /\ k # 0 /\ f[k - 1] = g[n]
          BY <3>1
        <4> QED  BY <4>1
      <3>2. CASE k # n + 1
        <4>1. k \in 0..n /\ f[k] = g[k]
          BY <3>2
        <4>2. g[k] = IF k = 0 THEN Scan(<< >>, NoQuote, 0) ELSE More(k, g[k - 1])
          BY <2>1, <4>1
        <4>3. k # 0 => f[k - 1] = g[k - 1]
          BY <4>1
        <4> QED  BY <4>1, <4>2, <4>3
      <3> QED  BY <3>1, <3>2
    <2>3. f = [k \in 0..(n + 1) |-> f[k]]
      OBVIOUS
    <2> HIDE DEF f
    <2>4. Is(f, n + 1)
      BY <2>2, <2>3
    <2> HIDE DEF Is
    <2> QED  BY <2>4
  <1>3. m \in T
    <2> HIDE DEF T
    <2> QED  BY <1>1, <1>2, SetInduction
  <1>4. PICK f : Is(f, m)
    BY <1>3
  <1>5. IsScan(f, t, bind, m)
    BY <1>4 DEF IsScan, More
  <1> QED  BY <1>5

(* ScanDoris goes from left to right. *)
LEMMA ScanIs ==
    ASSUME NEW t, NEW bind, Len(t) \in Nat
    PROVE  \E f : /\ IsScan(f, t, bind, Len(t))
                  /\ ScanDoris(t, bind) = IF f[Len(t)].quote = NoQuote THEN f[Len(t)].found
                                          ELSE Append(f[Len(t)].found, Bad)
  <1> DEFINE f == CHOOSE g : IsScan(g, t, bind, Len(t))
  <1>1. ScanDoris(t, bind) = IF f[Len(t)].quote = NoQuote THEN f[Len(t)].found
                             ELSE Append(f[Len(t)].found, Bad)
    BY Zenon DEF ScanDoris, IsScan
  <1>2. IsScan(f, t, bind, Len(t))
    BY ScanExists
  <1> HIDE DEF f
  <1> QED  BY <1>1, <1>2

\* The values of the markers among the first m
IsDorisValues(f, scanned, ps, m) ==
    f = [n \in 0..m |->
            IF n = 0 THEN << >>
            ELSE IF scanned[n].kind # "marker" THEN f[n - 1]
                 ELSE Append(f[n - 1],
                        Parameter(Placeholder, ValueNamed(ps, scanned[n].args[1])))]

(* Collecting values is well defined. *)
LEMMA DorisValuesExists ==
    ASSUME NEW scanned, NEW ps, NEW m \in Nat
    PROVE  \E f : IsDorisValues(f, scanned, ps, m)
  <1> DEFINE More(n, prev) ==
               IF scanned[n].kind # "marker" THEN prev
                 ELSE Append(prev,
                        Parameter(Placeholder, ValueNamed(ps, scanned[n].args[1])))
             Is(f, n) == f = [k \in 0..n |-> IF k = 0 THEN << >> ELSE More(k, f[k - 1])]
             T == {n \in Nat : \E f : Is(f, n)}
  <1> HIDE DEF More
  <1>1. 0 \in T
    <2> DEFINE f == [k \in 0..0 |-> << >>]
    <2>1. \A k \in 0..0 : k = 0
      OBVIOUS
    <2>2. Is(f, 0)
      BY <2>1
    <2> QED  BY <2>2
  <1>2. ASSUME NEW n \in Nat, n \in T PROVE n + 1 \in T
    <2>1. PICK g : Is(g, n)
      BY <1>2
    <2> DEFINE f == [k \in 0..(n + 1) |-> IF k = n + 1 THEN More(k, g[n]) ELSE g[k]]
    <2>2. ASSUME NEW k \in 0..(n + 1)
          PROVE  f[k] = IF k = 0 THEN << >> ELSE More(k, f[k - 1])
      <3>1. CASE k = n + 1
        <4>1. f[k] = More(k, g[n]) /\ k # 0 /\ f[k - 1] = g[n]
          BY <3>1
        <4> QED  BY <4>1
      <3>2. CASE k # n + 1
        <4>1. k \in 0..n /\ f[k] = g[k]
          BY <3>2
        <4>2. g[k] = IF k = 0 THEN << >> ELSE More(k, g[k - 1])
          BY <2>1, <4>1
        <4>3. k # 0 => f[k - 1] = g[k - 1]
          BY <4>1
        <4> QED  BY <4>1, <4>2, <4>3
      <3> QED  BY <3>1, <3>2
    <2>3. f = [k \in 0..(n + 1) |-> f[k]]
      OBVIOUS
    <2> HIDE DEF f
    <2>4. Is(f, n + 1)
      BY <2>2, <2>3
    <2> HIDE DEF Is
    <2> QED  BY <2>4
  <1>3. m \in T
    <2> HIDE DEF T
    <2> QED  BY <1>1, <1>2, SetInduction
  <1>4. PICK f : Is(f, m)
    BY <1>3
  <1>5. IsDorisValues(f, scanned, ps, m)
    BY <1>4 DEF IsDorisValues, More
  <1> QED  BY <1>5

(* DorisValues goes from left to right. *)
LEMMA DorisValuesIs ==
    ASSUME NEW scanned, NEW ps, Len(scanned) \in Nat
    PROVE  \E f : /\ IsDorisValues(f, scanned, ps, Len(scanned))
                  /\ DorisValues(scanned, ps) = f[Len(scanned)]
  <1> DEFINE f == CHOOSE g : IsDorisValues(g, scanned, ps, Len(scanned))
  <1>1. DorisValues(scanned, ps) = f[Len(scanned)]
    BY Zenon DEF DorisValues, IsDorisValues
  <1>2. IsDorisValues(f, scanned, ps, Len(scanned))
    BY DorisValuesExists
  <1> HIDE DEF f
  <1> QED  BY <1>1, <1>2

\* The text of the first m tokens
IsClickHouseText(f, t, bind, m) ==
    f = [n \in 0..m |->
            IF n = 0 THEN << >>
            ELSE f[n - 1] \o (IF NamedAt(t, n) THEN <<t[n]>> ELSE Raw(t[n], bind))]

(* Doubling percent signs is well defined. *)
LEMMA ClickHouseTextExists ==
    ASSUME NEW t, NEW bind, NEW m \in Nat
    PROVE  \E f : IsClickHouseText(f, t, bind, m)
  <1> DEFINE More(n, prev) ==
               prev \o (IF NamedAt(t, n) THEN <<t[n]>> ELSE Raw(t[n], bind))
             Is(f, n) == f = [k \in 0..n |-> IF k = 0 THEN << >> ELSE More(k, f[k - 1])]
             T == {n \in Nat : \E f : Is(f, n)}
  <1> HIDE DEF More
  <1>1. 0 \in T
    <2> DEFINE f == [k \in 0..0 |-> << >>]
    <2>1. \A k \in 0..0 : k = 0
      OBVIOUS
    <2>2. Is(f, 0)
      BY <2>1
    <2> QED  BY <2>2
  <1>2. ASSUME NEW n \in Nat, n \in T PROVE n + 1 \in T
    <2>1. PICK g : Is(g, n)
      BY <1>2
    <2> DEFINE f == [k \in 0..(n + 1) |-> IF k = n + 1 THEN More(k, g[n]) ELSE g[k]]
    <2>2. ASSUME NEW k \in 0..(n + 1)
          PROVE  f[k] = IF k = 0 THEN << >> ELSE More(k, f[k - 1])
      <3>1. CASE k = n + 1
        <4>1. f[k] = More(k, g[n]) /\ k # 0 /\ f[k - 1] = g[n]
          BY <3>1
        <4> QED  BY <4>1
      <3>2. CASE k # n + 1
        <4>1. k \in 0..n /\ f[k] = g[k]
          BY <3>2
        <4>2. g[k] = IF k = 0 THEN << >> ELSE More(k, g[k - 1])
          BY <2>1, <4>1
        <4>3. k # 0 => f[k - 1] = g[k - 1]
          BY <4>1
        <4> QED  BY <4>1, <4>2, <4>3
      <3> QED  BY <3>1, <3>2
    <2>3. f = [k \in 0..(n + 1) |-> f[k]]
      OBVIOUS
    <2> HIDE DEF f
    <2>4. Is(f, n + 1)
      BY <2>2, <2>3
    <2> HIDE DEF Is
    <2> QED  BY <2>4
  <1>3. m \in T
    <2> HIDE DEF T
    <2> QED  BY <1>1, <1>2, SetInduction
  <1>4. PICK f : Is(f, m)
    BY <1>3
  <1>5. IsClickHouseText(f, t, bind, m)
    BY <1>4 DEF IsClickHouseText, More
  <1> QED  BY <1>5

(* ClickHouseText goes from left to right. *)
LEMMA ClickHouseTextIs ==
    ASSUME NEW t, NEW bind, Len(t) \in Nat
    PROVE  \E f : IsClickHouseText(f, t, bind, Len(t)) /\ ClickHouseText(t, bind) = f[Len(t)]
  <1> DEFINE f == CHOOSE g : IsClickHouseText(g, t, bind, Len(t))
  <1>1. ClickHouseText(t, bind) = f[Len(t)]
    BY Zenon DEF ClickHouseText, IsClickHouseText
  <1>2. IsClickHouseText(f, t, bind, Len(t))
    BY ClickHouseTextExists
  <1> HIDE DEF f
  <1> QED  BY <1>1, <1>2

(* Tokens are told apart by their kind. *)
LEMMA TokenKind == ASSUME NEW k PROVE Token(k).kind = k /\ Token(k).args = << >>
  BY DEF Token, Op, Node

(* Only %s uses up a parameter. *)
LEMMA RoundKeepsCount ==
    ASSUME NEW text, NEW i, text[i] # Placeholder, NEW s, NEW ps
    PROVE  FormatRound(text, i, s, ps).used = s.used
  BY DEF FormatRound, Formatted

(* The projection has no %s. *)
LEMMA FormatKeepsCount ==
    ASSUME NEW text, Len(text) \in Nat, \A i \in 1..Len(text) : text[i] # Placeholder,
           NEW used, NEW ps
    PROVE  Format(text, used, ps).used = used
  <1>1. PICK f : IsFormat(f, text, used, ps, Len(text)) /\ Format(text, used, ps) = f[Len(text)]
    BY FormatIs
  <1> DEFINE T == {n \in Nat : n <= Len(text) => f[n].used = used}
  <1>2. 0 \in T
    <2>1. f[0] = Formatted(<< >>, used, 0)
      BY <1>1 DEF IsFormat
    <2> QED  BY <2>1 DEF Formatted
  <1>3. ASSUME NEW n \in Nat, n \in T PROVE n + 1 \in T
    <2> SUFFICES ASSUME n + 1 <= Len(text) PROVE f[n + 1].used = used
      OBVIOUS
    <2>1. n + 1 \in 0..Len(text) /\ n + 1 # 0 /\ (n + 1) - 1 = n /\ n + 1 \in 1..Len(text) /\ n <= Len(text)
      OBVIOUS
    <2>2. f[n + 1] = FormatRound(text, n + 1, f[n], ps)
      BY <1>1, <2>1 DEF IsFormat
    <2>3. f[n].used = used
      BY <1>3, <2>1
    <2> QED  BY <2>1, <2>2, <2>3, RoundKeepsCount
  <1>4. Len(text) \in T
    <2> HIDE DEF T
    <2> QED  BY <1>2, <1>3, SetInduction
  <1> QED  BY <1>1, <1>4

(* One token after the other. *)
LEMMA FormatRounds ==
    ASSUME NEW f, NEW text, NEW used, NEW ps, NEW m \in Nat, IsFormat(f, text, used, ps, m)
    PROVE  /\ f[0] = Formatted(<< >>, used, 0)
           /\ m >= 1 => f[1] = FormatRound(text, 1, f[0], ps)
           /\ m >= 2 => f[2] = FormatRound(text, 2, f[1], ps)
           /\ m >= 3 => f[3] = FormatRound(text, 3, f[2], ps)
  <1>1. \A n \in 0..m : f[n] = IF n = 0 THEN Formatted(<< >>, used, 0)
                               ELSE FormatRound(text, n, f[n - 1], ps)
    BY DEF IsFormat
  <1>2. \A n \in 1..m : f[n] = FormatRound(text, n, f[n - 1], ps)
    BY <1>1
  <1>3. f[0] = Formatted(<< >>, used, 0)
    BY <1>1
  <1> QED  BY <1>2, <1>3

(* Short texts. *)
LEMMA ShortTexts ==
    ASSUME NEW S, NEW s \in Seq(S)
    PROVE  /\ Len(s) = 2 => s = <<s[1], s[2]>>
           /\ Len(s) = 3 => s = <<s[1], s[2], s[3]>>
  <1>1. ASSUME Len(s) = 2 PROVE s = <<s[1], s[2]>>
    BY <1>1
  <1>2. ASSUME Len(s) = 3 PROVE s = <<s[1], s[2], s[3]>>
    BY <1>2
  <1> QED  BY <1>1, <1>2

(* The places of a sequence with one more element. *)
LEMMA AppendParts ==
    ASSUME NEW S, NEW s \in Seq(S), NEW x \in S
    PROVE  /\ Append(s, x) \in Seq(S) /\ Len(Append(s, x)) = Len(s) + 1
           /\ \A i \in 1..Len(s) : Append(s, x)[i] = s[i]
           /\ Append(s, x)[Len(s) + 1] = x /\ s \o <<x>> = Append(s, x)
  OBVIOUS

(* A third element after two. *)
LEMMA AppendThird ==
    ASSUME NEW S, NEW s \in Seq(S), NEW x \in S
    PROVE  Len(s) = 2 => Append(s, x) = <<s[1], s[2], x>> /\ s \o <<x>> = <<s[1], s[2], x>>
  <1> DEFINE r == Append(s, x)
  <1>1. /\ r \in Seq(S) /\ Len(r) = Len(s) + 1 /\ s \o <<x>> = r
        /\ \A i \in 1..Len(s) : r[i] = s[i]
        /\ r[Len(s) + 1] = x
    OBVIOUS
  <1> HIDE DEF r
  <1> SUFFICES ASSUME Len(s) = 2
               PROVE  Append(s, x) = <<s[1], s[2], x>> /\ s \o <<x>> = <<s[1], s[2], x>>
    OBVIOUS
  <1>2. Len(r) = 3 /\ r[1] = s[1] /\ r[2] = s[2] /\ r[3] = x
    BY <1>1
  <1>3. r = <<r[1], r[2], r[3]>>
    BY <1>1, <1>2, ShortTexts
  <1>4. r = <<s[1], s[2], x>>
    BY <1>2, <1>3
  <1> QED  BY <1>1, <1>4 DEF r

(* The first three elements, one by one. *)
LEMMA AppendShort ==
    ASSUME NEW a, NEW b, NEW c
    PROVE  /\ Append(<< >>, a) = <<a>> /\ << >> \o <<a>> = <<a>>
           /\ Append(<<a>>, b) = <<a, b>> /\ <<a>> \o <<b>> = <<a, b>>
           /\ Append(<<a, b>>, c) = <<a, b, c>> /\ <<a, b>> \o <<c>> = <<a, b, c>>
  <1> DEFINE S == {a, b, c}
  <1>1. Append(<< >>, a) = <<a>> /\ << >> \o <<a>> = <<a>>
    OBVIOUS
  <1>2. Append(<<a>>, b) = <<a, b>> /\ <<a>> \o <<b>> = <<a, b>>
    <2> DEFINE s == <<a>>
               r == Append(s, b)
    <2>1. s \in Seq(S) /\ Len(s) = 1 /\ s[1] = a /\ b \in S
      OBVIOUS
    <2> HIDE DEF s, S
    <2>2. /\ r \in Seq(S) /\ Len(r) = Len(s) + 1 /\ s \o <<b>> = r
          /\ \A i \in 1..Len(s) : r[i] = s[i]
          /\ r[Len(s) + 1] = b
      BY <2>1, AppendParts
    <2> HIDE DEF r
    <2>3. Len(r) = 2 /\ r[1] = a /\ r[2] = b
      BY <2>1, <2>2
    <2>4. r = <<r[1], r[2]>>
      BY <2>2, <2>3, ShortTexts
    <2>5. r = <<a, b>>
      BY <2>3, <2>4
    <2> QED  BY <2>2, <2>5 DEF s, r
  <1>3. Append(<<a, b>>, c) = <<a, b, c>> /\ <<a, b>> \o <<c>> = <<a, b, c>>
    <2> DEFINE s == <<a, b>>
    <2>1. s \in Seq(S) /\ Len(s) = 2 /\ s[1] = a /\ s[2] = b /\ c \in S
      OBVIOUS
    <2> HIDE DEF s, S
    <2>2. Append(s, c) = <<a, b, c>> /\ s \o <<c>> = <<a, b, c>>
      BY <2>1, AppendThird
    <2> QED  BY <2>2 DEF s
  <1> QED  BY <1>1, <1>2, <1>3

(* "column1 >= %s" *)
LEMMA FormatPlaceholder ==
    ASSUME NEW c, c \notin {Placeholder, Percent}, NEW ps, Len(ps) \in Nat, Len(ps) >= 1
    PROVE  LET done == Format(<<c, Placeholder>>, 0, ps)
           IN  done.text = <<c, Lit(ps[1].value)>> /\ done.used = 1
  <1> DEFINE text == <<c, Placeholder>>
  <1>1. Len(text) = 2 /\ text[1] = c /\ text[2] = Placeholder
    OBVIOUS
  <1> HIDE DEF text
  <1>2. PICK f : IsFormat(f, text, 0, ps, Len(text)) /\ Format(text, 0, ps) = f[Len(text)]
    <2>1. Len(text) \in Nat
      BY <1>1
    <2> QED  BY <2>1, FormatIs
  <1>3. /\ f[0] = Formatted(<< >>, 0, 0) /\ f[1] = FormatRound(text, 1, f[0], ps)
        /\ f[2] = FormatRound(text, 2, f[1], ps) /\ Format(text, 0, ps) = f[2]
    BY <1>1, <1>2, FormatRounds
  <1> DEFINE f0 == f[0]
             f1 == f[1]
             f2 == f[2]
             v == Lit(ps[1].value)
  <1>4. f0.text = << >> /\ f0.used = 0 /\ f0.skip = 0
    BY <1>3 DEF Formatted
  <1>5. f1 = FormatRound(text, 1, f0, ps) /\ f2 = FormatRound(text, 2, f1, ps)
    BY <1>3
  <1> HIDE DEF f0, f1, f2
  <1>6. f1 = Formatted(Append(<< >>, c), 0, 0)
    BY <1>1, <1>4, <1>5 DEF FormatRound
  <1>7. f1.text = <<c>> /\ f1.used = 0 /\ f1.skip = 0
    BY <1>6, AppendShort DEF Formatted
  <1>8. f2 = Formatted(Append(<<c>>, v), 1, 0)
    <2>1. f1.used # Len(ps) /\ f1.used + 1 = 1
      BY <1>7
    <2> QED  BY <1>1, <1>5, <1>7, <2>1 DEF FormatRound
  <1>9. f2.text = <<c, v>> /\ f2.used = 1
    <2> HIDE DEF v
    <2> QED  BY <1>8, AppendShort DEF Formatted
  <1> QED  BY <1>3, <1>9 DEF text, f2

(* "column1 >= %(p)s" *)
LEMMA FormatNamed ==
    ASSUME NEW c, NEW name, Percent # Placeholder, c \notin {Placeholder, Percent},
           name # Percent, NEW ps, name \in NamesOf(ps), NEW used
    PROVE  LET done == Format(<<c, Percent, name>>, used, ps)
           IN  done.text = <<c, Lit(ValueNamed(ps, name))>> /\ done.used = used
  <1> DEFINE text == <<c, Percent, name>>
             v == Lit(ValueNamed(ps, name))
  <1>1. Len(text) = 3 /\ text[1] = c /\ text[2] = Percent /\ text[3] = name /\ text[2 + 1] = name
    OBVIOUS
  <1> HIDE DEF text
  <1>2. PICK f : IsFormat(f, text, used, ps, Len(text)) /\ Format(text, used, ps) = f[Len(text)]
    <2>1. Len(text) \in Nat
      BY <1>1
    <2> QED  BY <2>1, FormatIs
  <1>3. /\ f[0] = Formatted(<< >>, used, 0) /\ f[1] = FormatRound(text, 1, f[0], ps)
        /\ f[2] = FormatRound(text, 2, f[1], ps) /\ f[3] = FormatRound(text, 3, f[2], ps)
        /\ Format(text, used, ps) = f[3]
    BY <1>1, <1>2, FormatRounds
  <1> DEFINE f0 == f[0]
             f1 == f[1]
             f2 == f[2]
             f3 == f[3]
  <1>4. f0.text = << >> /\ f0.used = used /\ f0.skip = 0
    BY <1>3 DEF Formatted
  <1>5. /\ f1 = FormatRound(text, 1, f0, ps) /\ f2 = FormatRound(text, 2, f1, ps)
        /\ f3 = FormatRound(text, 3, f2, ps)
    BY <1>3
  <1> HIDE DEF f0, f1, f2, f3
  <1>6. f1 = Formatted(Append(<< >>, c), used, 0)
    <2>1. text[1] # Placeholder /\ text[1] # Percent /\ ~(f0.skip > 0) /\ text[1] = c
      BY <1>1, <1>4
    <2>2. FormatRound(text, 1, f0, ps) = Formatted(Append(f0.text, text[1]), f0.used, 0)
      BY ONLY <2>1 DEF FormatRound
    <2> QED  BY <1>4, <1>5, <2>1, <2>2
  <1>7. f1.text = <<c>> /\ f1.used = used /\ f1.skip = 0
    BY <1>6, AppendShort DEF Formatted
  <1>8. f2 = Formatted(Append(<<c>>, v), used, 1)
    <2>1. /\ text[2] # Placeholder /\ text[2] = Percent /\ ~(f1.skip > 0) /\ 2 < Len(text)
          /\ text[2 + 1] = name /\ name # Percent /\ name \in NamesOf(ps)
      BY <1>1, <1>7
    <2>2. FormatRound(text, 2, f1, ps) = Formatted(Append(f1.text, v), f1.used, 1)
      BY ONLY <2>1 DEF FormatRound
    <2> QED  BY <1>5, <1>7, <2>2
  <1> HIDE DEF v
  <1>9. f2.text = <<c, v>> /\ f2.used = used /\ f2.skip = 1
    BY <1>8, AppendShort DEF Formatted
  <1>10. f3 = Formatted(<<c, v>>, used, 0)
    <2>1. f2.skip > 0
      BY <1>9
    <2>2. FormatRound(text, 3, f2, ps) = Formatted(f2.text, f2.used, 0)
      BY ONLY <2>1 DEF FormatRound
    <2> QED  BY <1>5, <1>9, <2>2
  <1>11. f3.text = <<c, v>> /\ f3.used = used
    BY <1>10 DEF Formatted
  <1> QED  BY <1>3, <1>11 DEF text, v, f3

-----------------------------------------------------------------------------
(* The fragment "column1 >= :p" of the runs. *)

Column1 == Token("column1 >=")

(* Tokens have different kinds. *)
LEMMA TokensApart ==
    /\ Column1 \notin Quotes \cup Names \cup {Percent, Placeholder, Colon, Bad, Backslash}
    /\ Percent # Placeholder /\ Percent # Colon /\ Percent \notin Names /\ Colon \notin Names
    /\ NoQuote \notin Quotes /\ Placeholder # Bad /\ Token("p") # Token("q")
    /\ \A k : Token("p") # Daft(k) /\ Token("(p)s") # Daft(k)
    /\ Token("(p)s") # Token("(q)s") /\ Token("(p)s") # Percent
    /\ {Token("p"), Token("(p)s")} \subseteq Names /\ Backtick \notin {Placeholder, Percent}
    /\ Token("c") # Placeholder
  BY DEF Column1, Quotes, Names, Percent, Placeholder, Colon, Bad, Backslash, NoQuote, Backtick,
         Daft, Token, Op, Node

(* Three tokens. *)
LEMMA TokensOfThree ==
    ASSUME NEW a, NEW b, NEW c
    PROVE  Tokens(<<a, b, c>>) = <<Token(a), Token(b), Token(c)>>
  <1> DEFINE kinds == <<a, b, c>>
  <1>1. DOMAIN kinds = 1..3 /\ kinds[1] = a /\ kinds[2] = b /\ kinds[3] = c
    OBVIOUS
  <1> HIDE DEF kinds
  <1>2. Tokens(kinds) = [i \in 1..3 |-> Token(kinds[i])]
    BY <1>1 DEF Tokens
  <1>3. Tokens(kinds) \in Seq({Token(a), Token(b), Token(c)}) /\ Len(Tokens(kinds)) = 3
    <2>1. \A i \in 1..3 : i = 1 \/ i = 2 \/ i = 3
      OBVIOUS
    <2> QED  BY <1>1, <1>2, <2>1
  <1>4. Tokens(kinds)[1] = Token(a) /\ Tokens(kinds)[2] = Token(b) /\ Tokens(kinds)[3] = Token(c)
    BY <1>1, <1>2
  <1> QED  BY <1>3, <1>4, ShortTexts DEF kinds

(* The comparison of a fragment, in either style. *)
LEMMA ComparisonIs ==
    /\ style = "clickhouse" =>
          Comparison = <<Column1, Percent, Token("(p)s")>> /\ P = Token("(p)s")
    /\ style # "clickhouse" => Comparison = <<Column1, Colon, Token("p")>> /\ P = Token("p")
  BY TokensOfThree DEF Comparison, P, Column1, Percent, Colon

(* A token that is no percent sign is handed over as it is. *)
LEMMA RawPlain == ASSUME NEW token, token # Percent, NEW bind PROVE Raw(token, bind) = <<token>>
  BY Zenon DEF Raw

(* What the scanner of Doris finds. *)
LEMMA ScanComparison ==
    ASSUME NEW bind
    PROVE  ScanDoris(<<Column1, Colon, Token("p")>>, bind) = <<Column1, Marker(Token("p"))>>
  <1> DEFINE t == <<Column1, Colon, Token("p")>>
  <1>1. Len(t) = 3 /\ t[1] = Column1 /\ t[2] = Colon /\ t[3] = Token("p")
    OBVIOUS
  <1> HIDE DEF t
  <1>2. PICK f : /\ IsScan(f, t, bind, Len(t))
                 /\ ScanDoris(t, bind) = IF f[Len(t)].quote = NoQuote THEN f[Len(t)].found
                                         ELSE Append(f[Len(t)].found, Bad)
    <2>1. Len(t) \in Nat
      BY <1>1
    <2> QED  BY <2>1, ScanIs
  <1> DEFINE f0 == f[0]
             f1 == f[1]
             f2 == f[2]
             f3 == f[3]
  <1>3. /\ f0 = Scan(<< >>, NoQuote, 0) /\ f1 = ScanRound(t, 1, f0, bind)
        /\ f2 = ScanRound(t, 2, f1, bind) /\ f3 = ScanRound(t, 3, f2, bind)
    <2>1. \A n \in 0..3 : f[n] = IF n = 0 THEN Scan(<< >>, NoQuote, 0)
                                 ELSE ScanRound(t, n, f[n - 1], bind)
      BY <1>1, <1>2 DEF IsScan
    <2>2. \A n \in 1..3 : f[n] = ScanRound(t, n, f[n - 1], bind)
      BY <2>1
    <2> QED  BY <2>1, <2>2
  <1>4. ScanDoris(t, bind) = IF f3.quote = NoQuote THEN f3.found ELSE Append(f3.found, Bad)
    BY <1>1, <1>2
  <1> HIDE DEF f0, f1, f2, f3
  <1>5. Raw(t[1], bind) = <<Column1>> /\ << >> \o <<Column1>> = <<Column1>>
    BY <1>1, RawPlain, TokensApart, AppendShort
  <1>6. f1 = Scan(<<Column1>>, NoQuote, 0)
    <2>1. ~MarkerAt(t, 1) /\ t[1] \notin Quotes
      BY <1>1, TokensApart DEF MarkerAt
    <2>2. f0.found = << >> /\ f0.quote = NoQuote /\ ~(f0.skip > 0)
      BY <1>3 DEF Scan
    <2> QED  BY <1>3, <1>5, <2>1, <2>2 DEF ScanRound
  <1>7. f2 = Scan(<<Column1, Marker(Token("p"))>>, NoQuote, 1)
    <2>1. MarkerAt(t, 2) /\ t[2 + 1] = Token("p")
      BY <1>1, TokensApart DEF MarkerAt
    <2>2. f1.found = <<Column1>> /\ f1.quote = NoQuote /\ ~(f1.skip > 0)
      BY <1>6 DEF Scan
    <2>3. f2 = Scan(Append(<<Column1>>, Marker(Token("p"))), NoQuote, 1)
      BY <1>3, <2>1, <2>2 DEF ScanRound
    <2> QED  BY <2>3, AppendShort
  <1>8. f3 = Scan(<<Column1, Marker(Token("p"))>>, NoQuote, 0)
    <2> DEFINE found == <<Column1, Marker(Token("p"))>>
    <2> HIDE DEF found
    <2>1. f2 = Scan(found, NoQuote, 1)
      BY <1>7 DEF found
    <2>2. f2.found = found /\ f2.quote = NoQuote /\ f2.skip > 0
      BY <2>1 DEF Scan
    <2>3. f3 = Scan(f2.found, f2.quote, 0)
      BY <1>3, <2>2, Zenon DEF ScanRound
    <2> QED  BY <2>2, <2>3 DEF found
  <1>9. f3.quote = NoQuote /\ f3.found = <<Column1, Marker(Token("p"))>>
    BY <1>8 DEF Scan
  <1> QED  BY <1>4, <1>9 DEF t

(* One parameter for the marker. *)
LEMMA ValuesOfComparison ==
    ASSUME NEW ps
    PROVE  DorisValues(<<Column1, Marker(Token("p"))>>, ps)
           = <<Parameter(Placeholder, ValueNamed(ps, Token("p")))>>
  <1> DEFINE t == <<Column1, Marker(Token("p"))>>
  <1>1. /\ Len(t) = 2 /\ Len(t) \in Nat /\ t[1].kind # "marker" /\ t[2].kind = "marker"
        /\ t[2].args[1] = Token("p")
    <2>1. Len(t) = 2 /\ t[1] = Column1 /\ t[2] = Marker(Token("p"))
      OBVIOUS
    <2>2. Column1.kind # "marker"
      BY DEF Column1, Token, Op, Node
    <2>3. Marker(Token("p")).kind = "marker" /\ Marker(Token("p")).args = <<Token("p")>>
      BY DEF Marker, Op, Node
    <2> QED  BY <2>1, <2>2, <2>3
  <1> HIDE DEF t
  <1>2. PICK f : IsDorisValues(f, t, ps, Len(t)) /\ DorisValues(t, ps) = f[Len(t)]
    BY <1>1, DorisValuesIs
  <1> DEFINE one == Parameter(Placeholder, ValueNamed(ps, Token("p")))
  <1>3. \A n \in 0..2 :
           f[n] = IF n = 0 THEN << >>
                  ELSE IF t[n].kind # "marker" THEN f[n - 1]
                  ELSE Append(f[n - 1], Parameter(Placeholder, ValueNamed(ps, t[n].args[1])))
    BY <1>1, <1>2 DEF IsDorisValues
  <1>4. f[0] = << >> /\ f[1] = f[0]
    BY <1>1, <1>3
  <1>5. f[2] = Append(f[1], one)
    <2>1. f[2] = IF t[2].kind # "marker" THEN f[2 - 1]
                 ELSE Append(f[2 - 1], Parameter(Placeholder, ValueNamed(ps, t[2].args[1])))
      BY <1>3
    <2>2. f[2] = Append(f[2 - 1], Parameter(Placeholder, ValueNamed(ps, t[2].args[1]))) /\ 2 - 1 = 1
      BY <1>1, <2>1
    <2> QED  BY <1>1, <2>2, Zenon
  <1> HIDE DEF one
  <1>6. DorisValues(t, ps) = <<one>>
    BY <1>1, <1>2, <1>4, <1>5, AppendShort
  <1> QED  BY <1>6 DEF t, one

(* The fragment in Doris: :p is the only parameter, and it is bound or written. *)
LEMMA DorisComparison ==
    ASSUME NEW ps, NEW sty, NEW bind,
           ~DorisFragment(<<Column1, Colon, Token("p")>>, ps, sty = "flight", bind).refused
    PROVE  LET done == DorisFragment(<<Column1, Colon, Token("p")>>, ps, sty = "flight", bind)
               v == ValueNamed(ps, Token("p"))
           IN  /\ NamesOf(ps) = {Token("p")}
               /\ sty = "flight" => done.text = <<Column1, Lit(v)>> /\ done.params = << >>
               /\ sty # "flight" => /\ done.text = <<Column1, Placeholder>>
                                    /\ done.params = <<Parameter(Placeholder, v)>>
  <1> DEFINE text0 == <<Column1, Colon, Token("p")>>
             done == DorisFragment(text0, ps, sty = "flight", bind)
             v == ValueNamed(ps, Token("p"))
             scanned == ScanDoris(text0, bind)
             Replace(token) ==
                CASE token.kind # "marker" -> token
                  [] token.kind = "marker" /\ sty = "flight" ->
                        FlightLiteral(ValueNamed(ps, token.args[1]))
                  [] OTHER -> Placeholder
             text == [i \in DOMAIN scanned |-> Replace(scanned[i])]
             params == IF sty = "flight" THEN << >> ELSE DorisValues(scanned, ps)
  <1>1. scanned = <<Column1, Marker(Token("p"))>>
    BY ScanComparison
  <1>2. done = IF \/ Bad \in Range(scanned)
                  \/ Markers(scanned) # NamesOf(ps)
                  \/ Bad \in Range(text)
               THEN Refused
               ELSE Rendered(text, params)
    BY Zenon DEF DorisFragment
  <1>3. Refused.refused = TRUE
    BY DEF Refused
  <1> HIDE DEF text, params, scanned
  <1>4. /\ Bad \notin Range(text) /\ Markers(scanned) = NamesOf(ps)
        /\ done = Rendered(text, params)
    <2> HIDE DEF done
    <2>1. ~done.refused
      BY DEF done
    <2>2. done # Refused
      BY <1>3, <2>1
    <2> QED  BY <1>2, <2>2
  <1> HIDE DEF done
  <1>5. done.text = text /\ done.params = params
    BY <1>4 DEF Rendered
  <1>6. /\ DOMAIN scanned = 1..2 /\ scanned[1] = Column1 /\ scanned[2] = Marker(Token("p"))
    BY <1>1
  <1>7. /\ Column1.kind # "marker" /\ Marker(Token("p")).kind = "marker"
        /\ Marker(Token("p")).args[1] = Token("p")
    <2>1. Marker(Token("p")).args = <<Token("p")>>
      BY DEF Marker, Op, Node
    <2> QED  BY <2>1 DEF Column1, Marker, Token, Op, Node
  <1>8. NamesOf(ps) = {Token("p")}
    <2>1. \A j \in 1..2 : scanned[j].kind = "marker" <=> j = 2
      <3>1. \A j \in 1..2 : j = 1 \/ j = 2
        OBVIOUS
      <3> QED  BY <1>6, <1>7, <3>1
    <2>2. {j \in DOMAIN scanned : scanned[j].kind = "marker"} = {2}
      BY <1>6, <2>1
    <2>3. Markers(scanned) = {scanned[2].args[1]}
      BY <2>2 DEF Markers
    <2> QED  BY <1>4, <1>6, <1>7, <2>3
  <1> DEFINE x == Replace(Marker(Token("p")))
  <1>9. text = <<Column1, x>>
    <2>1. text = [i \in 1..2 |-> Replace(scanned[i])]
      BY <1>6 DEF text
    <2>2. text[1] = Column1 /\ text[2] = x
      <3>1. Replace(Column1) = Column1
        BY <1>7
      <3> HIDE DEF Replace
      <3> QED  BY <1>6, <2>1, <3>1
    <2> HIDE DEF x, Replace
    <2>3. text \in Seq({Column1, x}) /\ Len(text) = 2
      <3>1. \A i \in 1..2 : i = 1 \/ i = 2
        OBVIOUS
      <3>2. \A i \in 1..2 : text[i] \in {Column1, x}
        BY <2>2, <3>1
      <3> QED  BY <2>1, <3>2
    <2> QED  BY <2>2, <2>3, ShortTexts
  <1>10. x # Bad
    <2>1. 2 \in DOMAIN text /\ text[2] = x
      <3> HIDE DEF x
      <3> QED  BY <1>9
    <2> HIDE DEF x
    <2> QED  BY <1>4, <2>1 DEF Range
  <1>11. CASE sty = "flight"
    <2>1. x = FlightLiteral(v)
      BY <1>7, <1>11
    <2>2. x = Lit(v)
      BY <1>10, <2>1 DEF FlightLiteral
    <2>3. params = << >>
      BY <1>11 DEF params
    <2> HIDE DEF x, v
    <2> QED  BY <1>5, <1>8, <1>9, <1>11, <2>2, <2>3 DEF done, text0, v
  <1>12. CASE sty # "flight"
    <2>1. x = Placeholder
      BY <1>7, <1>12
    <2>2. params = <<Parameter(Placeholder, v)>>
      BY <1>1, <1>12, ValuesOfComparison DEF params
    <2> HIDE DEF x, v
    <2> QED  BY <1>5, <1>8, <1>9, <1>12, <2>1, <2>2 DEF done, text0, v
  <1> QED  BY <1>11, <1>12

(* The fragment in ClickHouse: its marker is left to the driver. *)
LEMMA ClickHouseComparison ==
    ASSUME NEW ps, NEW bind,
           ~ClickHouseFragment(<<Column1, Percent, Token("(p)s")>>, ps, bind).refused
    PROVE  LET done == ClickHouseFragment(<<Column1, Percent, Token("(p)s")>>, ps, bind)
           IN  /\ NamesOf(ps) = {Token("(p)s")}
               /\ done.text = <<Column1, Percent, Token("(p)s")>> /\ done.params = ps
  <1> DEFINE p == Token("(p)s")
             t == <<Column1, Percent, p>>
             done == ClickHouseFragment(t, ps, bind)
  <1>0. p \in Names /\ p # Percent /\ Column1 # Percent
    BY TokensApart
  <1> HIDE DEF p
  <1>1. Len(t) = 3 /\ DOMAIN t = 1..3 /\ t[1] = Column1 /\ t[2] = Percent /\ t[3] = p
    OBVIOUS
  <1> HIDE DEF t
  <1>2. NamesFound(t) = NamesOf(ps) /\ done.text = ClickHouseText(t, bind) /\ done.params = ps
    <2>1. ~done.refused
      BY DEF p, t
    <2>2. Refused.refused = TRUE
      BY DEF Refused
    <2> HIDE DEF done
    <2>3. done # Refused
      BY <2>1, <2>2
    <2>4. NamesFound(t) = NamesOf(ps) /\ done = Rendered(ClickHouseText(t, bind), ps)
      BY <2>3 DEF done, ClickHouseFragment
    <2> QED  BY <2>4 DEF Rendered
  <1> HIDE DEF done
  <1>3. NamedAt(t, 2) /\ ~NamedAt(t, 1) /\ ~NamedAt(t, 3)
    BY <1>0, <1>1 DEF NamedAt
  <1>4. NamesFound(t) = {p}
    <2>1. \A j \in 1..3 : j = 1 \/ j = 2 \/ j = 3
      OBVIOUS
    <2>2. {j \in DOMAIN t : NamedAt(t, j)} = {2}
      BY <1>1, <1>3, <2>1
    <2>3. NamesFound(t) = {t[2 + 1]}
      BY <2>2 DEF NamesFound
    <2> QED  BY <1>1, <2>3
  <1>5. ClickHouseText(t, bind) = <<Column1, Percent, p>>
    <2>0. Len(t) \in Nat
      BY <1>1
    <2>1. PICK f : IsClickHouseText(f, t, bind, Len(t)) /\ ClickHouseText(t, bind) = f[Len(t)]
      BY <2>0, ClickHouseTextIs
    <2> DEFINE Piece(n) == IF NamedAt(t, n) THEN <<t[n]>> ELSE Raw(t[n], bind)
    <2>2. \A n \in 0..3 : f[n] = IF n = 0 THEN << >> ELSE f[n - 1] \o Piece(n)
      BY <1>1, <2>1 DEF IsClickHouseText
    <2>3. Piece(1) = <<Column1>> /\ Piece(2) = <<Percent>> /\ Piece(3) = <<p>>
      <3>1. Raw(t[1], bind) = <<Column1>> /\ Raw(t[3], bind) = <<p>>
        BY <1>0, <1>1, RawPlain
      <3> QED  BY <1>1, <1>3, <3>1
    <2> HIDE DEF Piece
    <2>4. f[0] = << >>
      BY <2>2
    <2>5. f[1] = << >> \o <<Column1>>
      <3>1. f[1] = f[1 - 1] \o Piece(1) /\ 1 - 1 = 0
        BY <2>2
      <3> QED  BY <2>3, <2>4, <3>1, Zenon
    <2>6. f[2] = <<Column1>> \o <<Percent>>
      <3>1. f[2] = f[2 - 1] \o Piece(2) /\ 2 - 1 = 1
        BY <2>2
      <3>2. f[1] = <<Column1>>
        BY <2>5, AppendShort
      <3> QED  BY <2>3, <3>1, <3>2, Zenon
    <2>7. f[3] = <<Column1, Percent>> \o <<p>>
      <3>1. f[3] = f[3 - 1] \o Piece(3) /\ 3 - 1 = 2
        BY <2>2
      <3>2. f[2] = <<Column1, Percent>>
        BY <2>6, AppendShort
      <3> QED  BY <2>3, <3>1, <3>2, Zenon
    <2>8. f[3] = <<Column1, Percent, p>>
      BY <2>7, AppendShort
    <2>9. ClickHouseText(t, bind) = f[3]
      BY <1>1, <2>1
    <2> QED  BY <2>8, <2>9, Zenon
  <1> QED  BY <1>2, <1>4, <1>5 DEF done, t, p

(* A name that occurs once. *)
LEMMA OnlyOne ==
    ASSUME NEW ps, NEW i \in DOMAIN ps, i \in Int,
           \A j \in DOMAIN ps : ps[j].name = ps[i].name => j = i
    PROVE  ValueNamed(ps, ps[i].name) = ps[i].value
  <1>1. {j \in DOMAIN ps : ps[j].name = ps[i].name} = {i}
    OBVIOUS
  <1>2. Max({i}) = i
    BY DEF Max
  <1> QED  BY <1>1, <1>2 DEF ValueNamed

(* The query parameters of the fragment. *)
LEMMA QueryOfComparison ==
    ASSUME style \in Styles, query \in QueryParameters, NamesOf(query) = {P}
    PROVE  query = <<Parameter(P, ValueNamed(query, P))>> /\ ValueNamed(query, P) \in Int
  <1>1. P # Q /\ P # Daft(0)
    BY TokensApart DEF P, Q
  <1>2. ASSUME NEW v, query = <<Parameter(P, v)>> PROVE ValueNamed(query, P) = v
    <2>1. DOMAIN query = {1} /\ query[1] = Parameter(P, v)
      BY <1>2
    <2>2. query[1].name = P /\ query[1].value = v
      BY <2>1 DEF Parameter
    <2>3. 1 \in DOMAIN query /\ \A j \in DOMAIN query : j = 1
      BY <2>1
    <2> QED  BY <2>2, <2>3, OnlyOne
  <1>3. query # << >>
    <2>1. ASSUME query = << >> PROVE FALSE
      <3>1. DOMAIN query = {}
        BY <2>1
      <3> QED  BY <3>1 DEF NamesOf
    <2> QED  BY <2>1
  <1>4. query # <<Parameter(Q, 2), Parameter(P, 1)>>
    <2>1. ASSUME query = <<Parameter(Q, 2), Parameter(P, 1)>> PROVE FALSE
      <3>1. 1 \in DOMAIN query /\ query[1] = Parameter(Q, 2)
        BY <2>1
      <3>2. query[1].name = Q
        BY <3>1 DEF Parameter
      <3>3. Q \in NamesOf(query)
        BY <3>1, <3>2 DEF NamesOf
      <3> QED  BY <1>1, <3>3
    <2> QED  BY <2>1
  <1>5. query # <<Parameter(Daft(0), 2)>>
    <2>1. ASSUME query = <<Parameter(Daft(0), 2)>> PROVE FALSE
      <3>1. 1 \in DOMAIN query /\ query[1] = Parameter(Daft(0), 2)
        BY <2>1
      <3>2. query[1].name = Daft(0)
        BY <3>1 DEF Parameter
      <3>3. Daft(0) \in NamesOf(query)
        BY <3>1, <3>2 DEF NamesOf
      <3> QED  BY <1>1, <3>3
    <2> QED  BY <2>1
  <1>6. query \in {<<Parameter(P, 1)>>, <<Parameter(P, Odd)>>}
    BY <1>3, <1>4, <1>5, Zenon DEF QueryParameters
  <1>7. Odd \in Int
    BY DEF Odd
  <1> QED  BY <1>2, <1>6, <1>7

-----------------------------------------------------------------------------
(* The statement and its parameters. *)

\* The driver makes B of the clauses A, and counts from u to v
Binds(A, u, bind, B, v) ==
    /\ Len(B) = Len(A)
    /\ \E us : /\ us[0] = u /\ us[Len(A)] = v
               /\ \A i \in 1..Len(A) : bind[A[i]][us[i - 1]] = [sql |-> B[i], used |-> us[i]]

\* A clause that the statement may have
BindsMaybe(C, u, bind, D, v) ==
    \/ C = << >> /\ D = << >> /\ v = u
    \/ \E x, y : C = <<x>> /\ D = <<y>> /\ bind[x][u] = [sql |-> y, used |-> v]

(* A clause more. *)
LEMMA BindsMore ==
    ASSUME NEW X, NEW A \in Seq(X), NEW B \in Seq(X), NEW C \in Seq(X), NEW D \in Seq(X),
           NEW bind, NEW u, NEW v, NEW w, Binds(A, u, bind, B, v), BindsMaybe(C, v, bind, D, w)
    PROVE  Binds(A \o C, u, bind, B \o D, w)
  <1>1. CASE C = << >> /\ D = << >> /\ w = v
    <2>1. A \o C = A /\ B \o D = B
      BY <1>1
    <2> QED  BY <1>1, <2>1
  <1>2. ASSUME NEW x, NEW y, C = <<x>>, D = <<y>>, bind[x][v] = [sql |-> y, used |-> w]
        PROVE  Binds(A \o C, u, bind, B \o D, w)
    <2> DEFINE n == Len(A)
               A1 == A \o C
               B1 == B \o D
    <2>1. /\ n \in Nat /\ Len(B) = n /\ Len(C) = 1 /\ C[1] = x /\ Len(D) = 1 /\ D[1] = y
          /\ 1 \in 1..Len(C) /\ 1 \in 1..Len(D)
      BY <1>2 DEF Binds
    <2>2. Len(A1) = n + 1 /\ A1[n + 1] = x /\ \A i \in 1..n : A1[i] = A[i]
      <3>1. /\ Len(A1) = Len(A) + Len(C) /\ \A i \in 1..Len(A) : A1[i] = A[i]
            /\ \A j \in 1..Len(C) : A1[Len(A) + j] = C[j]
        BY ConcatenationParts
      <3> HIDE DEF A1
      <3> QED  BY <2>1, <3>1
    <2>3. Len(B1) = n + 1 /\ B1[n + 1] = y /\ \A i \in 1..n : B1[i] = B[i]
      <3>1. /\ Len(B1) = Len(B) + Len(D) /\ \A i \in 1..Len(B) : B1[i] = B[i]
            /\ \A j \in 1..Len(D) : B1[Len(B) + j] = D[j]
        BY ConcatenationParts
      <3> HIDE DEF B1
      <3> QED  BY <2>1, <3>1
    <2>4. PICK us : /\ us[0] = u /\ us[n] = v
                    /\ \A i \in 1..n : bind[A[i]][us[i - 1]] = [sql |-> B[i], used |-> us[i]]
      BY DEF Binds
    <2> DEFINE more == [i \in 0..(n + 1) |-> IF i = n + 1 THEN w ELSE us[i]]
    <2>5. more[n + 1] = w /\ \A i \in 0..n : more[i] = us[i]
      BY <2>1
    <2> HIDE DEF more, A1, B1, n
    <2>6. ASSUME NEW i \in 1..(n + 1)
          PROVE  bind[A1[i]][more[i - 1]] = [sql |-> B1[i], used |-> more[i]]
      <3>1. CASE i = n + 1
        <4>1. i - 1 = n /\ n \in 0..n
          BY <2>1, <3>1
        <4>2. more[i - 1] = v /\ more[i] = w /\ A1[i] = x /\ B1[i] = y
          BY <2>2, <2>3, <2>4, <2>5, <3>1, <4>1
        <4> QED  BY <1>2, <4>2
      <3>2. CASE i # n + 1
        <4>1. i \in 1..n /\ i \in 0..n /\ i - 1 \in 0..n
          BY <2>1, <3>2
        <4>2. /\ more[i - 1] = us[i - 1] /\ more[i] = us[i] /\ A1[i] = A[i] /\ B1[i] = B[i]
          BY <2>2, <2>3, <2>5, <4>1
        <4>3. bind[A[i]][us[i - 1]] = [sql |-> B[i], used |-> us[i]]
          BY <2>4, <4>1
        <4> QED  BY <4>2, <4>3
      <3> QED  BY <3>1, <3>2
    <2>7. more[0] = u /\ 0 \in 0..n
      BY <2>1, <2>4, <2>5
    <2>8. /\ more[0] = u /\ more[Len(A1)] = w
          /\ \A i \in 1..Len(A1) : bind[A1[i]][more[i - 1]] = [sql |-> B1[i], used |-> more[i]]
      BY <2>2, <2>5, <2>6, <2>7
    <2>9. Binds(A1, u, bind, B1, w)
      BY <2>2, <2>3, <2>8 DEF Binds
    <2> QED  BY <2>9 DEF A1, B1
  <1> QED  BY <1>1, <1>2 DEF BindsMaybe

(* All of them. *)
LEMMA BindsAll ==
    ASSUME NEW X, NEW A \in Seq(X), NEW B \in Seq(X), NEW bind, NEW u, NEW v,
           Binds(A, u, bind, B, v)
    PROVE  BindArgs(A, u, bind).args = B
  <1>1. PICK us : /\ us[0] = u /\ us[Len(A)] = v
                  /\ \A i \in 1..Len(A) : bind[A[i]][us[i - 1]] = [sql |-> B[i], used |-> us[i]]
    BY DEF Binds
  <1>2. Len(A) \in Nat /\ B = [i \in 1..Len(A) |-> B[i]]
    BY DEF Binds
  <1>3. BindArgs(A, u, bind) = [args |-> B, used |-> us[Len(A)]]
    BY ONLY <1>1, <1>2, BindArgsFollow
  <1> QED  BY <1>3

\* Three sequences side by side
SideBySide(all, A, B, C) ==
    /\ Len(all) = Len(A) + Len(B) + Len(C)
    /\ Len(A) \in Nat /\ Len(B) \in Nat /\ Len(C) \in Nat
    /\ \A x \in 1..Len(A) : all[x] = A[x]
    /\ \A x \in 1..Len(B) : all[Len(A) + x] = B[x]
    /\ \A x \in 1..Len(C) : all[Len(A) + Len(B) + x] = C[x]
    /\ \A x \in 1..Len(all) :
          \/ x \in 1..Len(A)
          \/ \E y \in 1..Len(B) : x = Len(A) + y
          \/ \E y \in 1..Len(C) : x = Len(A) + Len(B) + y

(* The parameters of the fragment, of the predicate and of the partitions. *)
LEMMA ThreeParts ==
    ASSUME NEW M, NEW A \in Seq(M), NEW B \in Seq(M), NEW C \in Seq(M),
           NEW all, all = A \o B \o C
    PROVE  all \in Seq(M) /\ SideBySide(all, A, B, C)
  <1> DEFINE D == A \o B
             a == Len(A)
             b == Len(B)
             c == Len(C)
             d == Len(D)
  <1>1. /\ D \in Seq(M) /\ d = a + b /\ a \in Nat /\ b \in Nat
        /\ \A x \in 1..a : D[x] = A[x]
        /\ \A x \in 1..b : D[a + x] = B[x]
    BY ConcatenationParts
  <1> HIDE DEF D
  <1>2. /\ all \in Seq(M) /\ Len(all) = d + c /\ c \in Nat
        /\ \A x \in 1..d : all[x] = D[x]
        /\ \A x \in 1..c : all[d + x] = C[x]
    <2>1. D \in Seq(M)
      BY <1>1
    <2>2. all = D \o C
      BY DEF D
    <2>3. /\ D \o C \in Seq(M) /\ Len(D \o C) = d + c /\ c \in Nat
          /\ \A x \in 1..d : (D \o C)[x] = D[x]
          /\ \A x \in 1..c : (D \o C)[d + x] = C[x]
      BY ONLY <2>1, ConcatenationParts, C \in Seq(M)
    <2> QED  BY ONLY <2>2, <2>3
  <1> HIDE DEF a, b, c, d
  <1>3. Len(all) = a + b + c
    BY <1>1, <1>2
  <1>4. \A x \in 1..a : all[x] = A[x]
    <2> TAKE x \in 1..a
    <2>1. x \in 1..d
      BY <1>1
    <2> QED  BY <1>1, <1>2, <2>1
  <1>5. \A x \in 1..b : all[a + x] = B[x]
    <2> TAKE x \in 1..b
    <2>1. a + x \in 1..d
      BY <1>1
    <2> DEFINE y == a + x
    <2>2. D[y] = B[x] /\ y \in 1..d
      BY <1>1, <2>1
    <2> HIDE DEF y
    <2>3. all[y] = D[y]
      BY <1>2, <2>2
    <2> QED  BY <2>2, <2>3 DEF y
  <1>6. \A x \in 1..c : all[(a + b) + x] = C[x]
    <2>1. \A x \in 1..c : all[d + x] = C[x]
      BY <1>2
    <2> QED  BY <1>1, <2>1
  <1>7. \A x \in 1..Len(all) : \/ x \in 1..a
                               \/ \E y \in 1..b : x = a + y
                               \/ \E y \in 1..c : x = (a + b) + y
    <2> TAKE x \in 1..Len(all)
    <2>1. CASE x <= a
      BY <1>1, <2>1
    <2>2. CASE x > a /\ x <= a + b
      <3>1. x - a \in 1..b /\ x = a + (x - a)
        BY <1>1, <2>2
      <3> QED  BY <3>1
    <2>3. CASE x > a + b
      <3>1. x - (a + b) \in 1..c /\ x = (a + b) + (x - (a + b))
        <4>1. /\ x \in 1..Len(all) /\ Len(all) = (a + b) + c
              /\ a \in Nat /\ b \in Nat /\ c \in Nat
          BY <1>1, <1>2
        <4> HIDE DEF a, b, c
        <4> QED  BY ONLY <2>3, <4>1
      <3> QED  BY <3>1
    <2> QED  BY <1>1, <2>1, <2>2, <2>3
  <1> QED  BY <1>1, <1>2, <1>3, <1>4, <1>5, <1>6, <1>7 DEF SideBySide, a, b, c

PartitionName(k) == Node("partition", k, << >>)

\* Everything that is handed to the driver
BindingNames == Names \cup {Placeholder} \cup {Daft(k) : k \in Nat} \cup {PartitionName(k) : k \in Nat}
AllBindings == [name : BindingNames, value : Int]

(* The names of ClickHouse's parameters do not get into each other's way. *)
LEMMA NamesApart ==
    ASSUME NEW A \in Seq(AllBindings), NEW B \in Seq(AllBindings), NEW C \in Seq(AllBindings),
           Len(A) <= 1, \A x \in 1..Len(A) : A[x].name = Token("(p)s"),
           \A x \in 1..Len(B) : B[x].name = Daft(x - 1),
           \A x \in 1..Len(C) : C[x].name = PartitionName(x - 1)
    PROVE  LET all == A \o B \o C
           IN  \A x \in 1..Len(all) : ValueNamed(all, all[x].name) = all[x].value
  <1> DEFINE all == A \o B \o C
             a == Len(A)
             b == Len(B)
             c == Len(C)
  <1>0. all \in Seq(AllBindings) /\ SideBySide(all, A, B, C)
    <2>1. all = A \o B \o C
      OBVIOUS
    <2> HIDE DEF all
    <2> QED  BY <2>1, ThreeParts
  <1>1. /\ all \in Seq(AllBindings) /\ a \in Nat /\ b \in Nat /\ c \in Nat
        /\ \A x \in 1..a : all[x] = A[x]
        /\ \A x \in 1..b : all[a + x] = B[x]
        /\ \A x \in 1..c : all[a + b + x] = C[x]
        /\ \A x \in 1..Len(all) : \/ x \in 1..a
                                  \/ \E y \in 1..b : x = a + y
                                  \/ \E y \in 1..c : x = a + b + y
    <2> HIDE DEF all
    <2> QED  BY ONLY <1>0 DEF SideBySide
  <1>2. /\ \A k, l : Daft(k) = Daft(l) => k = l
        /\ \A k, l : PartitionName(k) = PartitionName(l) => k = l
        /\ \A k, l : Daft(k) # PartitionName(l)
        /\ \A k : Token("(p)s") # Daft(k) /\ Token("(p)s") # PartitionName(k)
    BY DEF Daft, PartitionName, Token, Op, Node
  <1> HIDE DEF all
  <1> DEFINE kind(x) == IF x <= a THEN 0 ELSE IF x <= a + b THEN 1 ELSE 2
  <1>3. ASSUME NEW x \in 1..Len(all)
        PROVE  /\ kind(x) = 0 => all[x].name = Token("(p)s") /\ x = 1
               /\ kind(x) = 1 => all[x].name = Daft((x - a) - 1) /\ x - a \in Int
               /\ kind(x) = 2 => all[x].name = PartitionName((x - (a + b)) - 1)
    <2> HIDE DEF a, b, c
    <2>1. CASE x \in 1..a
      <3>1. a <= 1 /\ A[x].name = Token("(p)s")
        BY <2>1 DEF a
      <3>2. x = 1 /\ kind(x) = 0
        BY <1>1, <2>1, <3>1
      <3> QED  BY <1>1, <2>1, <3>1, <3>2
    <2>2. ASSUME NEW y \in 1..b, x = a + y
          PROVE  kind(x) = 1 /\ all[x].name = Daft((x - a) - 1)
      <3>1. kind(x) = 1 /\ x - a = y
        BY <1>1, <2>2
      <3>2. all[x] = B[y] /\ B[y].name = Daft(y - 1)
        BY <1>1, <2>2 DEF b
      <3> QED  BY <3>1, <3>2
    <2>3. ASSUME NEW y \in 1..c, x = a + b + y
          PROVE  kind(x) = 2 /\ all[x].name = PartitionName((x - (a + b)) - 1)
      <3>1. kind(x) = 2 /\ x - (a + b) = y
        BY <1>1, <2>3
      <3>2. all[x] = C[y] /\ C[y].name = PartitionName(y - 1)
        BY <1>1, <2>3 DEF c
      <3> QED  BY <3>1, <3>2
    <2>4. x - a \in Int
      BY <1>1
    <2> QED  BY <1>1, <2>1, <2>2, <2>3, <2>4
  <1>4. \A x \in 1..Len(all) : kind(x) \in {0, 1, 2}
    OBVIOUS
  <1> SUFFICES ASSUME NEW x \in 1..Len(all)
               PROVE  ValueNamed(all, all[x].name) = all[x].value
    BY DEF all
  <1>5. ASSUME NEW y \in 1..Len(all), all[y].name = all[x].name PROVE y = x
    <2> HIDE DEF kind, a, b, c
    <2>1. CASE kind(x) = 0
      BY <1>2, <1>3, <1>4, <1>5, <2>1
    <2>2. CASE kind(x) = 1
      <3>1. kind(y) = 1
        BY <1>2, <1>3, <1>4, <1>5, <2>2
      <3>2. (x - a) - 1 = (y - a) - 1
        BY <1>2, <1>3, <1>5, <2>2, <3>1
      <3> QED  BY <1>1, <3>2
    <2>3. CASE kind(x) = 2
      <3>1. kind(y) = 2
        BY <1>2, <1>3, <1>4, <1>5, <2>3
      <3>2. (x - (a + b)) - 1 = (y - (a + b)) - 1
        BY <1>2, <1>3, <1>5, <2>3, <3>1
      <3> QED  BY <1>1, <3>2
    <2> QED  BY <1>4, <2>1, <2>2, <2>3
  <1>6. DOMAIN all = 1..Len(all) /\ x \in Int
    BY <1>1
  <1> QED  BY <1>5, <1>6, OnlyOne

\* What the source and Daft ask for
InputsOK ==
    /\ filter \in Trees[MaxHeight] /\ style \in Styles /\ query \in QueryParameters
    /\ column \in {Tokens(<<"c">>), Tokens(<<"c", "%">>)}
    /\ partitions \in {<< >>, <<0, 1>>}
    /\ partitions # << >> => style = "clickhouse"

\* A statement with the fragment that PushdownExact is about
Ready ==
    /\ InputsOK /\ predicate = CompileFilter(filter)
    /\ fragment \in {<< >>, Comparison} /\ ~UnsafeClause.refused

(* What is sent of the fragment. *)
LEMMA FragmentParts ==
    ASSUME Ready
    PROVE  LET v == ValueNamed(query, P)
           IN  /\ Comparison # << >>
               /\ fragment = << >> => query = << >> /\ UnsafeClause.params = << >>
               /\ fragment # << >> =>
                    /\ v \in Int /\ query = <<Parameter(P, v)>>
                    /\ style = "mysql" => /\ UnsafeClause.text = <<Column1, Placeholder>>
                                          /\ UnsafeClause.params = <<Parameter(Placeholder, v)>>
                    /\ style = "flight" => /\ UnsafeClause.text = <<Column1, Lit(v)>>
                                           /\ UnsafeClause.params = << >>
                    /\ style = "clickhouse" => /\ P = Token("(p)s")
                                               /\ UnsafeClause.text = <<Column1, Percent, P>>
                                               /\ UnsafeClause.params = query
  <1>1. Comparison # << >>
    BY ComparisonIs
  <1>2. CASE fragment = << >>
    <2>1. UnsafeClause = IF query = << >> THEN Rendered(<< >>, << >>) ELSE Refused
      BY <1>2, Zenon DEF UnsafeClause
    <2>2. Refused.refused = TRUE /\ ~UnsafeClause.refused
      BY DEF Refused, Ready
    <2>3. UnsafeClause # Refused
      BY <2>2
    <2>4. query = << >> /\ UnsafeClause = Rendered(<< >>, << >>)
      BY <2>1, <2>3
    <2> QED  BY <1>1, <1>2, <2>4 DEF Rendered
  <1>3. CASE fragment # << >> /\ style = "clickhouse"
    <2>1. fragment = <<Column1, Percent, Token("(p)s")>> /\ P = Token("(p)s")
      BY <1>3, ComparisonIs DEF Ready
    <2>2. UnsafeClause = ClickHouseFragment(fragment, query, BindRequired)
      BY <1>3, Zenon DEF UnsafeClause
    <2>3. ~ClickHouseFragment(fragment, query, BindRequired).refused
      BY <2>2 DEF Ready
    <2>4. /\ NamesOf(query) = {P} /\ UnsafeClause.text = <<Column1, Percent, P>>
          /\ UnsafeClause.params = query
      BY <2>1, <2>2, <2>3, ClickHouseComparison, Zenon
    <2>5. query = <<Parameter(P, ValueNamed(query, P))>> /\ ValueNamed(query, P) \in Int
      BY <2>4, QueryOfComparison DEF Ready, InputsOK
    <2> QED  BY <1>1, <1>3, <2>1, <2>4, <2>5
  <1>4. CASE fragment # << >> /\ style # "clickhouse"
    <2>1. fragment = <<Column1, Colon, Token("p")>> /\ P = Token("p")
      BY <1>4, ComparisonIs DEF Ready
    <2>2. UnsafeClause = DorisFragment(fragment, query, style = "flight", BindRequired)
      BY <1>4, Zenon DEF UnsafeClause
    <2> DEFINE done == DorisFragment(<<Column1, Colon, Token("p")>>, query, style = "flight",
                                     BindRequired)
               v == ValueNamed(query, Token("p"))
    <2>3. UnsafeClause = done
      BY <2>1, <2>2, Zenon
    <2>4. ~done.refused
      <3> HIDE DEF done
      <3> QED  BY <2>3 DEF Ready
    <2>5. /\ NamesOf(query) = {Token("p")}
          /\ style = "flight" => done.text = <<Column1, Lit(v)>> /\ done.params = << >>
          /\ style # "flight" => /\ done.text = <<Column1, Placeholder>>
                                 /\ done.params = <<Parameter(Placeholder, v)>>
      BY <2>4, DorisComparison, Zenon
    <2> HIDE DEF done
    <2>6. query = <<Parameter(P, ValueNamed(query, P))>> /\ ValueNamed(query, P) \in Int
      BY <2>1, <2>5, QueryOfComparison DEF Ready, InputsOK
    <2> HIDE DEF v
    <2>7. ValueNamed(query, P) = v
      BY <2>1 DEF v
    <2> QED  BY <1>1, <1>4, <2>3, <2>5, <2>6, <2>7
  <1> QED  BY <1>2, <1>3, <1>4

(* What is sent of the predicate. *)
LEMMA PredicateParts ==
    ASSUME Ready
    PROVE  LET r == PredicateClause
           IN  /\ r.params \in Seq(Bindings)
               /\ style = "flight" => r.params = << >>
               /\ style = "clickhouse" =>
                     \A j \in 1..Len(r.params) : r.params[j].name = Daft(j - 1)
               /\ predicate = Unsupported => r.params = << >>
               /\ predicate # Unsupported =>
                     /\ r.sql \in Trees[MaxHeight + 1]
                     /\ r.params = << >> => r.sql = predicate
                     /\ \A ps : Len(ps) \in Nat =>
                          \A u \in 0..Len(ps) : Holds(style, ps, r.params, u) =>
                             Bind(r.sql, u, ps)
                               = [sql |-> predicate, used |-> After(style, u, Len(r.params))]
  <1> DEFINE r == PredicateClause
  <1>1. CASE predicate = Unsupported
    <2>1. r.params = << >>
      BY <1>1 DEF PredicateClause
    <2> HIDE DEF r
    <2>2. r.params \in Seq(Bindings) /\ Len(r.params) = 0
      BY <2>1
    <2>3. \A j \in 1..Len(r.params) : FALSE
      BY <2>2
    <2> QED  BY <1>1, <2>1, <2>2, <2>3 DEF r
  <1>2. CASE predicate # Unsupported
    <2>0. style \in Styles /\ filter \in Trees[MaxHeight] /\ predicate = CompileFilter(filter)
      BY DEF Ready, InputsOK
    <2>1. PICK pure : IsPure(pure, MaxHeight + 1)
      BY FiltersAssumption, PureExists
    <2>2. predicate \in pure[MaxHeight + 1]
      BY <1>2, <2>0, <2>1, CompiledIsPure
    <2>3. PICK render : /\ IsRender(render, style, MaxHeight + 1)
                        /\ \A p : Render(p, style) = render[MaxHeight + 1][p][0]
      BY RenderIs
    <2>4. r = render[MaxHeight + 1][predicate][0]
      BY <1>2, <2>3 DEF PredicateClause
    <2> HIDE DEF r
    <2>5. ASSUME NEW ps, Len(ps) \in Nat
          PROVE  /\ RenderedWell(r, MaxHeight + 1, 0, style)
                 /\ r.params = << >> => r.sql = predicate
                 /\ \A u \in 0..Len(ps) : Holds(style, ps, r.params, u) =>
                       Bind(r.sql, u, ps)
                          = [sql |-> predicate, used |-> After(style, u, Len(r.params))]
      <3>1. PICK bind : /\ IsBind(bind, ps, MaxHeight + 1)
                        /\ \A p, u : Bind(p, u, ps) = bind[MaxHeight + 1][p][u]
        BY BindIs
      <3>2. Returns(MaxHeight + 1, style, render, ps, bind, pure)
        BY <2>0, <2>1, <2>3, <2>5, <3>1, RenderRestored
      <3>3. /\ RenderedWell(r, MaxHeight + 1, 0, style)
            /\ Restored(predicate, r, MaxHeight + 1, style, ps, bind)
        BY <2>2, <2>4, <3>2 DEF Returns
      <3> QED  BY <3>1, <3>3, Zenon DEF Restored
    <2>6. RenderedWell(r, MaxHeight + 1, 0, style) /\ (r.params = << >> => r.sql = predicate)
      <3>1. Len(<< >>) \in Nat
        OBVIOUS
      <3> QED  BY <2>5, <3>1
    <2>7. style = "clickhouse" => \A j \in 1..Len(r.params) : r.params[j].name = Daft(j - 1)
      <3>1. r.params \in Seq(Bindings)
        BY <2>6 DEF RenderedWell
      <3>2. \A j \in 1..Len(r.params) : (0 + j) - 1 = j - 1
        BY <3>1
      <3> QED  BY <2>6, <3>2 DEF RenderedWell
    <2>8. /\ r.params \in Seq(Bindings) /\ r.sql \in Trees[MaxHeight + 1]
          /\ style = "flight" => r.params = << >>
      BY <2>6 DEF RenderedWell
    <2> QED  BY <1>2, <2>5, <2>6, <2>7, <2>8, Zenon DEF r
  <1> QED  BY <1>1, <1>2

(* One element before two. *)
LEMMA OneThenTwo ==
    ASSUME NEW a, NEW b, NEW c
    PROVE  <<a>> \o <<b, c>> = <<a, b, c>>
  <1> DEFINE S == {a, b, c}
             s == <<a>>
             t == <<b, c>>
             r == s \o t
  <1>1. s \in Seq(S) /\ Len(s) = 1 /\ s[1] = a
    OBVIOUS
  <1>2. t \in Seq(S) /\ Len(t) = 2 /\ t[1] = b /\ t[2] = c
    OBVIOUS
  <1> HIDE DEF S, s, t
  <1>3. /\ r \in Seq(S) /\ Len(r) = Len(s) + Len(t)
        /\ \A x \in 1..Len(s) : r[x] = s[x]
        /\ \A j \in 1..Len(t) : r[Len(s) + j] = t[j]
    <2>1. s \in Seq(S)
      BY <1>1
    <2>2. t \in Seq(S)
      BY <1>2
    <2> QED  BY ONLY <2>1, <2>2, ConcatenationParts
  <1> HIDE DEF r
  <1>4. Len(r) = 3 /\ r[1] = a /\ r[2] = b /\ r[3] = c
    <2>1. r[1 + 1] = t[1] /\ r[1 + 2] = t[2] /\ r[1] = s[1]
      BY <1>1, <1>2, <1>3
    <2> QED  BY <1>1, <1>2, <1>3, <2>1
  <1>5. r = <<r[1], r[2], r[3]>>
    BY <1>3, <1>4, ShortTexts
  <1>6. r = <<a, b, c>>
    BY <1>4, <1>5
  <1> QED  BY <1>6 DEF r, s, t

\* _partition_id IN (0, 1)
InPartitions == Op("in", <<Col(3), Lit(0), Lit(1)>>)

(* What is sent of the partitions. *)
LEMMA PartitionParts ==
    ASSUME InputsOK
    PROVE  /\ partitions = << >> => PartitionClause.params = << >>
           /\ partitions # << >> =>
                 /\ PartitionClause.sql = Op("in", <<Col(3), PartitionName(0), PartitionName(1)>>)
                 /\ PartitionClause.params = <<Parameter(PartitionName(0), 0),
                                               Parameter(PartitionName(1), 1)>>
  <1> DEFINE names == [i \in DOMAIN partitions |-> Node("partition", i - 1, << >>)]
             params == [i \in DOMAIN partitions |-> Parameter(names[i], partitions[i])]
  <1>1. PartitionClause = [sql |-> Op("in", <<Col(3)>> \o names), params |-> params]
    BY DEF PartitionClause
  <1>2. CASE partitions = << >>
    <2>1. DOMAIN partitions = {}
      BY <1>2
    <2>2. params = << >>
      BY <2>1
    <2> HIDE DEF names, params
    <2> QED  BY <1>1, <1>2, <2>2
  <1>3. CASE partitions # << >>
    <2>1. DOMAIN partitions = 1..2 /\ partitions[1] = 0 /\ partitions[2] = 1
      <3>1. partitions = <<0, 1>>
        BY <1>3 DEF InputsOK
      <3> QED  BY <3>1
    <2>2. \A i \in 1..2 : i = 1 \/ i = 2
      OBVIOUS
    <2> DEFINE a == PartitionName(0)
               b == PartitionName(1)
    <2>3. names = [i \in 1..2 |-> Node("partition", i - 1, << >>)] /\ names[1] = a /\ names[2] = b
      BY <2>1 DEF PartitionName
    <2>4. names = <<a, b>>
      <3> HIDE DEF names, a, b
      <3>1. \A i \in 1..2 : names[i] \in {a, b}
        BY <2>2, <2>3
      <3>2. names \in Seq({a, b}) /\ Len(names) = 2
        BY <2>3, <3>1
      <3> QED  BY <2>3, <3>2, ShortTexts
    <2>5. params = <<Parameter(a, 0), Parameter(b, 1)>>
      <3>1. params = [i \in 1..2 |-> Parameter(names[i], partitions[i])]
        BY <2>1
      <3> HIDE DEF names, a, b, params
      <3>2. params[1] = Parameter(a, 0) /\ params[2] = Parameter(b, 1)
        BY <2>1, <2>3, <3>1
      <3>3. \A i \in 1..2 : params[i] \in {Parameter(a, 0), Parameter(b, 1)}
        BY <2>2, <3>2
      <3>4. params \in Seq({Parameter(a, 0), Parameter(b, 1)}) /\ Len(params) = 2
        BY <3>1, <3>3
      <3> QED  BY <3>2, <3>4, ShortTexts
    <2>6. <<Col(3)>> \o names = <<Col(3), a, b>>
      <3> DEFINE x == Col(3)
      <3> HIDE DEF names, a, b, x
      <3>1. <<x>> \o <<a, b>> = <<x, a, b>>
        BY OneThenTwo
      <3> QED  BY <2>4, <3>1 DEF x
    <2> HIDE DEF names, params
    <2> QED  BY <1>1, <1>3, <2>5, <2>6
  <1> QED  BY <1>2, <1>3

\* The statement that build_select made
Sent ==
    /\ Ready /\ select = QuotedColumn /\ where = Clauses
    /\ parameters = UnsafeClause.params \o PredicateClause.params \o PartitionClause.params

(* Where the parameters of each clause are. *)
LEMMA ParameterParts ==
    ASSUME Sent
    PROVE  /\ UnsafeClause.params \in Seq(AllBindings) /\ PredicateClause.params \in Seq(AllBindings)
           /\ PartitionClause.params \in Seq(AllBindings) /\ parameters \in Seq(AllBindings)
           /\ SideBySide(parameters, UnsafeClause.params, PredicateClause.params, PartitionClause.params)
  <1> DEFINE u == UnsafeClause.params
             r == PredicateClause.params
             k == PartitionClause.params
             v == ValueNamed(query, P)
  <1>0. Ready /\ InputsOK /\ style \in Styles
    BY DEF Sent, Ready, InputsOK
  <1>1. u \in Seq(AllBindings)
    <2> HIDE DEF v
    <2>1. ASSUME NEW name \in BindingNames, NEW x \in Int
          PROVE  <<Parameter(name, x)>> \in Seq(AllBindings)
      <3>1. Parameter(name, x) \in AllBindings
        BY DEF Parameter, AllBindings
      <3> QED  BY <3>1, ShortSequences
    <2>2. Placeholder \in BindingNames /\ Token("(p)s") \in BindingNames
      BY TokensApart DEF BindingNames
    <2>3. << >> \in Seq(AllBindings)
      OBVIOUS
    <2>4. \/ u = << >>
          \/ v \in Int /\ u = <<Parameter(Placeholder, v)>>
          \/ v \in Int /\ u = <<Parameter(Token("(p)s"), v)>>
      BY <1>0, FragmentParts DEF Styles, v
    <2> HIDE DEF u
    <2> QED  BY <2>1, <2>2, <2>3, <2>4
  <1>2. r \in Seq(AllBindings)
    <2>1. r \in Seq(Bindings)
      BY <1>0, PredicateParts
    <2>2. Bindings \subseteq AllBindings
      BY DEF Bindings, AllBindings, BindingNames
    <2> HIDE DEF r
    <2> QED  BY <2>1, <2>2
  <1>3. k \in Seq(AllBindings)
    <2> DEFINE a == Parameter(PartitionName(0), 0)
               b == Parameter(PartitionName(1), 1)
    <2>1. a \in AllBindings /\ b \in AllBindings
      BY DEF Parameter, AllBindings, BindingNames
    <2>2. k = << >> \/ k = <<a, b>>
      BY <1>0, PartitionParts
    <2> HIDE DEF k, a, b
    <2>3. << >> \in Seq(AllBindings) /\ <<a, b>> \in Seq(AllBindings)
      BY <2>1, ShortSequences
    <2> QED  BY <2>2, <2>3
  <1>4. parameters = u \o r \o k
    BY DEF Sent
  <1> HIDE DEF u, r, k
  <1>5. parameters \in Seq(AllBindings) /\ SideBySide(parameters, u, r, k)
    BY <1>1, <1>2, <1>3, <1>4, ThreeParts
  <1> QED  BY <1>1, <1>2, <1>3, <1>5 DEF u, r, k

(* ClickHouse finds every parameter by its name. *)
LEMMA FoundByName ==
    ASSUME Sent, style = "clickhouse"
    PROVE  \A x \in 1..Len(parameters) : ValueNamed(parameters, parameters[x].name) = parameters[x].value
  <1> DEFINE u == UnsafeClause.params
             r == PredicateClause.params
             k == PartitionClause.params
  <1>0. Ready /\ InputsOK
    BY DEF Sent, Ready
  <1>1. Len(u) <= 1 /\ \A x \in 1..Len(u) : u[x].name = Token("(p)s")
    <2>1. u = << >> \/ \E v : u = <<Parameter(Token("(p)s"), v)>>
      BY <1>0, FragmentParts
    <2> HIDE DEF u
    <2>2. CASE u = << >>
      BY <2>2
    <2>3. ASSUME NEW v, u = <<Parameter(Token("(p)s"), v)>>
          PROVE  Len(u) <= 1 /\ \A x \in 1..Len(u) : u[x].name = Token("(p)s")
      <3>1. Len(u) = 1 /\ u[1].name = Token("(p)s")
        BY <2>3 DEF Parameter
      <3> QED  BY <3>1
    <2> QED  BY <2>1, <2>2, <2>3
  <1>2. \A x \in 1..Len(r) : r[x].name = Daft(x - 1)
    BY <1>0, PredicateParts
  <1>3. \A x \in 1..Len(k) : k[x].name = PartitionName(x - 1)
    <2> DEFINE a == PartitionName(0)
               b == PartitionName(1)
    <2>1. k = << >> \/ k = <<Parameter(a, 0), Parameter(b, 1)>>
      BY <1>0, PartitionParts
    <2> HIDE DEF k
    <2>2. CASE k = << >>
      BY <2>2
    <2>3. CASE k = <<Parameter(a, 0), Parameter(b, 1)>>
      <3> HIDE DEF a, b
      <3>1. Len(k) = 2 /\ k[1].name = a /\ k[2].name = b
        BY <2>3 DEF Parameter
      <3>2. \A x \in 1..2 : x = 1 \/ x = 2
        OBVIOUS
      <3>3. a = PartitionName(1 - 1) /\ b = PartitionName(2 - 1)
        BY DEF a, b
      <3> QED  BY <3>1, <3>2, <3>3
    <2> QED  BY <2>1, <2>2, <2>3
  <1>4. /\ u \in Seq(AllBindings) /\ r \in Seq(AllBindings) /\ k \in Seq(AllBindings)
        /\ parameters = u \o r \o k
    BY ParameterParts DEF Sent
  <1> HIDE DEF u, r, k
  <1>5. LET all == u \o r \o k
        IN  \A x \in 1..Len(all) : ValueNamed(all, all[x].name) = all[x].value
    BY <1>1, <1>2, <1>3, <1>4, NamesApart
  <1> QED  BY <1>4, <1>5, Zenon

(* The fragment reaches the database with its value. *)
LEMMA FragmentBound ==
    ASSUME Sent, parameters # << >>, fragment # << >>
    PROVE  BindClause(Op("text", UnsafeClause.text), 0, parameters)
           = [sql |-> Op("text", <<Column1, Lit(ValueNamed(query, P))>>),
              used |-> After(style, 0, Len(UnsafeClause.params))]
  <1> DEFINE u == UnsafeClause.params
             v == ValueNamed(query, P)
             text == UnsafeClause.text
             done == Format(text, 0, parameters)
  <1>0. Ready /\ InputsOK /\ style \in Styles
    BY DEF Sent, Ready, InputsOK
  <1>1. BindClause(Op("text", text), 0, parameters)
        = [sql |-> Op("text", done.text), used |-> done.used]
    <2>1. Op("text", text).kind = "text" /\ Op("text", text).args = text
      BY DEF Op, Node
    <2> QED  BY <2>1, Zenon DEF BindClause
  <1>2. /\ Len(parameters) \in Nat
        /\ u # << >> => Len(u) \in Nat /\ Len(u) <= Len(parameters)
        /\ \A x \in 1..Len(u) : parameters[x] = u[x]
    <2> DEFINE B == PredicateClause.params
               C == PartitionClause.params
    <2>1. SideBySide(parameters, u, B, C)
      BY ParameterParts
    <2> HIDE DEF u, B, C
    <2> QED  BY <2>1 DEF SideBySide
  <1>3. CASE style = "mysql"
    <2>1. text = <<Column1, Placeholder>> /\ u = <<Parameter(Placeholder, v)>>
      BY <1>0, <1>3, FragmentParts
    <2> HIDE DEF v, u, text
    <2>2. Len(u) = 1 /\ u[1].value = v /\ u # << >>
      BY <2>1 DEF Parameter
    <2>3. Len(parameters) >= 1 /\ parameters[1].value = v
      BY <1>2, <2>2
    <2>4. Column1 \notin {Placeholder, Percent}
      BY TokensApart
    <2>5. done.text = <<Column1, Lit(v)>> /\ done.used = 1
      BY <1>2, <2>1, <2>3, <2>4, FormatPlaceholder
    <2>6. After(style, 0, Len(u)) = 1
      BY <1>3, <2>2 DEF After
    <2> HIDE DEF done
    <2> QED  BY <1>1, <2>5, <2>6 DEF u, v, text
  <1>4. CASE style = "clickhouse"
    <2>1. /\ text = <<Column1, Percent, P>> /\ u = <<Parameter(P, v)>> /\ P = Token("(p)s")
      BY <1>0, <1>4, FragmentParts
    <2> HIDE DEF v, u, text
    <2>2. Len(u) = 1 /\ u[1].value = v /\ u[1].name = P /\ u # << >>
      BY <2>1 DEF Parameter
    <2>3. 1 \in 1..Len(parameters) /\ parameters[1].value = v /\ parameters[1].name = P
      BY <1>2, <2>2
    <2>4. ValueNamed(parameters, P) = v
      BY <1>4, <2>3, FoundByName
    <2>5. P \in NamesOf(parameters)
      <3>1. DOMAIN parameters = 1..Len(parameters)
        BY ParameterParts
      <3> QED  BY <2>3, <3>1 DEF NamesOf
    <2>6. Percent # Placeholder /\ Column1 \notin {Placeholder, Percent} /\ P # Percent
      BY <2>1, TokensApart
    <2>7. done.text = <<Column1, Lit(ValueNamed(parameters, P))>> /\ done.used = 0
      <3> DEFINE name == P
      <3> HIDE DEF name
      <3>1. /\ Percent # Placeholder /\ Column1 \notin {Placeholder, Percent}
            /\ name # Percent /\ name \in NamesOf(parameters)
        BY <2>5, <2>6 DEF name
      <3>2. LET all == Format(<<Column1, Percent, name>>, 0, parameters)
            IN  all.text = <<Column1, Lit(ValueNamed(parameters, name))>> /\ all.used = 0
        BY <3>1, FormatNamed
      <3> QED  BY <2>1, <3>2, Zenon DEF name
    <2>8. After(style, 0, Len(u)) = 0
      BY <1>4 DEF After
    <2> HIDE DEF done
    <2>9. done.text = <<Column1, Lit(v)>>
      BY <2>4, <2>7, Zenon
    <2> QED  BY <1>1, <2>7, <2>8, <2>9 DEF u, v, text
  <1>5. CASE style = "flight"
    <2>1. u = << >> /\ PredicateClause.params = << >> /\ PartitionClause.params = << >>
      <3>1. partitions = << >>
        BY <1>0, <1>5 DEF InputsOK
      <3> QED  BY <1>0, <1>5, <3>1, FragmentParts, PredicateParts, PartitionParts
    <2>2. parameters = << >>
      BY <2>1 DEF Sent
    <2> QED  BY <2>2
  <1> QED  BY <1>0, <1>3, <1>4, <1>5 DEF Styles

(* The predicate reaches the database as it was compiled. *)
LEMMA PredicateBound ==
    ASSUME Sent, predicate # Unsupported
    PROVE  LET u == After(style, 0, Len(UnsafeClause.params))
           IN  /\ u \in 0..Len(parameters)
               /\ BindClause(PredicateClause.sql, u, parameters)
                  = [sql |-> predicate, used |-> After(style, u, Len(PredicateClause.params))]
  <1> DEFINE A == UnsafeClause.params
             B == PredicateClause.params
             C == PartitionClause.params
             u == After(style, 0, Len(A))
             sql == PredicateClause.sql
  <1>0. Ready /\ InputsOK /\ style \in Styles
    BY DEF Sent, Ready, InputsOK
  <1>1. /\ Len(A) \in Nat /\ Len(B) \in Nat /\ Len(C) \in Nat
        /\ Len(parameters) = Len(A) + Len(B) + Len(C)
        /\ \A x \in 1..Len(B) : parameters[Len(A) + x] = B[x]
    BY ParameterParts DEF SideBySide
  <1>2. sql \in Trees[MaxHeight + 1]
    BY <1>0, PredicateParts
  <1>3. \A y \in 0..Len(parameters) : Holds(style, parameters, B, y) =>
           Bind(sql, y, parameters) = [sql |-> predicate, used |-> After(style, y, Len(B))]
    <2>1. Len(parameters) \in Nat
      <3> HIDE DEF A, B, C
      <3> QED  BY <1>1
    <2> QED  BY <1>0, <2>1, PredicateParts
  <1>4. sql.kind # "text"
    <2>1. MaxHeight + 1 \in 1..(MaxHeight + 1)
      BY FiltersAssumption
    <2>2. sql.kind \in TreeKinds
      <3> HIDE DEF sql
      <3> QED  BY <1>2, <2>1, TreeParts
    <2> HIDE DEF sql
    <2> QED  BY <2>2, OperatorKinds DEF TreeKinds, ExpressionKinds, PredicateKinds
  <1>5. BindClause(sql, u, parameters) = Bind(sql, u, parameters)
    <2> HIDE DEF sql, u
    <2> QED  BY <1>4, Zenon DEF BindClause
  <1> HIDE DEF sql
  <1>6. u \in 0..Len(parameters) /\ Holds(style, parameters, B, u)
    <2>1. CASE style = "mysql"
      <3>1. u = Len(A)
        BY <1>1, <2>1 DEF After
      <3> HIDE DEF u, A, B, C
      <3>2. \A x \in 1..Len(B) : parameters[u + x].value = B[x].value
        BY <1>1, <3>1
      <3> QED  BY <1>1, <2>1, <3>1, <3>2 DEF Holds
    <2>2. CASE style = "flight"
      <3>1. B = << >> /\ u = 0
        BY <1>0, <2>2, PredicateParts DEF After
      <3> HIDE DEF u, A, B, C
      <3>2. Len(B) = 0
        BY <3>1
      <3> QED  BY <1>1, <2>2, <3>1, <3>2 DEF Holds
    <2>3. CASE style = "clickhouse"
      <3>1. u = 0
        BY <2>3 DEF After
      <3> HIDE DEF u, A, B, C
      <3>2. ASSUME NEW x \in 1..Len(B) PROVE ValueNamed(parameters, B[x].name) = B[x].value
        <4>1. Len(A) + x \in 1..Len(parameters) /\ parameters[Len(A) + x] = B[x]
          BY <1>1
        <4> QED  BY <2>3, <4>1, FoundByName
      <3> QED  BY <1>1, <2>3, <3>1, <3>2 DEF Holds
    <2> QED  BY <1>0, <2>1, <2>2, <2>3 DEF Styles
  <1> HIDE DEF u, B
  <1>7. Bind(sql, u, parameters) = [sql |-> predicate, used |-> After(style, u, Len(B))]
    BY <1>3, <1>6
  <1> QED  BY <1>5, <1>6, <1>7, Zenon DEF u, A, B, sql

(* Nodes without operands are trees of every height. *)
LEMMA LeafTrees ==
    ASSUME NEW n \in 1..(MaxHeight + 1), NEW kind \in {"col", "lit", "partition"}, NEW v \in Int
    PROVE  Node(kind, v, << >>) \in Trees[n]
  <1> DEFINE t == Node(kind, v, << >>)
  <1>1. Trees[n] = {e \in [kind : TreeKinds, val : Int, args : Seq(Trees[n - 1])] : Shape(e)}
    BY TreesUnfold
  <1>2. kind \in TreeKinds
    BY DEF TreeKinds, ExpressionKinds
  <1>3. t \in [kind : TreeKinds, val : Int, args : Seq(Trees[n - 1])]
    BY <1>2 DEF Node
  <1>4. t.kind = kind /\ t.args = << >>
    BY DEF Node
  <1> HIDE DEF t
  <1>5. Shape(t)
    BY <1>4, OperatorKinds DEF Shape
  <1>6. t \in Trees[n]
    BY <1>1, <1>3, <1>5
  <1> QED  BY <1>6 DEF t

(* A filter has a root. *)
LEMMA SomeHeight ==
    ASSUME InputsOK
    PROVE  MaxHeight \in 1..MaxHeight /\ MaxHeight \in 1..(MaxHeight + 1)
           /\ MaxHeight + 1 \in 1..(MaxHeight + 1) /\ (MaxHeight + 1) - 1 = MaxHeight
  <1>1. MaxHeight \in Nat /\ MaxHeight # 0
    BY TreesUnfold DEF InputsOK
  <1> QED  BY <1>1

(* "column IN (...)", over leaves. *)
LEMMA InTree ==
    ASSUME InputsOK, NEW a \in Trees[MaxHeight], NEW b \in Trees[MaxHeight], NEW c \in Trees[MaxHeight]
    PROVE  Op("in", <<a, b, c>>) \in Trees[MaxHeight + 1]
  <1> DEFINE args == <<a, b, c>>
  <1>1. args \in Seq(Trees[MaxHeight]) /\ Len(args) = 3
    <2> DEFINE S == Trees[MaxHeight]
    <2> HIDE DEF S
    <2>1. a \in S /\ b \in S /\ c \in S
      BY DEF S
    <2>2. args \in Seq(S) /\ Len(args) = 3
      BY ONLY <2>1
    <2> QED  BY <2>2 DEF S
  <1> HIDE DEF args
  <1>2. "in" \in TreeKinds
    BY DEF TreeKinds, PredicateKinds
  <1>3. Op("in", args).kind = "in" /\ Op("in", args).args = args
    BY DEF Op, Node
  <1>4. Shape(Op("in", args))
    <2> DEFINE t == Op("in", args)
    <2>0. Len(args) >= 1
      BY <1>1
    <2>1. t.kind = "in" /\ Len(t.args) >= 1
      BY <1>3, <2>0, Zenon
    <2> HIDE DEF t
    <2>2. Shape(t)
      BY <2>1, OperatorKinds DEF Shape
    <2> QED  BY <2>2 DEF t
  <1>5. Op("in", args) \in Trees[MaxHeight + 1]
    BY <1>1, <1>2, <1>4, SomeHeight, OpIsTree
  <1> QED  BY <1>5 DEF args

(* The clause of the partitions, when it is bound. *)
LEMMA PartitionBound ==
    ASSUME Sent, partitions # << >>, NEW u \in 0..Len(parameters)
    PROVE  BindClause(PartitionClause.sql, u, parameters) = [sql |-> InPartitions, used |-> u]
  <1> DEFINE p0 == PartitionName(0)
             p1 == PartitionName(1)
             args == <<Col(3), p0, p1>>
             t == Op("in", args)
             A == UnsafeClause.params
             B == PredicateClause.params
             C == PartitionClause.params
  <1>0. Ready /\ InputsOK /\ style = "clickhouse"
    BY DEF Sent, Ready, InputsOK
  <1>1. PartitionClause.sql = t /\ C = <<Parameter(p0, 0), Parameter(p1, 1)>>
    BY <1>0, PartitionParts
  <1>2. ValueNamed(parameters, p0) = 0 /\ ValueNamed(parameters, p1) = 1
    <2>1. SideBySide(parameters, A, B, C)
      BY ParameterParts
    <2> HIDE DEF A, B, C, p0, p1
    <2>2. /\ Len(C) = 2 /\ C[1].name = p0 /\ C[1].value = 0 /\ C[2].name = p1 /\ C[2].value = 1
      BY <1>1 DEF Parameter
    <2> DEFINE x == Len(A) + Len(B) + 1
               y == Len(A) + Len(B) + 2
    <2>3. x \in 1..Len(parameters) /\ y \in 1..Len(parameters)
      BY <2>1, <2>2 DEF SideBySide
    <2>4. parameters[x] = C[1] /\ parameters[y] = C[2]
      BY <2>1, <2>2 DEF SideBySide
    <2> HIDE DEF x, y
    <2>5. /\ ValueNamed(parameters, parameters[x].name) = parameters[x].value
          /\ ValueNamed(parameters, parameters[y].name) = parameters[y].value
      BY <1>0, <2>3, FoundByName
    <2> QED  BY <2>2, <2>4, <2>5
  <1>3. PICK bind : /\ IsBind(bind, parameters, MaxHeight + 1)
                    /\ \A p, v : Bind(p, v, parameters) = bind[MaxHeight + 1][p][v]
    BY BindIs
  <1> DEFINE below == bind[MaxHeight]
             low == bind[MaxHeight - 1]
  <1>4. Col(3) \in Trees[MaxHeight] /\ p0 \in Trees[MaxHeight] /\ p1 \in Trees[MaxHeight]
    BY <1>0, SomeHeight, LeafTrees DEF Col, PartitionName
  <1>5. below[Col(3)][u] = [sql |-> Col(3), used |-> u]
    <2>1. /\ Col(3) = Node(Col(3).kind, Col(3).val, << >>)
          /\ Col(3).kind \notin {"%s", "daft", "partition"}
      BY DEF Col, Node
    <2>2. below[Col(3)][u] = BindNode(Col(3), u, low, parameters)
      BY <1>0, <1>3, <1>4, SomeHeight, BindStep
    <2> QED  BY <2>1, <2>2, BindLeaf
  <1>6. ASSUME NEW k \in {0, 1}
        PROVE  below[PartitionName(k)][u] = [sql |-> Lit(ValueNamed(parameters, PartitionName(k))), used |-> u]
    <2>1. /\ PartitionName(k).kind = "partition" /\ PartitionName(k) # Placeholder
      BY DEF PartitionName, Placeholder, Token, Op, Node
    <2>2. PartitionName(k) \in Trees[MaxHeight]
      BY <1>4
    <2>3. below[PartitionName(k)][u] = BindNode(PartitionName(k), u, low, parameters)
      BY <1>0, <1>3, <2>2, SomeHeight, BindStep
    <2> HIDE DEF low, below
    <2> QED  BY <2>1, <2>3 DEF BindNode
  <1> DEFINE D == <<Col(3), Lit(0), Lit(1)>>
  <1>7. BindArgs(args, u, below) = [args |-> D, used |-> u]
    <2> DEFINE us == [i \in 0..3 |-> u]
               z0 == Lit(0)
               z1 == Lit(1)
               col == Col(3)
    <2>1. /\ below[p0][u] = [sql |-> z0, used |-> u]
          /\ below[p1][u] = [sql |-> z1, used |-> u]
          /\ below[col][u] = [sql |-> col, used |-> u]
      BY <1>2, <1>5, <1>6
    <2> HIDE DEF z0, z1, col, p0, p1, below
    <2>2. Len(args) = 3 /\ args[1] = col /\ args[2] = p0 /\ args[3] = p1
      BY DEF col
    <2>3. D = [i \in 1..3 |-> D[i]] /\ D[1] = col /\ D[2] = z0 /\ D[3] = z1
      BY DEF col, z0, z1
    <2>4. us[0] = u /\ us[1] = u /\ us[2] = u /\ us[3] = u
      OBVIOUS
    <2> HIDE DEF args, D, us
    <2>5. \A i \in 1..3 : below[args[i]][us[i - 1]] = [sql |-> D[i], used |-> us[i]]
      <3>1. \A i \in 1..3 : i = 1 \/ i = 2 \/ i = 3
        OBVIOUS
      <3>2. /\ below[args[1]][us[1 - 1]] = [sql |-> D[1], used |-> us[1]]
            /\ below[args[2]][us[2 - 1]] = [sql |-> D[2], used |-> us[2]]
            /\ below[args[3]][us[3 - 1]] = [sql |-> D[3], used |-> us[3]]
        BY <2>1, <2>2, <2>3, <2>4
      <3> QED  BY <3>1, <3>2
    <2>6. /\ Len(args) \in Nat /\ D = [i \in 1..Len(args) |-> D[i]]
          /\ \A i \in 1..Len(args) : below[args[i]][us[i - 1]] = [sql |-> D[i], used |-> us[i]]
      BY <2>2, <2>3, <2>5
    <2>7. BindArgs(args, u, below) = [args |-> D, used |-> us[Len(args)]]
      BY ONLY <2>4, <2>6, BindArgsFollow
    <2> QED  BY <2>2, <2>4, <2>7
  <1>8. t \in Trees[MaxHeight + 1]
    BY <1>0, <1>4, InTree
  <1>9. t.kind = "in" /\ t.args = args /\ t = [kind |-> "in", val |-> 0, args |-> args] /\ t # Placeholder
    BY DEF Op, Node, Placeholder, Token
  <1>10. BindClause(t, u, parameters) = Bind(t, u, parameters)
    <2> HIDE DEF t
    <2>1. t.kind # "text"
      BY <1>9
    <2> QED  BY <2>1, Zenon DEF BindClause
  <1>11. Bind(t, u, parameters) = BindNode(t, u, below, parameters)
    <2> HIDE DEF t
    <2> QED  BY <1>0, <1>3, <1>8, SomeHeight, BindStep
  <1>12. BindNode(t, u, below, parameters) = [sql |-> Op("in", D), used |-> u]
    <2>1. BindNode(t, u, below, parameters)
          = [sql |-> [t EXCEPT !.args = BindArgs(t.args, u, below).args],
             used |-> BindArgs(t.args, u, below).used]
      <3> HIDE DEF t, below
      <3> QED  BY <1>9 DEF BindNode
    <2> HIDE DEF args, t, D, below
    <2>2. BindNode(t, u, below, parameters) = [sql |-> [t EXCEPT !.args = D], used |-> u]
      BY <1>7, <1>9, <2>1
    <2>3. [t EXCEPT !.args = D] = Op("in", D)
      BY <1>9 DEF Op, Node
    <2> QED  BY <2>2, <2>3
  <1> QED  BY <1>1, <1>10, <1>11, <1>12 DEF InPartitions

(* The clause of the partitions selects the rows of the partitions. *)
LEMMA PartitionsTruth ==
    ASSUME InputsOK, NEW row \in Rows
    PROVE  ClauseTruth(InPartitions, row) = "T" <=> row[3] \in {0, 1}
  <1> DEFINE col == Col(3)
             z0 == Lit(0)
             z1 == Lit(1)
             args == <<col, z0, z1>>
             t == Op("in", args)
  <1>1. col \in Trees[MaxHeight] /\ z0 \in Trees[MaxHeight] /\ z1 \in Trees[MaxHeight]
    BY SomeHeight, LeafTrees DEF Col, Lit
  <1>2. ValueAt(col, row) = row[3] /\ ValueAt(z0, row) = 0 /\ ValueAt(z1, row) = 1
    BY DEF ValueAt, Col, Lit, Node
  <1> HIDE DEF col, z0, z1
  <1>3. DOMAIN args = 1..3 /\ args[1] = col /\ args[2] = z0 /\ args[3] = z1
    OBVIOUS
  <1>4. t \in Trees[MaxHeight + 1]
    BY <1>1, InTree
  <1> HIDE DEF args
  <1>5. t.kind = "in" /\ t.args = args
    BY DEF Op, Node
  <1> HIDE DEF t
  <1>6. PICK sql : IsSql(sql, row, MaxHeight + 1) /\ \A p : SqlTruth(p, row) = sql[MaxHeight + 1][p]
    BY SqlIs
  <1> DEFINE sub == [i \in DOMAIN t.args |-> sql[MaxHeight][t.args[i]]]
             a == [i \in 1..3 |-> ValueAt(args[i], row)]
  <1>7. SqlTruth(t, row) = SqlNode(t, sub, row)
    <2>1. MaxHeight + 1 \in 0..(MaxHeight + 1) /\ MaxHeight + 1 # 0 /\ (MaxHeight + 1) - 1 = MaxHeight
      BY SomeHeight
    <2>2. sql[MaxHeight + 1] = [p \in Trees[MaxHeight + 1] |->
                 SqlNode(p, [i \in DOMAIN p.args |-> sql[MaxHeight][p.args[i]]], row)]
      BY <1>6, <2>1 DEF IsSql
    <2>3. sql[MaxHeight + 1][t] = SqlNode(t, sub, row)
      BY <1>4, <2>2, Zenon
    <2> QED  BY <1>6, <2>3
  <1> HIDE DEF sub
  <1>8. SqlNode(t, sub, row) = Either({Compared("=", a[1], a[i]) : i \in 2..Len(a)})
    BY <1>3, <1>5 DEF SqlNode
  <1>9. Len(a) = 3 /\ a[1] = row[3] /\ a[2] = 0 /\ a[3] = 1
    BY <1>2, <1>3
  <1> HIDE DEF a
  <1>10. SqlTruth(t, row) = SqlIn(row[3], a, 3)
    BY <1>7, <1>8, <1>9 DEF SqlIn
  <1>11. \A i \in 2..3 : i = 2 \/ i = 3
    OBVIOUS
  <1>12. SqlIn(row[3], a, 3) = DaftIn(row[3], a, 3)
    <2>1. \A i \in 2..3 : a[i] # Null
      BY <1>9, <1>11 DEF Null
    <2> QED  BY <2>1, InIsSome
  <1>13. row[3] # Null
    BY DEF Rows
  <1>14. (\E i \in 2..3 : a[i] = row[3]) <=> row[3] \in {0, 1}
    BY <1>9, <1>11
  <1>15. DaftIn(row[3], a, 3) = "T" <=> row[3] \in {0, 1}
    BY <1>13, <1>14 DEF DaftIn, Truth
  <1>16. ClauseTruth(t, row) = SqlTruth(t, row)
    BY <1>5 DEF ClauseTruth
  <1>17. InPartitions = t
    BY DEF InPartitions, t, args, col, z0, z1
  <1> QED  BY <1>10, <1>12, <1>15, <1>16, <1>17

(* The projection binds nothing. *)
LEMMA SelectBound ==
    ASSUME InputsOK, NEW ps
    PROVE  \E b : BindClause(Op("text", QuotedColumn), 0, ps) = [sql |-> b, used |-> 0]
  <1> DEFINE T == {Backtick, Token("c"), Percent}
             s == <<Backtick>>
             done == Format(QuotedColumn, 0, ps)
  <1>1. Backtick \in T /\ Token("c") \in T /\ Percent \in T /\ Placeholder \notin T
    BY TokensApart
  <1> HIDE DEF T
  <1>2. column \in Seq(T)
    <2>1. ASSUME NEW kinds, kinds \in {<<"c">>, <<"c", "%">>} PROVE Tokens(kinds) \in Seq(T)
      <3>1. /\ Len(kinds) \in Nat /\ DOMAIN kinds = 1..Len(kinds)
            /\ \A i \in 1..Len(kinds) : kinds[i] = "c" \/ kinds[i] = "%"
        <4>1. CASE kinds = <<"c">>
          BY <4>1
        <4>2. CASE kinds = <<"c", "%">>
          BY <4>2
        <4> QED  BY <2>1, <4>1, <4>2
      <3> DEFINE f == Tokens(kinds)
      <3>2. f = [i \in 1..Len(kinds) |-> Token(kinds[i])]
        BY <3>1 DEF Tokens
      <3>3. \A i \in 1..Len(kinds) : Token(kinds[i]) \in T
        BY <1>1, <3>1 DEF Percent
      <3> HIDE DEF f
      <3>4. f \in Seq(T)
        BY <3>1, <3>2, <3>3
      <3> QED  BY <3>4 DEF f
    <2> QED  BY <2>1 DEF InputsOK
  <1>3. s \in Seq(T)
    BY <1>1, ShortSequences
  <1>4. QuotedColumn \in Seq(T)
    <2> HIDE DEF s
    <2>1. s \o column \in Seq(T)
      BY <1>2, <1>3, ConcatenationParts
    <2>2. (s \o column) \o s \in Seq(T)
      BY <1>3, <2>1, ConcatenationParts
    <2> QED  BY <2>2 DEF QuotedColumn, s
  <1>5. Len(QuotedColumn) \in Nat /\ \A i \in 1..Len(QuotedColumn) : QuotedColumn[i] # Placeholder
    <2> DEFINE q == QuotedColumn
    <2> HIDE DEF q
    <2>1. q \in Seq(T)
      BY <1>4 DEF q
    <2>2. Len(q) \in Nat /\ \A i \in 1..Len(q) : q[i] # Placeholder
      BY <1>1, <2>1
    <2> QED  BY <2>2 DEF q
  <1>6. done.used = 0
    BY <1>5, FormatKeepsCount
  <1>7. Op("text", QuotedColumn).kind = "text" /\ Op("text", QuotedColumn).args = QuotedColumn
    BY DEF Op, Node
  <1>8. BindClause(Op("text", QuotedColumn), 0, ps) = [sql |-> Op("text", done.text), used |-> done.used]
    BY <1>7, Zenon DEF BindClause
  <1> HIDE DEF done
  <1> QED  BY <1>6, <1>8

\* The clauses as they are sent, and as the database reads them
SentFragment == IF fragment # << >> THEN <<Op("text", UnsafeClause.text)>> ELSE << >>
SentPredicate == IF predicate # Unsupported THEN <<PredicateClause.sql>> ELSE << >>
SentPartitions == IF partitions # << >> THEN <<PartitionClause.sql>> ELSE << >>

FragmentText == Op("text", <<Column1, Lit(ValueNamed(query, P))>>)

BoundFragment == IF fragment # << >> THEN <<FragmentText>> ELSE << >>
BoundPredicate == IF predicate # Unsupported THEN <<predicate>> ELSE << >>
BoundPartitions == IF partitions # << >> THEN <<InPartitions>> ELSE << >>

(* Clauses one after the other. *)
Associative(A, B, C, D) == A \o ((B \o C) \o D) = ((A \o B) \o C) \o D

(* Joining three sequences from the left or from the right. *)
JoinsAlike(A, B, C) == (A \o B) \o C = A \o (B \o C)

(* Three sequences side by side. *)
LEMMA ThreeJoined ==
    ASSUME NEW X, NEW A \in Seq(X), NEW B \in Seq(X), NEW C \in Seq(X)
    PROVE  JoinsAlike(A, B, C)
  BY ConcatAssociative, SMTT(60) DEF JoinsAlike

(* Four sequences side by side, however they are put together. *)
LEMMA FourParts ==
    ASSUME NEW X, NEW A \in Seq(X), NEW B \in Seq(X), NEW C \in Seq(X), NEW D \in Seq(X)
    PROVE  Associative(A, B, C, D)
  <1>1. B \o C \in Seq(X)
    BY ConcatenationParts
  <1>2. JoinsAlike(A, B \o C, D) /\ JoinsAlike(A, B, C)
    <2> DEFINE E == B \o C
    <2> HIDE DEF E
    <2>1. E \in Seq(X)
      BY <1>1 DEF E
    <2>2. JoinsAlike(A, E, D)
      BY <2>1, ThreeJoined
    <2>3. JoinsAlike(A, B, C)
      BY ThreeJoined
    <2> QED  BY <2>2, <2>3 DEF E
  <1> QED  BY <1>2, Zenon DEF Associative, JoinsAlike

(* Two sequences side by side hold the elements of each. *)
LEMMA RangeOfBoth ==
    ASSUME NEW X, NEW A \in Seq(X), NEW B \in Seq(X)
    PROVE  Range(A) \subseteq Range(A \o B) /\ Range(B) \subseteq Range(A \o B)
  <1> DEFINE C == A \o B
  <1>1. /\ C \in Seq(X) /\ Len(C) = Len(A) + Len(B) /\ Len(A) \in Nat /\ Len(B) \in Nat
        /\ \A x \in 1..Len(A) : C[x] = A[x]
        /\ \A j \in 1..Len(B) : C[Len(A) + j] = B[j]
    BY ConcatenationParts
  <1> HIDE DEF C
  <1>2. DOMAIN A = 1..Len(A) /\ DOMAIN B = 1..Len(B) /\ DOMAIN C = 1..Len(C)
    BY <1>1
  <1>3. \A x \in DOMAIN A : x \in DOMAIN C
    BY <1>1, <1>2
  <1>4. \A x \in DOMAIN B : Len(A) + x \in DOMAIN C
    BY <1>1, <1>2
  <1>5. Range(A) \subseteq Range(C)
    BY <1>1, <1>2, <1>3 DEF Range
  <1>6. Range(B) \subseteq Range(C)
    <2>1. ASSUME NEW x \in DOMAIN B PROVE B[x] \in Range(C)
      <3>1. Len(A) + x \in DOMAIN C /\ C[Len(A) + x] = B[x]
        BY <1>1, <1>2, <1>4
      <3> QED  BY <3>1 DEF Range
    <2> QED  BY <2>1 DEF Range
  <1> QED  BY <1>5, <1>6 DEF C

(* The statement of a source that binds nothing is sent as it is. *)
LEMMA NothingBound ==
    ASSUME Sent, parameters = << >>
    PROVE  /\ SentFragment = BoundFragment /\ SentPredicate = BoundPredicate
           /\ SentPartitions = BoundPartitions
  <1> DEFINE A == UnsafeClause.params
             B == PredicateClause.params
             C == PartitionClause.params
  <1>0. Ready /\ InputsOK /\ style \in Styles
    BY DEF Sent, Ready, InputsOK
  <1>1. A = << >> /\ B = << >> /\ C = << >>
    <2>1. /\ SideBySide(parameters, A, B, C) /\ A \in Seq(AllBindings) /\ B \in Seq(AllBindings)
          /\ C \in Seq(AllBindings)
      BY ParameterParts
    <2> HIDE DEF A, B, C
    <2>2. Len(parameters) = 0
      OBVIOUS
    <2>3. Len(A) = 0 /\ Len(B) = 0 /\ Len(C) = 0
      BY <2>1, <2>2 DEF SideBySide
    <2> QED  BY <2>1, <2>3
  <1>2. SentFragment = BoundFragment
    <2>1. CASE fragment = << >>
      BY <2>1 DEF SentFragment, BoundFragment
    <2>2. CASE fragment # << >>
      <3> DEFINE v == ValueNamed(query, P)
      <3>1. style = "flight"
        <4>1. (\E x : A = <<x>>) \/ style = "flight"
          <5> HIDE DEF v
          <5> QED  BY <1>0, <2>2, FragmentParts, Zenon DEF Styles
        <4>2. \A x : <<x>> # << >>
          OBVIOUS
        <4> HIDE DEF A
        <4> QED  BY <1>1, <4>1, <4>2
      <3>2. UnsafeClause.text = <<Column1, Lit(v)>>
        BY <1>0, <2>2, <3>1, FragmentParts
      <3> HIDE DEF v
      <3> QED  BY <2>2, <3>2 DEF SentFragment, BoundFragment, FragmentText, v
    <2> QED  BY <2>1, <2>2
  <1>3. SentPredicate = BoundPredicate
    <2>1. CASE predicate = Unsupported
      BY <2>1 DEF SentPredicate, BoundPredicate
    <2>2. CASE predicate # Unsupported
      <3>1. PredicateClause.sql = predicate
        BY <1>0, <1>1, <2>2, PredicateParts
      <3> QED  BY <2>2, <3>1 DEF SentPredicate, BoundPredicate
    <2> QED  BY <2>1, <2>2
  <1>4. SentPartitions = BoundPartitions
    <2>1. partitions = << >>
      <3>1. partitions # << >> => \E x, y : C = <<x, y>>
        BY <1>0, PartitionParts, Zenon
      <3>2. \A x, y : <<x, y>> # << >>
        OBVIOUS
      <3> HIDE DEF C
      <3> QED  BY <1>1, <3>1, <3>2
    <2> QED  BY <2>1 DEF SentPartitions, BoundPartitions
  <1> QED  BY <1>2, <1>3, <1>4

(* What the database reads. *)
LEMMA BoundIs ==
    ASSUME Sent
    PROVE  \E b : Bound = ((<<b>> \o BoundFragment) \o BoundPredicate) \o BoundPartitions
  <1> DEFINE s0 == Op("text", select)
             S == <<s0>>
             F == SentFragment
             G == SentPredicate
             H == SentPartitions
             F1 == BoundFragment
             G1 == BoundPredicate
             H1 == BoundPartitions
  <1>0. Ready /\ InputsOK /\ style \in Styles
    BY DEF Sent, Ready, InputsOK
  <1>1. PICK b : BindClause(s0, 0, parameters) = [sql |-> b, used |-> 0]
    BY <1>0, SelectBound DEF Sent
  <1> DEFINE X == {s0, b, Op("text", UnsafeClause.text), PredicateClause.sql, PartitionClause.sql,
                   FragmentText, predicate, InPartitions}
             S1 == <<b>>
  <1>2. /\ S \in Seq(X) /\ F \in Seq(X) /\ G \in Seq(X) /\ H \in Seq(X)
        /\ S1 \in Seq(X) /\ F1 \in Seq(X) /\ G1 \in Seq(X) /\ H1 \in Seq(X)
    <2>1. \A x \in X : <<x>> \in Seq(X)
      <3> HIDE DEF X
      <3> QED  BY ShortSequences
    <2>2. << >> \in Seq(X)
      OBVIOUS
    <2>3. S \in Seq(X) /\ S1 \in Seq(X)
      <3>1. s0 \in X /\ b \in X
        OBVIOUS
      <3> HIDE DEF X
      <3> QED  BY <2>1, <3>1
    <2>4. F \in Seq(X) /\ F1 \in Seq(X)
      <3>1. Op("text", UnsafeClause.text) \in X /\ FragmentText \in X
        OBVIOUS
      <3> HIDE DEF X
      <3> QED  BY <2>1, <2>2, <3>1 DEF SentFragment, BoundFragment
    <2>5. G \in Seq(X) /\ G1 \in Seq(X)
      <3>1. PredicateClause.sql \in X /\ predicate \in X
        OBVIOUS
      <3> HIDE DEF X
      <3> QED  BY <2>1, <2>2, <3>1 DEF SentPredicate, BoundPredicate
    <2>6. H \in Seq(X) /\ H1 \in Seq(X)
      <3>1. PartitionClause.sql \in X /\ InPartitions \in X
        OBVIOUS
      <3> HIDE DEF X
      <3> QED  BY <2>1, <2>2, <3>1 DEF SentPartitions, BoundPartitions
    <2> QED  BY <2>3, <2>4, <2>5, <2>6
  <1>3. where = (F \o G) \o H /\ Statement = S \o where
    BY DEF Sent, Clauses, Statement, SentFragment, SentPredicate, SentPartitions
  <1> HIDE DEF X, S, F, G, H, S1, F1, G1, H1
  <1>4. Statement = ((S \o F) \o G) \o H
    <2>0. S \in Seq(X) /\ F \in Seq(X) /\ G \in Seq(X) /\ H \in Seq(X)
      BY <1>2
    <2>1. Associative(S, F, G, H)
      BY ONLY <2>0, FourParts
    <2> QED  BY <1>3, <2>1, Zenon DEF Associative
  <1>5. CASE parameters = << >>
    <2>1. Bound = Statement
      BY <1>5 DEF Bound
    <2>2. F = F1 /\ G = G1 /\ H = H1
      BY <1>5, NothingBound DEF F, G, H, F1, G1, H1
    <2>3. Bound = ((S \o F1) \o G1) \o H1
      BY <1>4, <2>1, <2>2
    <2> QED  BY <2>3 DEF S, F1, G1, H1
  <1>6. CASE parameters # << >>
    <2> DEFINE bind == [c \in Range(Statement) |->
                           [x \in 0..Len(parameters) |-> BindClause(c, x, parameters)]]
               u1 == After(style, 0, Len(UnsafeClause.params))
               u2 == After(style, u1, Len(PredicateClause.params))
               u3 == IF predicate # Unsupported THEN u2 ELSE u1
    <2>1. Bound = BindArgs(Statement, 0, bind).args
      BY <1>6, Zenon DEF Bound
    <2>2. \A c \in Range(Statement), x \in 0..Len(parameters) : bind[c][x] = BindClause(c, x, parameters)
      OBVIOUS
    <2> HIDE DEF bind
    <2>3. /\ Range(S) \subseteq Range(Statement) /\ Range(F) \subseteq Range(Statement)
          /\ Range(G) \subseteq Range(Statement) /\ Range(H) \subseteq Range(Statement)
      <3> DEFINE SF == S \o F
                 SFG == SF \o G
      <3>1. SF \in Seq(X) /\ Range(S) \subseteq Range(SF) /\ Range(F) \subseteq Range(SF)
        BY <1>2, ConcatenationParts, RangeOfBoth
      <3> HIDE DEF SF
      <3>2. SFG \in Seq(X) /\ Range(SF) \subseteq Range(SFG) /\ Range(G) \subseteq Range(SFG)
        BY <1>2, <3>1, ConcatenationParts, RangeOfBoth
      <3> HIDE DEF SFG
      <3>3. Range(SFG) \subseteq Range(SFG \o H) /\ Range(H) \subseteq Range(SFG \o H)
        BY <1>2, <3>2, RangeOfBoth
      <3>4. Statement = SFG \o H
        BY <1>4 DEF SF, SFG
      <3> QED  BY <3>1, <3>2, <3>3, <3>4
    <2>4. \A x : x \in Range(<<x>>)
      BY DEF Range
    <2>5. /\ Len(parameters) \in Nat /\ 0 \in 0..Len(parameters) /\ u1 \in 0..Len(parameters)
          /\ u3 \in 0..Len(parameters) /\ (fragment = << >> => u1 = 0)
      <3> DEFINE A == UnsafeClause.params
                 B == PredicateClause.params
                 C == PartitionClause.params
      <3>1. SideBySide(parameters, A, B, C)
        BY ParameterParts
      <3>2. fragment = << >> => A = << >>
        BY <1>0, FragmentParts
      <3> HIDE DEF A, B, C
      <3>3. /\ Len(A) \in Nat /\ Len(B) \in Nat /\ Len(C) \in Nat
            /\ Len(parameters) = Len(A) + Len(B) + Len(C)
        BY <3>1 DEF SideBySide
      <3>4. u1 \in {0, Len(A)} /\ u3 \in {0, Len(A), Len(A) + Len(B)}
        BY <3>3 DEF After, A, B
      <3>5. fragment = << >> => u1 = 0
        <4>1. fragment = << >> => Len(A) = 0
          BY <3>2
        <4> QED  BY <3>4, <4>1
      <3> HIDE DEF u1, u3
      <3> QED  BY <3>3, <3>4, <3>5
    <2>6. Binds(S, 0, bind, S1, 0)
      <3>1. s0 \in Range(Statement)
        BY <2>3, <2>4 DEF S
      <3>2. bind[s0][0] = [sql |-> b, used |-> 0]
        BY <1>1, <2>2, <2>5, <3>1
      <3> HIDE DEF s0
      <3> DEFINE us == [i \in 0..1 |-> 0]
      <3>3. Len(S) = 1 /\ Len(S1) = 1 /\ S[1] = s0 /\ S1[1] = b
        BY DEF S, S1
      <3>4. us[0] = 0 /\ us[1] = 0
        OBVIOUS
      <3> HIDE DEF us
      <3>5. \A i \in 1..Len(S) : bind[S[i]][us[i - 1]] = [sql |-> S1[i], used |-> us[i]]
        <4>1. \A i \in 1..Len(S) : i = 1 /\ i - 1 = 0
          BY <3>3
        <4> QED  BY <3>2, <3>3, <3>4, <4>1
      <3> QED  BY <3>3, <3>4, <3>5 DEF Binds
    <2>7. BindsMaybe(F, 0, bind, F1, u1)
      <3>1. CASE fragment = << >>
        <4>1. F = << >> /\ F1 = << >>
          BY <3>1 DEF F, F1, SentFragment, BoundFragment
        <4> QED  BY <2>5, <3>1, <4>1 DEF BindsMaybe
      <3>2. CASE fragment # << >>
        <4> DEFINE x == Op("text", UnsafeClause.text)
        <4>1. F = <<x>> /\ F1 = <<FragmentText>>
          BY <3>2 DEF F, F1, SentFragment, BoundFragment
        <4>2. BindClause(x, 0, parameters) = [sql |-> FragmentText, used |-> u1]
          BY <1>6, <3>2, FragmentBound DEF FragmentText
        <4> HIDE DEF x, u1
        <4>3. x \in Range(Statement)
          BY <2>3, <2>4, <4>1
        <4>4. bind[x][0] = [sql |-> FragmentText, used |-> u1]
          BY <2>2, <2>5, <4>2, <4>3
        <4> QED  BY <4>1, <4>4 DEF BindsMaybe
      <3> QED  BY <3>1, <3>2
    <2>8. BindsMaybe(G, u1, bind, G1, u3)
      <3>1. CASE predicate = Unsupported
        <4>1. G = << >> /\ G1 = << >> /\ u3 = u1
          BY <3>1 DEF G, G1, SentPredicate, BoundPredicate
        <4> QED  BY <4>1 DEF BindsMaybe
      <3>2. CASE predicate # Unsupported
        <4> DEFINE x == PredicateClause.sql
        <4>1. G = <<x>> /\ G1 = <<predicate>> /\ u3 = u2
          BY <3>2 DEF G, G1, SentPredicate, BoundPredicate
        <4>2. BindClause(x, u1, parameters) = [sql |-> predicate, used |-> u2]
          BY <3>2, PredicateBound
        <4> HIDE DEF x, u1, u2, u3
        <4>3. x \in Range(Statement)
          BY <2>3, <2>4, <4>1
        <4>4. bind[x][u1] = [sql |-> predicate, used |-> u3]
          BY <2>2, <2>5, <4>1, <4>2, <4>3
        <4> QED  BY <4>1, <4>4 DEF BindsMaybe
      <3> QED  BY <3>1, <3>2
    <2> HIDE DEF u1, u2, u3
    <2>9. BindsMaybe(H, u3, bind, H1, u3)
      <3>1. CASE partitions = << >>
        <4>1. H = << >> /\ H1 = << >>
          BY <3>1 DEF H, H1, SentPartitions, BoundPartitions
        <4> QED  BY <4>1 DEF BindsMaybe
      <3>2. CASE partitions # << >>
        <4> DEFINE x == PartitionClause.sql
        <4>1. H = <<x>> /\ H1 = <<InPartitions>>
          BY <3>2 DEF H, H1, SentPartitions, BoundPartitions
        <4>2. BindClause(x, u3, parameters) = [sql |-> InPartitions, used |-> u3]
          BY <2>5, <3>2, PartitionBound
        <4> HIDE DEF x
        <4>3. x \in Range(Statement)
          BY <2>3, <2>4, <4>1
        <4>4. bind[x][u3] = [sql |-> InPartitions, used |-> u3]
          BY <2>2, <2>5, <4>2, <4>3
        <4> QED  BY <4>1, <4>4 DEF BindsMaybe
      <3> QED  BY <3>1, <3>2
    <2>10. /\ S \o F \in Seq(X) /\ S1 \o F1 \in Seq(X)
           /\ Binds(S \o F, 0, bind, S1 \o F1, u1)
      BY <1>2, <2>6, <2>7, BindsMore, ConcatenationParts
    <2>11. /\ (S \o F) \o G \in Seq(X) /\ (S1 \o F1) \o G1 \in Seq(X)
           /\ Binds((S \o F) \o G, 0, bind, (S1 \o F1) \o G1, u3)
      <3> DEFINE A == S \o F
                 B == S1 \o F1
      <3> HIDE DEF A, B
      <3>1. A \in Seq(X) /\ B \in Seq(X) /\ Binds(A, 0, bind, B, u1)
        BY <2>10 DEF A, B
      <3>2. /\ A \o G \in Seq(X) /\ B \o G1 \in Seq(X) /\ Binds(A \o G, 0, bind, B \o G1, u3)
        BY <1>2, <2>8, <3>1, BindsMore, ConcatenationParts
      <3> QED  BY <3>2 DEF A, B
    <2>12. Bound = ((S1 \o F1) \o G1) \o H1
      <3> DEFINE A == (S \o F) \o G
                 B == (S1 \o F1) \o G1
      <3> HIDE DEF A, B
      <3>1. A \in Seq(X) /\ B \in Seq(X) /\ Binds(A, 0, bind, B, u3)
        BY <2>11 DEF A, B
      <3>2. /\ A \o H \in Seq(X) /\ B \o H1 \in Seq(X) /\ Binds(A \o H, 0, bind, B \o H1, u3)
        BY <1>2, <2>9, <3>1, BindsMore, ConcatenationParts
      <3>3. BindArgs(A \o H, 0, bind).args = B \o H1
        BY <3>2, BindsAll
      <3>4. Statement = A \o H
        BY <1>4 DEF A
      <3> QED  BY <2>1, <3>3, <3>4 DEF B
    <2> QED  BY <2>12 DEF S1, F1, G1, H1
  <1> QED  BY <1>5, <1>6

(* A clause more to satisfy. *)
LEMMA MoreToSatisfy ==
    ASSUME NEW X, NEW A \in Seq(X), Len(A) >= 1, NEW B \in Seq(X), NEW Good
    PROVE  (\A i \in 2..Len(A \o B) : (A \o B)[i] \in Good) <=>
              /\ \A i \in 2..Len(A) : A[i] \in Good
              /\ \A i \in 1..Len(B) : B[i] \in Good
  <1> DEFINE C == A \o B
             a == Len(A)
             b == Len(B)
  <1>1. /\ C \in Seq(X) /\ Len(C) = a + b /\ a \in Nat /\ b \in Nat
        /\ \A x \in 1..a : C[x] = A[x]
        /\ \A j \in 1..b : C[a + j] = B[j]
    <2>1. A \in Seq(X) /\ B \in Seq(X)
      OBVIOUS
    <2> QED  BY ONLY <2>1, ConcatenationParts
  <1>2. a >= 1
    OBVIOUS
  <1> HIDE DEF C, a, b
  <1>3. ASSUME \A i \in 2..Len(C) : C[i] \in Good
        PROVE  (\A i \in 2..a : A[i] \in Good) /\ (\A i \in 1..b : B[i] \in Good)
    <2>1. ASSUME NEW i \in 2..a PROVE A[i] \in Good
      <3>1. i \in 2..Len(C) /\ i \in 1..a
        BY <1>1, <1>2
      <3> QED  BY <1>1, <1>3, <3>1
    <2>2. ASSUME NEW i \in 1..b PROVE B[i] \in Good
      <3>1. a + i \in 2..Len(C) /\ C[a + i] = B[i]
        BY <1>1, <1>2
      <3> QED  BY <1>3, <3>1
    <2> QED  BY <2>1, <2>2
  <1>4. ASSUME \A i \in 2..a : A[i] \in Good, \A i \in 1..b : B[i] \in Good, NEW i \in 2..Len(C)
        PROVE  C[i] \in Good
    <2>1. CASE i <= a
      <3>1. i \in 2..a /\ i \in 1..a
        BY <1>1, <1>2, <2>1
      <3> QED  BY <1>1, <1>4, <3>1
    <2>2. CASE i > a
      <3>1. i - a \in 1..b /\ a + (i - a) = i
        BY <1>1, <1>2, <2>2
      <3>2. C[a + (i - a)] = B[i - a]
        BY <1>1, <3>1
      <3> QED  BY <1>4, <3>1, <3>2
    <2> QED  BY <1>1, <2>1, <2>2
  <1> QED  BY <1>3, <1>4 DEF C, a, b

(* A clause that may be missing. *)
LEMMA MaybeSatisfied ==
    ASSUME NEW B, NEW x, NEW Good, B = << >> \/ B = <<x>>
    PROVE  (\A i \in 1..Len(B) : B[i] \in Good) <=> (B # << >> => x \in Good)
  <1>1. CASE B = << >>
    BY <1>1
  <1>2. CASE B = <<x>>
    <2>1. Len(B) = 1 /\ B[1] = x /\ B # << >>
      BY <1>2
    <2> QED  BY <2>1
  <1> QED  BY <1>1, <1>2

(* The statement that is run selects the rows it should. *)
LEMMA RunsExactly ==
    ASSUME Sent, NEW row \in Rows
    PROVE  (\A i \in DOMAIN Tail(Bound) : ClauseTruth(Tail(Bound)[i], row) = "T") <=>
              /\ fragment # << >> => Compared(">=", row[1], ValueNamed(query, P)) = "T"
              /\ partitions # << >> => row[3] \in Range(partitions)
              /\ predicate # Unsupported => DaftTruth(filter, row) = "T"
  <1>0. Ready /\ InputsOK /\ predicate = CompileFilter(filter)
    BY DEF Sent, Ready, InputsOK
  <1>1. PICK b : Bound = ((<<b>> \o BoundFragment) \o BoundPredicate) \o BoundPartitions
    BY BoundIs
  <1> DEFINE S == <<b>>
             F == BoundFragment
             G == BoundPredicate
             H == BoundPartitions
             X == {b, FragmentText, predicate, InPartitions}
             Good == {x \in X : ClauseTruth(x, row) = "T"}
             SF == S \o F
             SFG == SF \o G
             Y == SFG \o H
  <1>2. /\ F = << >> \/ F = <<FragmentText>>
        /\ G = << >> \/ G = <<predicate>>
        /\ H = << >> \/ H = <<InPartitions>>
        /\ (F # << >>) <=> fragment # << >>
        /\ (G # << >>) <=> predicate # Unsupported
        /\ (H # << >>) <=> partitions # << >>
    <2>1. \A x : <<x>> # << >>
      OBVIOUS
    <2> QED  BY <2>1, Zenon DEF BoundFragment, BoundPredicate, BoundPartitions
  <1>3. b \in X /\ FragmentText \in X /\ predicate \in X /\ InPartitions \in X
    OBVIOUS
  <1>4. \A x \in X : x \in Good <=> ClauseTruth(x, row) = "T"
    OBVIOUS
  <1>5. Bound = Y
    BY <1>1
  <1> HIDE DEF X, F, G, H, Good
  <1>6. S \in Seq(X) /\ F \in Seq(X) /\ G \in Seq(X) /\ H \in Seq(X) /\ Len(S) = 1
    <2>1. \A x \in X : <<x>> \in Seq(X)
      BY ShortSequences
    <2>2. << >> \in Seq(X)
      OBVIOUS
    <2> QED  BY <1>2, <1>3, <2>1, <2>2
  <1> HIDE DEF S
  <1>7. SF \in Seq(X) /\ Len(SF) >= 1 /\ Len(SF) \in Nat
    <2>1. SF \in Seq(X) /\ Len(SF) = Len(S) + Len(F) /\ Len(F) \in Nat
      BY <1>6, ConcatenationParts
    <2> HIDE DEF SF
    <2> QED  BY <1>6, <2>1
  <1> HIDE DEF SF
  <1>8. SFG \in Seq(X) /\ Len(SFG) >= 1
    <2>1. SFG \in Seq(X) /\ Len(SFG) = Len(SF) + Len(G) /\ Len(G) \in Nat
      BY <1>6, <1>7, ConcatenationParts
    <2> HIDE DEF SFG
    <2> QED  BY <1>7, <2>1
  <1> HIDE DEF SFG
  <1>9. Y \in Seq(X) /\ Len(Y) >= 1
    <2>1. Y \in Seq(X) /\ Len(Y) = Len(SFG) + Len(H) /\ Len(H) \in Nat /\ Len(SFG) \in Nat
      BY <1>6, <1>8, ConcatenationParts
    <2> HIDE DEF Y
    <2> QED  BY <1>8, <2>1
  <1>10. (\A i \in 2..Len(Y) : Y[i] \in Good) <=>
            /\ \A i \in 2..Len(SFG) : SFG[i] \in Good
            /\ partitions # << >> => InPartitions \in Good
    <2>1. (\A i \in 1..Len(H) : H[i] \in Good) <=> (H # << >> => InPartitions \in Good)
      BY <1>2, MaybeSatisfied
    <2>2. (\A i \in 2..Len(Y) : Y[i] \in Good) <=>
             (\A i \in 2..Len(SFG) : SFG[i] \in Good) /\ (\A i \in 1..Len(H) : H[i] \in Good)
      <3>1. SFG \in Seq(X) /\ H \in Seq(X) /\ Len(SFG) >= 1
        BY <1>6, <1>8
      <3> QED  BY <3>1, MoreToSatisfy DEF Y
    <2> HIDE DEF Y
    <2> QED  BY <1>2, <2>1, <2>2
  <1> HIDE DEF Y
  <1>11. (\A i \in 2..Len(SFG) : SFG[i] \in Good) <=>
            /\ \A i \in 2..Len(SF) : SF[i] \in Good
            /\ predicate # Unsupported => predicate \in Good
    <2>1. (\A i \in 1..Len(G) : G[i] \in Good) <=> (G # << >> => predicate \in Good)
      BY <1>2, MaybeSatisfied
    <2>2. (\A i \in 2..Len(SFG) : SFG[i] \in Good) <=>
             (\A i \in 2..Len(SF) : SF[i] \in Good) /\ (\A i \in 1..Len(G) : G[i] \in Good)
      <3>1. SF \in Seq(X) /\ G \in Seq(X) /\ Len(SF) >= 1
        BY <1>6, <1>7
      <3> QED  BY <3>1, MoreToSatisfy DEF SFG
    <2> QED  BY <1>2, <2>1, <2>2
  <1>12. (\A i \in 2..Len(SF) : SF[i] \in Good) <=> (fragment # << >> => FragmentText \in Good)
    <2>1. (\A i \in 1..Len(F) : F[i] \in Good) <=> (F # << >> => FragmentText \in Good)
      BY <1>2, MaybeSatisfied
    <2>2. (\A i \in 2..Len(SF) : SF[i] \in Good) <=>
             (\A i \in 2..Len(S) : S[i] \in Good) /\ (\A i \in 1..Len(F) : F[i] \in Good)
      <3>1. S \in Seq(X) /\ F \in Seq(X) /\ Len(S) >= 1
        BY <1>6
      <3> QED  BY <3>1, MoreToSatisfy DEF SF
    <2>3. \A i \in 2..Len(S) : FALSE
      BY <1>6
    <2> QED  BY <1>2, <2>1, <2>2, <2>3
  <1>13. FragmentText \in Good <=> Compared(">=", row[1], ValueNamed(query, P)) = "T"
    <2> DEFINE v == ValueNamed(query, P)
               s == <<Column1, Lit(v)>>
    <2>1. FragmentText.kind = "text" /\ FragmentText.args = s
      BY DEF FragmentText, Op, Node
    <2>2. Last(s) = Lit(v) /\ Lit(v).val = v
      <3> DEFINE l == Lit(v)
      <3>1. l.val = v
        BY DEF Lit, Node
      <3> HIDE DEF l
      <3>2. Last(<<Column1, l>>) = l
        BY DEF Last
      <3> QED  BY <3>1, <3>2 DEF l
    <2> HIDE DEF v, s
    <2>3. ClauseTruth(FragmentText, row) = Compared(">=", row[1], v)
      BY <2>1, <2>2 DEF ClauseTruth
    <2> QED  BY <1>3, <1>4, <2>3 DEF v
  <1>14. ASSUME predicate # Unsupported PROVE predicate \in Good <=> DaftTruth(filter, row) = "T"
    <2>1. SqlTruth(predicate, row) = DaftTruth(filter, row)
      BY <1>0, <1>14, CompiledMeansTheSame DEF InputsOK
    <2>2. predicate.kind \in PredicateKinds
      <3>1. CompileFilter(filter) # Unsupported
        BY <1>0, <1>14
      <3> QED  BY <1>0, <3>1 DEF CompileFilter
    <2>3. predicate.kind # "text"
      BY <2>2, OperatorKinds DEF PredicateKinds
    <2>4. ClauseTruth(predicate, row) = SqlTruth(predicate, row)
      BY <2>3 DEF ClauseTruth
    <2> QED  BY <1>3, <1>4, <2>1, <2>4
  <1>15. ASSUME partitions # << >>
         PROVE  InPartitions \in Good <=> row[3] \in Range(partitions)
    <2>1. Range(partitions) = {0, 1}
      <3>1. partitions = <<0, 1>>
        BY <1>0, <1>15 DEF InputsOK
      <3> QED  BY <3>1 DEF Range
    <2> QED  BY <1>0, <1>3, <1>4, <2>1, PartitionsTruth
  <1>16. (\A i \in DOMAIN Tail(Y) : ClauseTruth(Tail(Y)[i], row) = "T") <=>
            (\A i \in 2..Len(Y) : Y[i] \in Good)
    <2> DEFINE T == Tail(Y)
    <2>1. T \in Seq(X) /\ Len(T) = Len(Y) - 1 /\ \A i \in 1..Len(T) : T[i] = Y[i + 1]
      <3>1. Y # << >>
        BY <1>9
      <3> QED  BY <1>9, <3>1, HeadTailProperties
    <2> HIDE DEF T
    <2>2. DOMAIN T = 1..Len(T) /\ Len(Y) \in Nat /\ \A i \in 1..Len(Y) : Y[i] \in X
      BY <1>9, <2>1
    <2>3. ASSUME \A i \in DOMAIN T : ClauseTruth(T[i], row) = "T", NEW i \in 2..Len(Y)
          PROVE  Y[i] \in Good
      <3>1. i - 1 \in 1..Len(T) /\ (i - 1) + 1 = i /\ i \in 1..Len(Y)
        BY <2>1, <2>2
      <3>2. T[i - 1] = Y[i] /\ Y[i] \in X
        BY <2>1, <2>2, <3>1
      <3>3. ClauseTruth(T[i - 1], row) = "T"
        BY <2>2, <2>3, <3>1
      <3> QED  BY <1>4, <3>2, <3>3
    <2>4. ASSUME \A i \in 2..Len(Y) : Y[i] \in Good, NEW i \in DOMAIN T
          PROVE  ClauseTruth(T[i], row) = "T"
      <3>1. i + 1 \in 2..Len(Y) /\ i \in 1..Len(T) /\ i + 1 \in 1..Len(Y)
        BY <2>1, <2>2
      <3>2. T[i] = Y[i + 1] /\ Y[i + 1] \in X /\ Y[i + 1] \in Good
        BY <2>1, <2>2, <2>4, <3>1
      <3> QED  BY <1>4, <3>2
    <2> QED  BY <2>3, <2>4 DEF T
  <1> QED  BY <1>5, <1>10, <1>11, <1>12, <1>13, <1>14, <1>15, <1>16

\* Where the statement is on its way
PushdownInv ==
    /\ InputsOK
    /\ step \in {"compile", "render", "refused", "bind", "run", "failed"}
    /\ step # "compile" => predicate = CompileFilter(filter)
    /\ step = "bind" => /\ ~UnsafeClause.refused
                        /\ select = QuotedColumn /\ where = Clauses
                        /\ parameters = UnsafeClause.params \o PredicateClause.params
                                           \o PartitionClause.params

(* build_select is given what the source was configured with. *)
LEMMA PushdownInitially == PushdownInit => PushdownInv /\ PushdownExact
  <1> SUFFICES ASSUME PushdownInit PROVE PushdownInv /\ PushdownExact
    OBVIOUS
  <1>1. step = "compile" /\ style \in Styles /\ (partitions # << >> => style = "clickhouse")
    BY DEF PushdownInit
  <1>2. filter \in Trees[MaxHeight]
    <2>1. filter \in Filters \/ filter \in FewFilters
      BY DEF PushdownInit
    <2> QED  BY <2>1, FiltersAssumption
  <1>3. query \in QueryParameters
    BY Zenon DEF PushdownInit, QueryParameters, FragmentValue
  <1>4. column \in {Tokens(<<"c">>), Tokens(<<"c", "%">>)} /\ partitions \in {<< >>, <<0, 1>>}
    BY Zenon DEF PushdownInit
  <1>5. InputsOK
    BY <1>1, <1>2, <1>3, <1>4, Zenon DEF InputsOK
  <1>6. PushdownInv
    BY <1>1, <1>5 DEF PushdownInv
  <1>7. PushdownExact
    BY <1>1 DEF PushdownExact
  <1> QED  BY <1>6, <1>7

(* Every step keeps it, and only exact statements are run. *)
LEMMA PushdownStep ==
    PushdownInv /\ PushdownExact /\ [PushdownNext]_pushdownVars => PushdownInv' /\ PushdownExact'
  <1> SUFFICES ASSUME PushdownInv, PushdownExact, [PushdownNext]_pushdownVars
               PROVE  PushdownInv' /\ PushdownExact'
    OBVIOUS
  <1> USE DEF inputs
  <1>1. ASSUME inputs' = inputs PROVE InputsOK' /\ Comparison' = Comparison /\ P' = P
    BY <1>1, Zenon DEF PushdownInv, InputsOK, QueryParameters, P, Q, Comparison
  <1>2. ASSUME inputs' = inputs, predicate' = predicate
        PROVE  /\ UnsafeClause' = UnsafeClause /\ PredicateClause' = PredicateClause
               /\ PartitionClause' = PartitionClause /\ Clauses' = Clauses
               /\ QuotedColumn' = QuotedColumn
    <2>1. /\ style' = style /\ fragment' = fragment /\ query' = query /\ column' = column
          /\ partitions' = partitions /\ predicate' = predicate
      BY <1>2
    <2>2. PredicateClause' = PredicateClause
      BY <2>1, Zenon DEF PredicateClause
    <2>3. PartitionClause' = PartitionClause
      BY <2>1, Zenon DEF PartitionClause
    <2>4. BindRequired' = BindRequired
      BY <2>1, <2>2, Zenon DEF BindRequired
    <2>5. UnsafeClause' = UnsafeClause
      BY <2>1, <2>4, Zenon DEF UnsafeClause
    <2>6. Clauses' = Clauses
      BY <2>1, <2>2, <2>3, <2>5, Zenon DEF Clauses
    <2>7. QuotedColumn' = QuotedColumn
      BY <2>1, Zenon DEF QuotedColumn
    <2> QED  BY <2>2, <2>3, <2>5, <2>6, <2>7
  <1>3. CASE Compile
    <2>1. step' = "render" /\ predicate' = CompileFilter(filter') /\ inputs' = inputs
      BY <1>3 DEF Compile
    <2>2. PushdownInv'
      BY <1>1, <2>1 DEF PushdownInv
    <2> QED  BY <2>1, <2>2 DEF PushdownExact
  <1>4. CASE BuildSelect
    <2>1. step = "render" /\ step' = "bind" /\ inputs' = inputs /\ predicate' = predicate
      BY <1>4 DEF BuildSelect
    <2>2. /\ ~UnsafeClause.refused /\ select' = QuotedColumn /\ where' = Clauses
          /\ parameters' = UnsafeClause.params \o PredicateClause.params \o PartitionClause.params
      BY <1>4 DEF BuildSelect
    <2>3. predicate' = CompileFilter(filter')
      BY <2>1 DEF PushdownInv
    <2>4. /\ UnsafeClause' = UnsafeClause /\ PredicateClause' = PredicateClause
          /\ PartitionClause' = PartitionClause /\ Clauses' = Clauses
          /\ QuotedColumn' = QuotedColumn /\ InputsOK'
      BY <1>1, <1>2, <2>1
    <2>5. PushdownInv'
      BY <2>1, <2>2, <2>3, <2>4, Zenon DEF PushdownInv
    <2> QED  BY <2>1, <2>5 DEF PushdownExact
  <1>5. CASE RefuseSelect
    <2>1. step = "render" /\ step' = "refused" /\ inputs' = inputs /\ predicate' = predicate
      BY <1>5 DEF RefuseSelect
    <2>2. PushdownInv'
      BY <1>1, <2>1 DEF PushdownInv
    <2> QED  BY <2>1, <2>2 DEF PushdownExact
  <1>6. CASE Execute
    <2>1. /\ step = "bind" /\ step' \in {"failed", "run"} /\ where' = Tail(Bound)
          /\ inputs' = inputs /\ predicate' = predicate
      BY <1>6 DEF Execute
    <2>2. PushdownInv'
      BY <1>1, <2>1 DEF PushdownInv
    <2>3. PushdownExact'
      <3> SUFFICES ASSUME step' = "run", fragment' \in {<< >>, Comparison'}, NEW row \in Rows
                   PROVE  (\A i \in DOMAIN where' : ClauseTruth(where'[i], row) = "T") <=>
                            /\ fragment' # << >> =>
                                   Compared(">=", row[1], ValueNamed(query', P')) = "T"
                            /\ partitions' # << >> => row[3] \in Range(partitions')
                            /\ predicate' # Unsupported => DaftTruth(filter', row) = "T"
        BY DEF PushdownExact
      <3>1. Sent
        BY <1>1, <2>1 DEF PushdownInv, Sent, Ready
      <3>2. (\A i \in DOMAIN Tail(Bound) : ClauseTruth(Tail(Bound)[i], row) = "T") <=>
              /\ fragment # << >> => Compared(">=", row[1], ValueNamed(query, P)) = "T"
              /\ partitions # << >> => row[3] \in Range(partitions)
              /\ predicate # Unsupported => DaftTruth(filter, row) = "T"
        BY <3>1, RunsExactly
      <3>3. /\ fragment' = fragment /\ query' = query /\ P' = P /\ partitions' = partitions
            /\ predicate' = predicate /\ filter' = filter /\ where' = Tail(Bound)
        BY <1>1, <2>1
      <3> QED  BY <3>2, <3>3, Zenon
    <2> QED  BY <2>2, <2>3
  <1>7. CASE UNCHANGED pushdownVars
    <2>1. /\ inputs' = inputs /\ predicate' = predicate /\ step' = step /\ select' = select
          /\ where' = where /\ parameters' = parameters
      BY <1>7 DEF pushdownVars
    <2>2. PushdownInv'
      <3>1. /\ UnsafeClause' = UnsafeClause /\ PredicateClause' = PredicateClause
            /\ PartitionClause' = PartitionClause /\ Clauses' = Clauses
            /\ QuotedColumn' = QuotedColumn /\ InputsOK'
        BY <1>1, <1>2, <2>1
      <3> QED  BY <2>1, <3>1, Zenon DEF PushdownInv
    <2>3. PushdownExact'
      BY <1>1, <2>1, Zenon DEF PushdownExact
    <2> QED  BY <2>2, <2>3
  <1> QED  BY <1>3, <1>4, <1>5, <1>6, <1>7 DEF PushdownNext

(* Whatever filter Daft pushes down, however deep it is nested, whatever the
   dialect and whichever clauses bind parameters besides it, a statement that
   is run selects exactly the rows that the trusted fragment, the split and the
   filter accept. *)
THEOREM PushdownExactly == PushdownSpec => []PushdownExact
  <1>1. PushdownInit => PushdownInv /\ PushdownExact
    BY PushdownInitially
  <1>2. PushdownInv /\ PushdownExact /\ [PushdownNext]_pushdownVars => PushdownInv' /\ PushdownExact'
    BY PushdownStep
  <1> QED  BY <1>1, <1>2, PTL DEF PushdownSpec
=============================================================================
