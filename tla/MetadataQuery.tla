---------------------------- MODULE MetadataQuery ----------------------------
(***************************************************************************)
(* The synchronous metadata queries: discover_schema of both connectors,   *)
(* _materialize_plan_sql and discover_tablets of Doris, and                *)
(* discover_partitions of ClickHouse, with the translation of the errors   *)
(* they meet.  Each opens its own connection, client or HTTP response, may *)
(* fail at every call, and closes what it opened in `finally` or `with`.   *)
(*                                                                         *)
(* An exception is a class, and the signals that the structured fields of  *)
(* a driver error (vendor code, status, SQLSTATE, code, name) carry: an    *)
(* error may carry several of them.  "interrupt" stands for the            *)
(* BaseExceptions that are no Exceptions.                                  *)
(***************************************************************************)
EXTENDS Naturals, FiniteSets, FiniteSetsExt

CONSTANT MaxBody       \* _MAX_QUERY_PLAN_RESPONSE_BYTES

ASSUME MaxBodyPositive == MaxBody \in Nat \ {0}

VARIABLES op,          \* the function that runs
          pc,          \* its next step
          asked,       \* queries answered so far
          conn,        \* connection, client or response
          cursor,
          inflight,    \* the exception that has left the try block
          closeFailed, \* a close raised
          cut,         \* history: an interrupt hit the closing itself
          httpStatus,  \* of the planning endpoint: "none", "2xx" or an error
          response,    \* the body it sent
          tablets,     \* the tablets discover_tablets returns
          outcome      \* "value", or the class of the exception raised

plan == <<httpStatus, response, tablets>>
vars == <<op, pc, asked, conn, cursor, inflight, closeFailed, cut, plan, outcome>>

Ops == {"doris_schema", "doris_bind", "doris_plan", "clickhouse_schema",
        "clickhouse_partitions"}

Signals == {"AuthenticationError", "DatabasePermissionError",
            "DatabaseObjectNotFoundError"}

Error(class, signals) == [class |-> class, signals |-> signals]
NoError == Error("none", {})
Connector(classes) == {Error(c, {}) : c \in classes}
DriverErrors == {Error("driver", s) : s \in SUBSET Signals}
Interrupt == Error("interrupt", {})

IsSchema == op \in {"doris_schema", "clickhouse_schema"}
IsDoris == op \in {"doris_schema", "doris_bind"}

\* Keys of the partitions object, and the tablet id that int() makes of
\* them; 0 stands for one that is refused, not an integer or not positive
RawIds == {"1", "01", "2", "-1", "x"}
TabletId(raw) == CASE raw \in {"1", "01"} -> 1 [] raw = "2" -> 2 [] OTHER -> 0

\* The members of the JSON document that are looked at; FALSE for a member that
\* is missing or of another type
Payloads ==
    [object : BOOLEAN, code : {"0", "401", "other"}, data : BOOLEAN,
     status : {"200", "1", "other"}, exception : {"denied", "unknown", "other"},
     partitions : BOOLEAN, ids : SUBSET RawIds]

\* FE sends `size` bytes before it closes the connection, maybe fewer than the
\* JSON document has (0: none), maybe others after it
Responses ==
    [size : 0..(MaxBody + 2), document : 0..(MaxBody + 1), tail : {"blank", "text"},
     payload : Payloads]
NoPayload == CHOOSE p \in Payloads : ~p.object
NoResponse == [size |-> 0, document |-> 0, tail |-> "none", payload |-> NoPayload]

ErrorStatuses == {"401", "403", "other"}

TypeOK ==
    /\ op \in Ops
    /\ pc \in {"connect", "cursor", "query", "fetch", "interpret", "request", "read",
               "parse", "close_cursor", "close_conn", "end", "done"}
    /\ asked \in 0..3
    /\ conn \in {"none", "open", "closed"} /\ cursor \in {"none", "open", "closed"}
    /\ closeFailed \in BOOLEAN /\ cut \in BOOLEAN
    /\ httpStatus \in ErrorStatuses \cup {"none", "2xx"}
    /\ response \in Responses \cup {NoResponse} /\ tablets \subseteq 1..2

Init ==
    /\ op \in Ops
    /\ pc = IF op = "doris_plan" THEN "request" ELSE "connect"
    /\ asked = 0
    /\ conn = "none"
    /\ cursor = "none"
    /\ inflight = NoError
    /\ closeFailed = FALSE
    /\ cut = FALSE
    /\ httpStatus = "none"
    /\ response = NoResponse
    /\ tablets = {}
    /\ outcome = "none"

-----------------------------------------------------------------------------
(* The try block *)

\* The finally of the function: Doris closes its cursor first
Finally == pc' = IF IsDoris THEN "close_cursor" ELSE "close_conn"

\* A call raises one of `errors`, or is interrupted
Raises(errors) ==
    /\ inflight' \in errors \cup {Interrupt}
    /\ Finally

\* Import of the driver, secret and options, and the connect itself
Connect ==
    /\ pc = "connect"
    /\ \/ /\ conn' = "open"
          /\ pc' = IF IsDoris THEN "cursor" ELSE "query"
          /\ UNCHANGED inflight
       \/ /\ Raises(DriverErrors \cup Connector({"DependencyError",
                                                 "ConfigurationError"}))
          /\ UNCHANGED conn
    /\ UNCHANGED <<op, plan, asked, cursor, closeFailed, cut, outcome>>

OpenCursor ==
    /\ pc = "cursor"
    /\ \/ cursor' = "open" /\ pc' = "query" /\ UNCHANGED inflight
       \/ Raises(DriverErrors) /\ UNCHANGED cursor
    /\ UNCHANGED <<op, plan, asked, conn, closeFailed, cut, outcome>>

\* execute, mogrify or a query of the client.  Binding is done with mogrify.
Query ==
    /\ pc = "query"
    /\ \/ /\ asked' = asked + 1
          /\ CASE op = "doris_schema" -> pc' = "fetch"
               [] op = "doris_bind" -> Finally
               [] OTHER -> pc' = "interpret"
          /\ UNCHANGED inflight
       \/ Raises(DriverErrors) /\ UNCHANGED asked
    /\ UNCHANGED <<op, plan, conn, cursor, closeFailed, cut, outcome>>

\* fetchmany until it is empty; a batch that is not changes nothing here
FetchRows ==
    /\ pc = "fetch"
    /\ \/ pc' = "interpret" /\ UNCHANGED inflight
       \/ Raises(DriverErrors)
    /\ UNCHANGED <<op, plan, asked, conn, cursor, closeFailed, cut, outcome>>

\* Number of answers a function needs, and from which on it may be content
Needed == CASE op = "doris_schema" -> 1
            [] op = "clickhouse_schema" -> 2
            [] op = "clickhouse_partitions" -> 3

MayStop == asked = Needed \/ op = "clickhouse_partitions"

\* What may be wrong with an answer, unforeseen errors of the code included
Objections ==
    {Error("driver", {})} \cup
    CASE IsSchema -> Connector({"SchemaError", "CompatibilityError"})
      [] op = "clickhouse_partitions" /\ asked = 1 ->
            Connector({"DiscoveryError", "DatabaseObjectNotFoundError"})
      [] OTHER -> Connector({"DiscoveryError"})

Interpret ==
    /\ pc = "interpret"
    /\ \/ asked < Needed /\ pc' = "query" /\ UNCHANGED inflight
       \/ MayStop /\ Finally /\ UNCHANGED inflight
       \/ Raises(Objections)
    /\ UNCHANGED <<op, plan, asked, conn, cursor, closeFailed, cut, outcome>>

-----------------------------------------------------------------------------
(* discover_tablets *)

\* except HTTPError
HttpClass(status) ==
    CASE status = "401" -> "AuthenticationError"
      [] status = "403" -> "DatabasePermissionError"
      [] OTHER -> "DiscoveryError"

\* TimeoutError, URLError and OSError; an HTTPException of http.client (a bad
\* status line, an incomplete chunked body) is none of them
NetworkClasses == {"DiscoveryError", "HTTPException"}

PlanRaises(class) ==
    /\ inflight' = Error(class, {class} \cap Signals)
    /\ pc' = "end"
    /\ UNCHANGED tablets

PlanInterrupted == PlanRaises("interrupt")

\* Redirects are refused, so that a 3xx is an HTTPError as well.  An HTTPError
\* is itself the open response, which the `with` never sees: the handler reads
\* its code and leaves it open.
Request ==
    /\ pc = "request"
    /\ \/ /\ conn' = "open"
          /\ httpStatus' = "2xx"
          /\ pc' = "read"
          /\ UNCHANGED <<inflight, tablets>>
       \/ /\ conn' = "open"
          /\ httpStatus' \in ErrorStatuses
          /\ PlanRaises(HttpClass(httpStatus'))
       \/ /\ \/ PlanRaises("ConfigurationError") \/ PlanInterrupted
             \/ \E c \in NetworkClasses : PlanRaises(c)
          /\ UNCHANGED <<conn, httpStatus>>
    /\ UNCHANGED <<op, asked, cursor, closeFailed, cut, response, outcome>>

\* Mutant: not a byte more than the limit is read
ReadLimitExact == MaxBody

\* Number of bytes asked for: one more than may be there
ReadLimit == MaxBody + 1

Body == Min({response.size, ReadLimit})

\* Status and bounded body; the `with` closes the response either way
ReadBody ==
    /\ pc = "read"
    /\ conn' = "closed"
    /\ \/ /\ response' \in Responses
          /\ \/ Body' > MaxBody /\ PlanRaises("DiscoveryError")
             \/ Body' <= MaxBody /\ pc' = "parse" /\ UNCHANGED <<inflight, tablets>>
       \/ /\ \/ \E c \in NetworkClasses : PlanRaises(c)   \* or a status but 200
             \/ PlanInterrupted
          /\ UNCHANGED response
    /\ UNCHANGED <<op, asked, cursor, closeFailed, cut, httpStatus, outcome>>

\* json.loads of what was read: a document that is cut short, or followed by
\* anything but blanks, is no document
Decodes ==
    /\ response.document \in 1..Body
    /\ response.document = Body \/ response.tail = "blank"

TabletIdsValid(ids) ==
    /\ \A raw \in ids : TabletId(raw) > 0
    /\ \A raw, other \in ids : raw # other => TabletId(raw) # TabletId(other)

\* _raise_query_plan_rejection
Rejection(exception) ==
    CASE exception = "denied" -> "DatabasePermissionError"
      [] exception = "unknown" -> "DatabaseObjectNotFoundError"
      [] OTHER -> "DiscoveryError"

\* parse_query_plan_response: "value", or the class it raises
Verdict(p) ==
    CASE p.object /\ p.code = "401" -> "AuthenticationError"
      [] p.object /\ p.code = "0" /\ p.data /\ p.status = "1" -> Rejection(p.exception)
      [] p.object /\ p.code = "0" /\ p.data /\ p.status = "200"
            /\ p.partitions /\ TabletIdsValid(p.ids) -> "value"
      [] OTHER -> "DiscoveryError"

\* The decoder gives up on a document that is nested too deeply, which is not a
\* JSONDecodeError, sound or not (nor is the ValueError over the digits of an
\* integer, which goes the same way)
DecoderGivesUp == Body > 0 /\ PlanRaises("RecursionError")

ParsePlan ==
    /\ pc = "parse"
    /\ \/ ~Decodes /\ PlanRaises("DiscoveryError")
       \/ Decodes /\ Verdict(response.payload) # "value"
              /\ PlanRaises(Verdict(response.payload))
       \/ /\ Decodes /\ Verdict(response.payload) = "value"
          /\ tablets' = {TabletId(raw) : raw \in response.payload.ids}
          /\ pc' = "end"
          /\ UNCHANGED inflight
       \/ DecoderGivesUp
       \/ PlanInterrupted
    /\ UNCHANGED <<op, asked, conn, cursor, closeFailed, cut, httpStatus, response,
                   outcome>>

-----------------------------------------------------------------------------
(* The except and finally clauses *)

\* What a failure is reported as if nothing else is known about it
Own == IF IsSchema THEN "SchemaError" ELSE "DiscoveryError"

\* translate_doris_error and translate_clickhouse_error
Translated(signals) ==
    CASE "AuthenticationError" \in signals -> "AuthenticationError"
      [] "AuthenticationError" \notin signals
            /\ "DatabasePermissionError" \in signals -> "DatabasePermissionError"
      [] signals = {"DatabaseObjectNotFoundError"} -> "DatabaseObjectNotFoundError"
      [] OTHER -> Own

\* Mutant: discovery lets the same classes pass as schema discovery
PassedOnNarrow(class) ==
    class \in {"CompatibilityError", "DependencyError", "SchemaError",
               "DiscoveryError"}

\* The first except clause: errors of the connector go through as they are
PassedOn(class) ==
    IF IsSchema THEN class \in {"CompatibilityError", "DependencyError", "SchemaError"}
    ELSE class # "driver"

Reported(error) ==
    CASE error.class = "interrupt" -> "interrupt"
      [] error.class # "interrupt" /\ PassedOn(error.class) -> error.class
      [] OTHER -> Translated(error.signals)

\* close() of one resource: it may raise, which is remembered; an interrupt
\* is not caught and ends the function
CloseOne(handle, then) ==
    \/ /\ closeFailed' \in {closeFailed, closeFailed \/ handle = "open"}
       /\ pc' = then
       /\ UNCHANGED <<cut, outcome>>
    \/ /\ handle = "open"
       /\ cut' = TRUE
       /\ outcome' = "interrupt"
       /\ pc' = "done"
       /\ UNCHANGED closeFailed

Closed(handle) == IF handle = "open" THEN "closed" ELSE handle

\* Mutant: a failing close of the cursor ends the loop over the resources
CloseCursorStops ==
    /\ pc = "close_cursor"
    /\ cursor' = Closed(cursor)
    /\ \/ CloseOne("none", "close_conn")
       \/ /\ cursor = "open"
          /\ closeFailed' = TRUE
          /\ pc' = "end"
          /\ UNCHANGED <<cut, outcome>>
    /\ UNCHANGED <<op, plan, asked, conn, inflight>>

CloseCursor ==
    /\ pc = "close_cursor"
    /\ cursor' = Closed(cursor)
    /\ CloseOne(cursor, "close_conn")
    /\ UNCHANGED <<op, plan, asked, conn, inflight>>

CloseConnection ==
    /\ pc = "close_conn"
    /\ conn' = Closed(conn)
    /\ CloseOne(conn, "end")
    /\ UNCHANGED <<op, plan, asked, cursor, inflight>>

\* Mutant: a failing close wins over the failure before it
EndOfMasking ==
    CASE closeFailed -> Own
      [] ~closeFailed /\ inflight # NoError -> Reported(inflight)
      [] OTHER -> "value"

\* The exception in flight, or the failure to close, or the value
EndOf ==
    CASE inflight # NoError -> Reported(inflight)
      [] inflight = NoError /\ closeFailed -> Own
      [] OTHER -> "value"

End ==
    /\ pc = "end"
    /\ outcome' = EndOf
    /\ pc' = "done"
    /\ UNCHANGED <<op, plan, asked, conn, cursor, inflight, closeFailed, cut>>

Next ==
    \/ Connect \/ OpenCursor \/ Query \/ FetchRows \/ Interpret
    \/ Request \/ ReadBody \/ ParsePlan
    \/ CloseCursor \/ CloseConnection \/ End

Spec == Init /\ [][Next]_vars

-----------------------------------------------------------------------------
(* Properties *)

(* Whatever failed, a function closes what it opened, the cursor before its
   connection, with two exceptions: an interrupt of the closing itself, and the
   response of a planning endpoint that answered with an HTTP error status,
   which stays open inside the HTTPError until that is collected. *)
ResourcesReturned ==
    /\ conn # "open" => cursor # "open"
    /\ pc = "done" /\ ~cut => (conn = "open" <=> httpStatus \in ErrorStatuses)

(* A failure that the database gave a reason for that no fallback can help
   (credentials, privileges, a missing object) never ends as the class that
   get_tasks falls back on, or as a value: wherever it was met, and also when
   the closing fails after it. *)
FatalStaysFatal ==
    pc = "done" /\ ~cut
        /\ (inflight.signals # {} \/ inflight.class \in Signals) =>
            outcome \in Signals

(* A value means that every step and the closing worked; an interrupt goes
   through untouched; a failure to close shows exactly when it is the only
   failure. *)
FailureVisible ==
    pc = "done" =>
        /\ outcome = "value" => inflight = NoError /\ ~closeFailed
        /\ inflight = Interrupt => outcome = "interrupt"
        /\ inflight.class \in {"DependencyError", "CompatibilityError"} /\ ~cut
              => outcome = inflight.class
        /\ inflight = NoError /\ closeFailed /\ ~cut => outcome = Own

(* A plan is returned for exactly the answers that are sound as a whole: not one
   byte over the limit, one JSON document that arrived in full with nothing but
   blanks behind it, an accepted envelope, and as many tablets as entries.  A
   body that was cut, by FE or by the limit, never yields some of the tablets,
   and one of exactly the limit is not refused, unless the decoder gives up. *)
PlanExact ==
    pc = "done" /\ response # NoResponse
            /\ outcome \notin {"interrupt", "RecursionError"} =>
        LET p == response.payload
            complete == /\ response.size <= MaxBody
                        /\ response.document \in 1..response.size
                        /\ response.document < response.size => response.tail = "blank"
            accepted == p.object /\ p.data /\ p.partitions /\ p.code = "0"
                           /\ p.status = "200"
            ids == {TabletId(raw) : raw \in p.ids}
            valid == 0 \notin ids /\ Cardinality(ids) = Cardinality(p.ids)
        IN /\ outcome = "value" <=> complete /\ accepted /\ valid
           /\ outcome = "value" => tablets = ids

(* "DiscoveryError: recoverable split metadata or a planning endpoint failed
   or returned invalid data" *)
PlanningFailuresReported == outcome \notin {"HTTPException", "RecursionError"}
=============================================================================
