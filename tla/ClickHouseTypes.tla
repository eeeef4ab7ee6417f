--------------------------- MODULE ClickHouseTypes ---------------------------
(***************************************************************************)
(* The type parser of clickhouse/schema.py: split_type_arguments,          *)
(* parse_clickhouse_type, _validate_type_expression and                    *)
(* _transport_type_expression.                                             *)
(*                                                                         *)
(* A declaration is a sequence of tokens: a word (a type or field name of  *)
(* any length), a number, a bracket, a comma, a quote, a backslash, white  *)
(* space, or other text.                                                   *)
(***************************************************************************)
EXTENDS Integers, Sequences, SequencesExt

\* One of each group that the code treats alike
UnsupportedSimple == {"Int256"}
SimpleTypes == {"Int8", "String", "Date", "Date32", "UUID"} \cup UnsupportedSimple
TextTransportTypes == {"Enum8", "UUID"}
Wrappers == {"Nullable", "Array"}
DecimalScaleLimits == [Decimal32 |-> 9, Decimal64 |-> 18]
SingleIntegerTypes == {"FixedString"} \cup DOMAIN DecimalScaleLimits
MaxDecimalPrecision == 38
MaxDateTime64Precision == 9

TypeNames ==
    SimpleTypes \cup Wrappers \cup SingleIntegerTypes
        \cup {"Map", "Tuple", "Decimal", "Decimal256", "DateTime", "DateTime64", "Enum8"}
Words == TypeNames \cup {"f"}

\* _INTEGER
IntOf == [n0 |-> 0, n1 |-> 1, n9 |-> 9, n10 |-> 10, n18 |-> 18, n38 |-> 38, n39 |-> 39]
IsInteger(t) == Len(t) = 1 /\ t[1] \in DOMAIN IntOf

\* _TIME_ZONE
IsTimeZone(t) == t = <<"quote", "zone", "quote">>

QuoteMarks == {"quote", "backtick"}
TypeTokens == Words \cup DOMAIN IntOf \cup QuoteMarks
            \cup {"(", ")", ",", "backslash", "space", "zone"}

\* str.strip
Strip(t) ==
    LET solid == {i \in DOMAIN t : t[i] # "space"}
    IN  IF solid = {} THEN << >> ELSE SubSeq(t, Min(solid), Max(solid))

-----------------------------------------------------------------------------
(* split_type_arguments *)

SplitInit == [parts |-> << >>, part |-> << >>, depth |-> 0, quote |-> "none",
              escaped |-> FALSE, bad |-> FALSE]

\* Mutant: quoted text is scanned like any other
SplitNextUnquoted(s, c) ==
    CASE c = "(" -> [s EXCEPT !.part = Append(@, c), !.depth = @ + 1]
      [] c = ")" -> [s EXCEPT !.part = Append(@, c), !.depth = @ - 1,
                              !.bad = @ \/ s.depth = 0]
      [] c = "," /\ s.depth = 0 ->
            [s EXCEPT !.parts = Append(@, Strip(s.part)), !.part = << >>,
                      !.bad = @ \/ Strip(s.part) = << >>]
      [] OTHER -> [s EXCEPT !.part = Append(@, c)]

\* One round of the loop
SplitNext(s, c) ==
    CASE s.quote # "none" ->
            [s EXCEPT !.part = Append(@, c),
                      !.escaped = ~s.escaped /\ c = "backslash",
                      !.quote = IF ~s.escaped /\ c = s.quote THEN "none" ELSE @]
      [] s.quote = "none" /\ c \in QuoteMarks ->
            [s EXCEPT !.part = Append(@, c), !.quote = c]
      [] s.quote = "none" /\ c = "(" ->
            [s EXCEPT !.part = Append(@, c), !.depth = @ + 1]
      [] s.quote = "none" /\ c = ")" ->
            [s EXCEPT !.part = Append(@, c), !.depth = @ - 1,
                      !.bad = @ \/ s.depth = 0]
      [] s.quote = "none" /\ c = "," /\ s.depth = 0 ->
            [s EXCEPT !.parts = Append(@, Strip(s.part)), !.part = << >>,
                      !.bad = @ \/ Strip(s.part) = << >>]
      [] OTHER -> [s EXCEPT !.part = Append(@, c)]

NotAType == [ok |-> FALSE, name |-> "", args |-> << >>]

SplitTypeArguments(name, t) ==
    LET s == FoldLeft(SplitNext, SplitInit, t)
        final == Strip(s.part)
    IN  IF s.bad \/ s.quote # "none" \/ s.depth # 0 \/ final = << >> THEN NotAType
        ELSE [ok |-> TRUE, name |-> name, args |-> Append(s.parts, final)]

\* parse_clickhouse_type
Parse(t) ==
    LET text == Strip(t)
        brackets == {i \in DOMAIN text : text[i] = "("}
        open == Min(brackets)
        name == Strip(SubSeq(text, 1, open - 1))
        IsName(u) == Len(u) = 1 /\ u[1] \in Words      \* _TYPE_NAME
    IN  IF brackets = {}
        THEN IF IsName(text) THEN [ok |-> TRUE, name |-> text[1], args |-> << >>]
             ELSE NotAType
        ELSE IF Last(text) = ")" /\ IsName(name)
             THEN SplitTypeArguments(name[1], SubSeq(text, open + 1, Len(text) - 1))
             ELSE NotAType

-----------------------------------------------------------------------------
(* _validate_type_expression *)

\* _tuple_field: the length of the name of a named element, or 0.  Escaped and
\* doubled backticks in a quoted name are left out.
FieldName(t) ==
    LET closing == {i \in 2..Len(t) : t[i] = "backtick"}
        end == IF t[1] = "backtick" /\ closing # {} THEN Min(closing)
               ELSE IF t[1] \in Words THEN 1 ELSE 0
    IN  IF end > 0 /\ end + 1 < Len(t) /\ t[end + 1] = "space"
           /\ (t[1] = "backtick" => end > 2)
        THEN end ELSE 0

FieldType(t) == SubSeq(t, FieldName(t) + 2, Len(t))

\* The types whose arguments are numbers or a time zone
ValidScalar(p) ==
    LET integers == \A i \in DOMAIN p.args : IsInteger(p.args[i])
        n == [i \in DOMAIN p.args |-> IntOf[p.args[i][1]]]
    IN  CASE p.name = "FixedString" -> Len(p.args) = 1 /\ integers /\ n[1] >= 1
          [] p.name \in DOMAIN DecimalScaleLimits ->
                Len(p.args) = 1 /\ integers /\ n[1] <= DecimalScaleLimits[p.name]
          [] p.name = "Decimal" ->
                /\ Len(p.args) = 2 /\ integers
                /\ n[1] \in 1..MaxDecimalPrecision /\ n[2] <= n[1]
          [] p.name = "DateTime" ->
                Len(p.args) <= 1 /\ \A i \in DOMAIN p.args : IsTimeZone(p.args[i])
          [] p.name = "DateTime64" ->
                /\ Len(p.args) \in 1..2
                /\ IsInteger(p.args[1]) /\ n[1] <= MaxDateTime64Precision
                /\ Len(p.args) = 2 => IsTimeZone(p.args[2])
          [] p.name = "Enum8" -> p.args # << >>
          [] OTHER -> FALSE

Valid(t) ==
    LET valid[u \in Seq(TypeTokens)] ==
            LET p == Parse(u)
                ValidElement(arg) ==
                    valid[arg] \/ (FieldName(arg) > 0 /\ valid[FieldType(arg)])
            IN  /\ p.ok
                /\ CASE p.name \in SimpleTypes ->
                            p.args = << >> /\ p.name \notin UnsupportedSimple
                     [] p.name \in Wrappers -> Len(p.args) = 1 /\ valid[p.args[1]]
                     [] p.name = "Map" ->
                            Len(p.args) = 2 /\ \A i \in DOMAIN p.args : valid[p.args[i]]
                     [] p.name = "Tuple" ->
                            p.args # << >> /\ \A i \in DOMAIN p.args : ValidElement(p.args[i])
                     [] OTHER -> ValidScalar(p)
    IN  valid[t]

-----------------------------------------------------------------------------
(* _transport_type_expression, of a valid type *)

\* ", ".join
Joined(texts) ==
    FlattenSeq([i \in DOMAIN texts |->
        (IF i > 1 THEN <<",", "space">> ELSE << >>) \o texts[i]])

Construct(name, texts) == <<name, "(">> \o Joined(texts) \o <<")">>

\* Seconds, with the time zone of the declaration if it has one
TransportDateTime(zones) == Construct("DateTime64", <<<<"n0">>>> \o zones)

Transport(t) ==
    LET transport[u \in Seq(TypeTokens)] ==
            LET p == Parse(u)
                Element(arg) ==
                    IF Valid(arg) THEN transport[arg]
                    ELSE SubSeq(arg, 1, FieldName(arg)) \o <<"space">>
                            \o transport[FieldType(arg)]
            IN  CASE p.name = "Date" -> <<"Date32">>
                  [] p.name \in TextTransportTypes -> <<"String">>
                  [] p.name \in SimpleTypes \ {"Date", "UUID"} -> <<p.name>>
                  [] p.name \in Wrappers \cup {"Map"} ->
                        Construct(p.name, [i \in DOMAIN p.args |-> transport[p.args[i]]])
                  [] p.name = "Tuple" ->
                        Construct("Tuple", [i \in DOMAIN p.args |-> Element(p.args[i])])
                  [] p.name = "DateTime" -> TransportDateTime(p.args)
                  [] OTHER -> Strip(u)
    IN  transport[t]
=============================================================================
