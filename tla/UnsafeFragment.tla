--------------------------- MODULE UnsafeFragment ---------------------------
(***************************************************************************)
(* unsafe_where_sql: how the scanners of both dialects                     *)
(* (_render_unsafe_fragment of doris/sql.py and clickhouse/sql.py) turn a  *)
(* trusted fragment and its query_parameters into text for the driver,     *)
(* and what Python's % formatting in the driver makes of that text.        *)
(*                                                                         *)
(* Text is a sequence of tokens: a quote, a backslash, a colon, a percent  *)
(* sign, a name (of any length), a ClickHouse "(name)s", a placeholder, a  *)
(* value, or other text.  Two names never stand side by side.              *)
(***************************************************************************)
EXTENDS Integers, Sequences, SequencesExt

Node(kind, val, args) == [kind |-> kind, val |-> val, args |-> args]
Op(kind, args) == Node(kind, 0, args)
Lit(v) == Node("lit", v, << >>)
Token(kind) == Op(kind, << >>)
Tokens(kinds) == [i \in DOMAIN kinds |-> Token(kinds[i])]

\* A literal that not every driver takes: not finite, with a time zone, or of
\* another type
Odd == -2

\* How a parameter is named in the text: a Doris name, a ClickHouse "(name)s",
\* or a name the connector reserves for itself
Daft(n) == Node("daft", n, << >>)
Names == {Token("p"), Token("q"), Token("(p)s"), Token("(q)s"), Daft(0)}

Backtick == Token("backtick")
Quotes == {Token("quote"), Backtick}
NoQuote == Token("none")
Percent == Token("%")
Backslash == Token("backslash")
Colon == Token("colon")
Placeholder == Token("%s")
Bad == Token("bad")

Parameter(name, v) == [name |-> name, value |-> v]
NamesOf(params) == {params[i].name : i \in DOMAIN params}

\* dict: the last of equal names wins
ValueNamed(params, name) ==
    params[Max({i \in DOMAIN params : params[i].name = name})].value

-----------------------------------------------------------------------------
(* doris/sql.py *)

\* append_raw
Raw(token, bind) ==
    IF token = Percent /\ bind THEN <<Percent, Percent>> ELSE <<token>>

\* _render_parameter_marker: a colon before a name, not a cast's second colon
MarkerAt(t, i) ==
    /\ t[i] = Colon
    /\ i = 1 \/ t[i - 1] # Colon
    /\ i < Len(t) /\ t[i + 1] \in Names

\* What the scanner finds: raw text, and markers with the name they stand for
Marker(name) == Op("marker", <<name>>)

\* Inside of a quoted value: the token after this one is taken with it, as it is
TakesTwo(t, i, quote) ==
    /\ i < Len(t)
    /\ \/ t[i] = Backslash /\ quote # Backtick
       \/ t[i] = quote /\ t[i + 1] = quote

\* Where the loop over the fragment is: what it found so far, the quote it is
\* inside of, and how many of the next tokens it has taken already
Scan(found, quote, skip) == [found |-> found, quote |-> quote, skip |-> skip]

ScanRound(t, i, s, bind) ==
    LET one == s.found \o Raw(t[i], bind)
    IN  IF s.skip > 0 THEN Scan(s.found, s.quote, 0)
        ELSE IF s.quote # NoQuote /\ TakesTwo(t, i, s.quote)
        THEN Scan(one \o Raw(t[i + 1], bind), s.quote, 1)
        ELSE IF s.quote # NoQuote
        THEN Scan(one, IF t[i] = s.quote THEN NoQuote ELSE s.quote, 0)
        ELSE IF MarkerAt(t, i) THEN Scan(Append(s.found, Marker(t[i + 1])), NoQuote, 1)
        ELSE Scan(one, IF t[i] \in Quotes THEN t[i] ELSE NoQuote, 0)

\* An open quote is the Bad token at the end
ScanDoris(t, bind) ==
    LET scan[i \in 0..Len(t)] ==
            IF i = 0 THEN Scan(<< >>, NoQuote, 0)
            ELSE ScanRound(t, i, scan[i - 1], bind)
        end == scan[Len(t)]
    IN  IF end.quote = NoQuote THEN end.found ELSE Append(end.found, Bad)

\* render_flight_literal
FlightLiteral(v) == IF v = Odd THEN Bad ELSE Lit(v)

Markers(scanned) == {scanned[i].args[1] :
                        i \in {j \in DOMAIN scanned : scanned[j].kind = "marker"}}

Refused == [refused |-> TRUE, text |-> << >>, params |-> << >>]
Rendered(text, params) == [refused |-> FALSE, text |-> text, params |-> params]

\* values: one for every marker, in the order of the text
DorisValues(scanned, params) ==
    LET values[i \in 0..Len(scanned)] ==
            IF i = 0 THEN << >>
            ELSE IF scanned[i].kind # "marker" THEN values[i - 1]
            ELSE Append(values[i - 1],
                        Parameter(Placeholder, ValueNamed(params, scanned[i].args[1])))
    IN  values[Len(scanned)]

DorisFragment(fragment, params, flight, bind) ==
    LET scanned == ScanDoris(fragment, bind)
        Replace(token) ==
            CASE token.kind # "marker" -> token
              [] token.kind = "marker" /\ flight ->
                    FlightLiteral(ValueNamed(params, token.args[1]))
              [] OTHER -> Placeholder
        text == [i \in DOMAIN scanned |-> Replace(scanned[i])]
    IN  IF \/ Bad \in Range(scanned)
           \/ Markers(scanned) # NamesOf(params)     \* missing or unused
           \/ Bad \in Range(text)
        THEN Refused
        ELSE Rendered(text, IF flight THEN << >> ELSE DorisValues(scanned, params))

-----------------------------------------------------------------------------
(* clickhouse/sql.py *)

\* _NAMED_PARAMETER.match
NamedAt(t, i) == t[i] = Percent /\ i < Len(t) /\ t[i + 1] \in Names

\* Quotes mean nothing here: the driver replaces markers inside of them too
ClickHouseText(t, bind) ==
    LET text[i \in 0..Len(t)] ==
            IF i = 0 THEN << >>
            ELSE text[i - 1] \o (IF NamedAt(t, i) THEN <<t[i]>> ELSE Raw(t[i], bind))
    IN  text[Len(t)]

NamesFound(t) == {t[i + 1] : i \in {j \in DOMAIN t : NamedAt(t, j)}}

\* Parameters in the connector's own name space
Reserved(params) == {n \in NamesOf(params) : n.kind = "daft"}

ClickHouseFragment(fragment, params, bind) ==
    IF Reserved(params) # {} \/ NamesFound(fragment) # NamesOf(params)
    THEN Refused
    ELSE Rendered(ClickHouseText(fragment, bind), params)

-----------------------------------------------------------------------------
(* The driver: query % args, when there are any *)

\* The text so far, how many arguments the %s have used, and how many of the next
\* tokens have been taken already
Formatted(text, used, skip) == [text |-> text, used |-> used, skip |-> skip]

\* An unknown conversion or a missing argument is a TypeError or ValueError
FormatRound(text, i, s, params) ==
    LET next == IF i < Len(text) THEN text[i + 1] ELSE Bad
        Put(token, used, skip) == Formatted(Append(s.text, token), used, skip)
    IN  IF s.skip > 0 THEN Formatted(s.text, s.used, 0)
        ELSE IF text[i] = Placeholder
        THEN IF s.used = Len(params) THEN Put(Bad, s.used, 0)
             ELSE Put(Lit(params[s.used + 1].value), s.used + 1, 0)
        ELSE IF text[i] # Percent THEN Put(text[i], s.used, 0)
        ELSE IF next = Percent THEN Put(Percent, s.used, 1)
        ELSE IF next \in NamesOf(params)
        THEN Put(Lit(ValueNamed(params, next)), s.used, 1)
        ELSE Put(Bad, s.used, 0)

Format(text, used, params) ==
    LET after[i \in 0..Len(text)] ==
            IF i = 0 THEN Formatted(<< >>, used, 0)
            ELSE FormatRound(text, i, after[i - 1], params)
    IN  after[Len(text)]

-----------------------------------------------------------------------------
(* Reference: what a fragment means, from the definition of SQL's literals *)

\* A literal ends at the next quote of its kind that no backslash escapes
Closes(t, a, b) ==
    LET slashes == b - 1 - Max({k \in a..(b - 1) : t[k] # Backslash \/ k = a})
    IN  t[b] = t[a] /\ (t[a] = Backtick \/ slashes % 2 = 0)

\* The literals, as pairs of the places of their quotes; a doubled quote is two
\* literals side by side
Literals(t) ==
    LET from[i \in 1..(Len(t) + 1)] ==
            LET openings == {k \in i..Len(t) : t[k] \in Quotes}
                first == Min(openings)
                ends == {b \in (first + 1)..Len(t) : Closes(t, first, b)}
            IN  IF openings = {} THEN {}
                ELSE IF ends = {} THEN {<<first, Len(t) + 1>>}
                ELSE {<<first, Min(ends)>>} \cup from[Min(ends) + 1]
    IN  from[1]

LiteralsClosed(t) == \A l \in Literals(t) : l[2] <= Len(t)

\* Doris: only outside of literals.  ClickHouse: anywhere.
MarkersOf(t, dialect) ==
    IF dialect = "clickhouse" THEN {i \in DOMAIN t : NamedAt(t, i)}
    ELSE {i \in DOMAIN t : /\ MarkerAt(t, i)
                           /\ \A l \in Literals(t) : i < l[1] \/ l[2] < i}

\* Every marker is replaced by its value and nothing else is touched
Meant(t, params, dialect) ==
    LET markers == MarkersOf(t, dialect)
    IN  FlattenSeq([i \in DOMAIN t |->
            IF i \in markers THEN <<Lit(ValueNamed(params, t[i + 1]))>>
            ELSE IF i - 1 \in markers THEN << >>
            ELSE <<t[i]>>])

\* The parameters are exactly those the fragment names, and none is reserved
Acceptable(t, params, dialect) ==
    /\ {t[i + 1] : i \in MarkersOf(t, dialect)} = NamesOf(params)
    /\ dialect # "clickhouse" => LiteralsClosed(t)
    /\ dialect = "clickhouse" => \A n \in NamesOf(params) : n.kind # "daft"
    /\ dialect = "flight" => \A i \in DOMAIN params : params[i].value # Odd
=============================================================================
