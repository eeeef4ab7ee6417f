-------------------------- MODULE PredicatePushdown --------------------------
(***************************************************************************)
(* The way of a Daft filter into a WHERE clause: compile_filter and the    *)
(* _PredicateCompiler behind it (_compat.py), the predicate IR             *)
(* (_common/predicate_ir.py), the renderers and build_select of both       *)
(* dialects (doris/sql.py, clickhouse/sql.py) together with the trusted     *)
(* fragment of the source, and the driver that puts the parameters back    *)
(* into the placeholders.                                                  *)
(*                                                                         *)
(* Expressions, predicates and rendered predicates are trees of the same   *)
(* shape: a node has a kind, a value and arguments.  A fragment and the    *)
(* projection are text, a sequence of tokens (module UnsafeFragment).      *)
(***************************************************************************)
EXTENDS UnsafeFragment

CONSTANTS Filters,     \* Daft filter expressions considered
          Values,      \* what a column may hold, besides NULL
          Fragments,   \* unsafe_where_sql, for each style: the texts considered
          FewFilters,  \* the filters each of them is combined with
          MaxHeight    \* bound: how deep a filter is nested

Null == -1

ASSUME ValuesAssumption == Values \subseteq Nat

VARIABLES filter,      \* pushdowns.filters
          style,       \* "mysql", "flight" or "clickhouse"
          fragment,    \* unsafe_where_sql, or << >> if the source has none
          query,       \* query_parameters
          column,      \* the name of the column that is read
          partitions,  \* partition_ids of a ClickHouse task, or none
          step, predicate, select, where, parameters

inputs == <<filter, style, fragment, query, column, partitions>>
pushdownVars == <<inputs, step, predicate, select, where, parameters>>

Col(c) == Node("col", c, << >>)
Unsupported == Token("unsupported")

\* Column 1 and 2 are columns of the table, column 3 is _partition_id
Rows == {r \in [1..3 -> Values \cup {Null}] : r[3] # Null}

Styles == {"mysql", "flight", "clickhouse"}

\* The fragment "column1 >= :p", and the value of its parameter p
Comparison ==
    IF style = "clickhouse" THEN Tokens(<<"column1 >=", "%", "(p)s">>)
    ELSE Tokens(<<"column1 >=", "colon", "p">>)
FragmentValue == 1

P == Token(IF style = "clickhouse" THEN "(p)s" ELSE "p")
Q == Token(IF style = "clickhouse" THEN "(q)s" ELSE "q")
QueryParameters ==
    {<< >>, <<Parameter(P, 1)>>, <<Parameter(P, Odd)>>,
     <<Parameter(Q, 2), Parameter(P, 1)>>}
    \cup (IF style = "clickhouse" THEN {<<Parameter(Daft(0), 2)>>} ELSE {})

\* Either many filters and one fragment, or many fragments and few filters
PushdownInit ==
    /\ style \in Styles
    /\ \/ /\ filter \in Filters
          /\ \/ fragment = << >> /\ query = << >>
             \/ fragment = Comparison /\ query = <<Parameter(P, FragmentValue)>>
          /\ column = Tokens(<<"c">>)
          /\ partitions \in {<< >>, <<0, 1>>}
       \/ /\ filter \in FewFilters
          /\ fragment \in Fragments[style] \cup {<< >>}
          /\ query \in QueryParameters
          /\ column \in {Tokens(<<"c">>), Tokens(<<"c", "%">>)}
          /\ partitions = << >>
    /\ partitions # << >> => style = "clickhouse"
    /\ step = "compile"
    /\ predicate = Unsupported
    /\ select = << >>
    /\ where = << >>
    /\ parameters = << >>

-----------------------------------------------------------------------------
(* compile_filter *)

Operator == [equal |-> "=", not_equal |-> "!=", less_than |-> "<",
             less_than_or_equal |-> "<=", greater_than |-> ">",
             greater_than_or_equal |-> ">="]

PredicateKinds ==
    {"and", "or", "not", "is null", "is not null", "in"}
        \cup {Operator[o] : o \in DOMAIN Operator}

ExpressionKinds ==
    {"col", "lit", "between", "is_in", "is_null", "not_null", "and", "or", "not", "function"}
        \cup DOMAIN Operator

\* How many arguments a node has
Shape(e) ==
    /\ e.kind \in {"col", "lit", "unsupported"} => e.args = << >>
    /\ e.kind \in {"is_null", "not_null", "is null", "is not null", "not"} => Len(e.args) = 1
    /\ e.kind \in DOMAIN Operator \cup {Operator[o] : o \in DOMAIN Operator}
          => Len(e.args) = 2
    /\ e.kind = "between" => Len(e.args) = 3
    /\ e.kind \in {"is_in", "in"} => Len(e.args) >= 1

\* Expressions, predicates and rendered predicates up to a height; compiled, a
\* "between" is a comparison higher
Heights == 0..(MaxHeight + 1)
TreeKinds == ExpressionKinds \cup PredicateKinds \cup {"unsupported", "%s", "daft", "partition"}

Trees[n \in Heights] ==
    IF n = 0 THEN {}
    ELSE {e \in [kind : TreeKinds, val : Int, args : Seq(Trees[n - 1])] : Shape(e)}

\* What Daft may ask for
ASSUME FiltersAssumption ==
    /\ MaxHeight \in Nat
    /\ Filters \cup FewFilters \subseteq Trees[MaxHeight]

Supported(nodes) == \A i \in DOMAIN nodes : nodes[i].kind # "unsupported"

\* Literal.__post_init__
Literal(v) == IF v = Odd THEN Unsupported ELSE Lit(v)

\* _compare
Compare(op, left, right) ==
    IF ~Supported(<<left, right>>) \/ Lit(Null) \in {left, right}
    THEN Unsupported
    ELSE Op(op, <<left, right>>)

\* Mutant: keeps the side of an AND that can be pushed
CombinePartly(kind, operands) ==
    LET kept == SelectSeq(operands, LAMBDA p : p.kind \in PredicateKinds)
    IN  CASE Len(kept) = Len(operands) -> Op(kind, operands)
          [] kind = "and" /\ Len(kept) = 1 -> kept[1]
          [] OTHER -> Unsupported

\* And, Or and Not exist only over predicates
Combine(kind, operands) ==
    IF \A i \in DOMAIN operands : operands[i].kind \in PredicateKinds
    THEN Op(kind, operands)
    ELSE Unsupported

\* visit_is_in and InValues.__post_init__: literals, at least one, no NULL
InValues(operand, values) ==
    IF /\ operand.kind = "col"
       /\ values # << >>
       /\ \A i \in DOMAIN values : values[i].kind = "lit" /\ values[i] # Lit(Null)
    THEN Op("in", <<operand>> \o values)
    ELSE Unsupported

\* IsNull
NullTest(kind, operand) ==
    IF operand.kind = "col" THEN Op(kind, <<operand>>) ELSE Unsupported

\* _value: a column or a literal
ValueOf(node) == IF node.kind \in {"col", "lit"} THEN node ELSE Unsupported

\* _PredicateCompiler, at one node: what becomes of it and of its operands
VisitNode(e, operand) ==
    LET val == [i \in DOMAIN operand |-> ValueOf(operand[i])]
    IN  CASE e.kind = "col" -> e
          [] e.kind = "lit" -> Literal(e.val)
          [] e.kind \in DOMAIN Operator -> Compare(Operator[e.kind], val[1], val[2])
          [] e.kind = "between" ->
                Combine("and", <<Compare(">=", val[1], val[2]),
                                 Compare("<=", val[1], val[3])>>)
          [] e.kind = "is_in" -> InValues(val[1], Tail(val))
          [] e.kind = "is_null" -> NullTest("is null", val[1])
          [] e.kind = "not_null" -> NullTest("is not null", val[1])
          [] e.kind \in {"and", "or", "not"} -> Combine(e.kind, operand)
          [] OTHER -> Unsupported      \* alias, cast, function, coalesce, ...

Visit(e) ==
    LET visit[n \in 0..MaxHeight] ==
            IF n = 0 THEN << >>
            ELSE [t \in Trees[n] |->
                     VisitNode(t, [i \in DOMAIN t.args |-> visit[n - 1][t.args[i]]])]
    IN  visit[MaxHeight][e]

\* The whole filter, or nothing of it
CompileFilter(e) ==
    LET compiled == Visit(e)
    IN  IF compiled.kind \in PredicateKinds THEN compiled ELSE Unsupported

Compile ==
    /\ step = "compile"
    /\ predicate' = CompileFilter(filter)
    /\ step' = "render"
    /\ UNCHANGED <<inputs, select, where, parameters>>

-----------------------------------------------------------------------------
(* build_select *)

\* _Renderer._value: a literal's text and parameter, behind `before` other
\* parameters; %s has no name
RenderLiteral(v, before, dialect) ==
    LET placeholder == IF dialect = "mysql" THEN Placeholder ELSE Daft(before)
    IN  IF dialect = "flight" THEN [sql |-> Lit(v), params |-> << >>]
        ELSE [sql |-> placeholder, params |-> <<Parameter(placeholder, v)>>]

\* Operands are rendered in the order they are written
RenderArgs(args, before, render) ==
    LET done[i \in 0..Len(args)] ==
            IF i = 0 THEN [args |-> << >>, params |-> << >>]
            ELSE LET so == done[i - 1]
                     one == render[args[i]][before + Len(so.params)]
                 IN  [args |-> Append(so.args, one.sql), params |-> so.params \o one.params]
    IN  done[Len(args)]

\* _Renderer.render
RenderNode(p, before, render, dialect) ==
    LET all == RenderArgs(p.args, before, render)
    IN  CASE p.kind = "col" -> [sql |-> p, params |-> << >>]
          [] p.kind = "lit" -> RenderLiteral(p.val, before, dialect)
          [] OTHER -> [sql |-> Op(p.kind, all.args), params |-> all.params]

Render(p, dialect) ==
    LET render[n \in Heights] ==
            IF n = 0 THEN << >>
            ELSE [t \in Trees[n] |->
                     [before \in Nat |-> RenderNode(t, before, render[n - 1], dialect)]]
    IN  render[MaxHeight + 1][p][0]

PredicateClause ==
    IF predicate = Unsupported THEN [sql |-> Unsupported, params |-> << >>]
    ELSE Render(predicate, style)

\* _render_partition_clause
PartitionClause ==
    LET names == [i \in DOMAIN partitions |-> Node("partition", i - 1, << >>)]
    IN  [sql |-> Op("in", <<Col(3)>> \o names),
         params |-> [i \in DOMAIN partitions |-> Parameter(names[i], partitions[i])]]

\* Mutant: only the fragment's own parameters count
BindRequiredByFragment == style # "flight" /\ query # << >>

\* bind_required: whether the driver will be given any parameters
BindRequired ==
    CASE style = "mysql" -> query # << >> \/ PredicateClause.params # << >>
      [] style = "flight" -> FALSE
      [] style = "clickhouse" ->
            query # << >> \/ PredicateClause.params # << >> \/ partitions # << >>

\* The trusted fragment, or the refusal of parameters without one
UnsafeClause ==
    CASE fragment = << >> ->
            IF query = << >> THEN Rendered(<< >>, << >>) ELSE Refused
      [] fragment # << >> /\ style = "clickhouse" ->
            ClickHouseFragment(fragment, query, BindRequired)
      [] OTHER -> DorisFragment(fragment, query, style = "flight", BindRequired)

\* The clauses of WHERE, in the order of the text
Clauses ==
    (IF fragment # << >> THEN <<Op("text", UnsafeClause.text)>> ELSE << >>)
    \o (IF predicate # Unsupported THEN <<PredicateClause.sql>> ELSE << >>)
    \o (IF partitions # << >> THEN <<PartitionClause.sql>> ELSE << >>)

\* quote_columns: backticks around the name, percent signs as they are
QuotedColumn == <<Backtick>> \o column \o <<Backtick>>

\* TABLET, LIMIT and the projection's casts bind nothing
BuildSelect ==
    /\ step = "render"
    /\ ~UnsafeClause.refused
    /\ select' = QuotedColumn
    /\ where' = Clauses
    /\ parameters' = UnsafeClause.params \o PredicateClause.params
                        \o PartitionClause.params
    /\ step' = "bind"
    /\ UNCHANGED <<inputs, predicate>>

\* ConfigurationError
RefuseSelect ==
    /\ step = "render"
    /\ UnsafeClause.refused
    /\ step' = "refused"
    /\ UNCHANGED <<inputs, predicate, select, where, parameters>>

-----------------------------------------------------------------------------
(* The driver.  A statement without parameters is sent as it is; otherwise  *)
(* it is formatted from left to right, the projection first.                *)

BindArgs(args, used, bind) ==
    LET done[i \in 0..Len(args)] ==
            IF i = 0 THEN [args |-> << >>, used |-> used]
            ELSE LET one == bind[args[i]][done[i - 1].used]
                 IN  [args |-> Append(done[i - 1].args, one.sql), used |-> one.used]
    IN  done[Len(args)]

BindNode(sql, used, bind, params) ==
    LET all == BindArgs(sql.args, used, bind)
    IN  CASE sql = Placeholder ->
                [sql |-> Lit(params[used + 1].value), used |-> used + 1]
          [] sql.kind \in {"daft", "partition"} ->
                [sql |-> Lit(ValueNamed(params, sql)), used |-> used]
          [] OTHER -> [sql |-> [sql EXCEPT !.args = all.args], used |-> all.used]

Bind(sql, used, params) ==
    LET bind[n \in Heights] ==
            IF n = 0 THEN << >>
            ELSE [t \in Trees[n] |->
                     [u \in 0..Len(params) |-> BindNode(t, u, bind[n - 1], params)]]
    IN  bind[MaxHeight + 1][sql][used]

BindClause(clause, used, params) ==
    LET formatted == Format(clause.args, used, params)
    IN  IF clause.kind = "text" THEN [sql |-> Op("text", formatted.text), used |-> formatted.used]
        ELSE Bind(clause, used, params)

Statement == <<Op("text", select)>> \o where

Bound ==
    LET bind == [c \in Range(Statement) |->
                    [u \in 0..Len(parameters) |-> BindClause(c, u, parameters)]]
    IN  IF parameters = << >> THEN Statement ELSE BindArgs(Statement, 0, bind).args

Fails(bound) ==
    \E i \in DOMAIN bound : bound[i].kind = "text" /\ Bad \in Range(bound[i].args)

Execute ==
    /\ step = "bind"
    /\ select' = Bound[1].args
    /\ where' = Tail(Bound)
    /\ step' = IF Fails(Bound) THEN "failed" ELSE "run"
    /\ UNCHANGED <<inputs, predicate, parameters>>

PushdownNext == Compile \/ BuildSelect \/ RefuseSelect \/ Execute

PushdownSpec == PushdownInit /\ [][PushdownNext]_pushdownVars

-----------------------------------------------------------------------------
(* Three-valued logic, of the database and of Daft *)

Both(ts) == CASE "F" \in ts -> "F" [] "F" \notin ts /\ "U" \in ts -> "U" [] OTHER -> "T"
Negated(t) == CASE t = "T" -> "F" [] t = "F" -> "T" [] OTHER -> "U"
Either(ts) == Negated(Both({Negated(t) : t \in ts}))
Truth(b) == IF b THEN "T" ELSE "F"

Compared(op, a, b) ==
    IF Null \in {a, b} THEN "U"
    ELSE Truth(CASE op = "=" -> a = b
                 [] op = "!=" -> a # b
                 [] op = "<" -> a < b
                 [] op = "<=" -> a <= b
                 [] op = ">" -> a > b
                 [] op = ">=" -> a >= b)

ValueAt(node, row) == IF node.kind = "col" THEN row[node.val] ELSE node.val

\* At one node, from the truth of its operands
SqlNode(p, sub, row) ==
    LET a == [i \in DOMAIN p.args |-> ValueAt(p.args[i], row)]
    IN  CASE p.kind = "and" -> Both(Range(sub))
          [] p.kind = "or" -> Either(Range(sub))
          [] p.kind = "not" -> Negated(sub[1])
          [] p.kind = "is null" -> Truth(a[1] = Null)
          [] p.kind = "is not null" -> Truth(a[1] # Null)
          [] p.kind = "in" -> Either({Compared("=", a[1], a[i]) : i \in 2..Len(a)})
          [] OTHER -> Compared(p.kind, a[1], a[2])

SqlTruth(p, row) ==
    LET truth[n \in Heights] ==
            IF n = 0 THEN << >>
            ELSE [t \in Trees[n] |->
                     SqlNode(t, [i \in DOMAIN t.args |-> truth[n - 1][t.args[i]]], row)]
    IN  truth[MaxHeight + 1][p]

\* The fragment is the comparison of column 1 with a value
ClauseTruth(clause, row) ==
    IF clause.kind = "text" THEN Compared(">=", row[1], Last(clause.args).val)
    ELSE SqlTruth(clause, row)

\* Daft's filter.  An is_in list skips its NULLs, other than SQL's IN; an
\* expression the connector cannot read may have any meaning, here the
\* parity of a column.
DaftNode(e, sub, row) ==
    LET a == [i \in DOMAIN e.args |-> ValueAt(e.args[i], row)]
    IN  CASE e.kind = "and" -> Both(Range(sub))
          [] e.kind = "or" -> Either(Range(sub))
          [] e.kind = "not" -> Negated(sub[1])
          [] e.kind = "is_null" -> Truth(a[1] = Null)
          [] e.kind = "not_null" -> Truth(a[1] # Null)
          [] e.kind = "between" -> Both({Compared(">=", a[1], a[2]),
                                         Compared("<=", a[1], a[3])})
          [] e.kind = "is_in" ->
                IF a[1] = Null THEN "U"
                ELSE Truth(\E i \in 2..Len(a) : a[i] = a[1])
          [] e.kind \in DOMAIN Operator -> Compared(Operator[e.kind], a[1], a[2])
          [] e.kind = "col" -> IF row[e.val] = Null THEN "U" ELSE Truth(row[e.val] > 0)
          [] OTHER -> Truth(row[1] % 2 = 0)

DaftTruth(e, row) ==
    LET truth[n \in 0..MaxHeight] ==
            IF n = 0 THEN << >>
            ELSE [t \in Trees[n] |->
                     DaftNode(t, [i \in DOMAIN t.args |-> truth[n - 1][t.args[i]]], row)]
    IN  truth[MaxHeight][e]

-----------------------------------------------------------------------------
(* Properties *)

(* The statement selects exactly the rows that the trusted fragment, the
   split and, if it was pushed, Daft's whole filter accept.  Exactly: a row
   too few is lost, and a row too many lets a pushed limit cut off a row that
   qualifies. *)
PushdownExact ==
    step = "run" /\ fragment \in {<< >>, Comparison} =>
        \A row \in Rows :
            (\A i \in DOMAIN where : ClauseTruth(where[i], row) = "T") <=>
                /\ fragment # << >> =>
                        Compared(">=", row[1], ValueNamed(query, P)) = "T"
                /\ partitions # << >> => row[3] \in Range(partitions)
                /\ predicate # Unsupported => DaftTruth(filter, row) = "T"

(* A trusted fragment reaches the database as it was written, percent signs
   and literals included, with its markers, and nothing else, replaced by the
   values of their parameters: whatever other clauses bind parameters too, in
   whatever order, and through the driver's own formatting.  It is refused
   exactly when its parameters are not the ones it names, a quote stays open,
   a name is reserved or Flight cannot write a value.  A statement with
   parameters fails in the driver only for a percent sign in a column's name,
   which is not protected. *)
FragmentFaithful ==
    LET plain == Percent \notin Range(column)
        acceptable == IF fragment = << >> THEN query = << >>
                      ELSE Acceptable(fragment, query, style)
    IN  /\ step = "refused" => ~acceptable
        /\ step \in {"bind", "run", "failed"} => acceptable
        /\ step = "failed" => ~plain
        /\ step = "run" /\ fragment # << >> =>
                where[1].args = Meant(fragment, query, style)
=============================================================================
