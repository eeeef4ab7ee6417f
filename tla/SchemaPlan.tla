----------------------------- MODULE SchemaPlan -----------------------------
(***************************************************************************)
(* From the rows of DESCRIBE to the projection of a scan task:             *)
(* parse_describe_columns, render_schema_projection, canonical_schema and  *)
(* projection_for of clickhouse/schema.py with the _render_projection of   *)
(* clickhouse/sql.py, and parse_describe_rows with canonical_schema of     *)
(* doris/schema.py.                                                        *)
(*                                                                         *)
(* A ClickHouse declaration comes with what it means: a tree that was      *)
(* written down, or none if it is not the text of a type.  The code only   *)
(* sees the text.                                                          *)
(***************************************************************************)
EXTENDS ClickHouseTypes, DorisTypes

CONSTANTS ClickHouseDeclarations,   \* records of a text and its meaning
          DorisDeclarations         \* declarations of module DorisTypes

\* Without brackets there is nothing between them
ASSUME DeclarationsAssumption ==
    \A d \in DorisDeclarations : ~d.hasArgs => d.args = << >>

VARIABLES dialect,     \* "clickhouse" or "doris"
          rows,        \* what DESCRIBE returned
          stage,
          columns,     \* ClickHouseSchemaPlan.columns, or the Doris schema
          selected,    \* the columns of a task
          projection   \* projection_for: names and casts

schemaVars == <<dialect, rows, stage, columns, selected, projection>>

\* A type as a tree.  A leaf has a text, whether it is supported, and the text
\* of the type it is read as; other nodes have elements, possibly named.
Leaf(text, good, transport) ==
    [name |-> "leaf", text |-> text, good |-> good, transport |-> transport,
     elements |-> << >>]
Element(field, tree) == [field |-> field, tree |-> tree]
Tree(name, elements) ==
    [name |-> name, text |-> << >>, good |-> TRUE, transport |-> << >>,
     elements |-> elements]
NoTree == Leaf(<< >>, FALSE, << >>)

Row(name, shape, declared, nullable) ==
    [name |-> name, shape |-> shape, declared |-> declared, nullable |-> nullable]

\* Any one declaration, or any table of at most two columns over few
\* declarations: rows too short or without a name, names that repeat, a third
\* kind of nullability
RowsOver(declarations, few) ==
    {<<Row("a", "ok", d, "YES")>> : d \in declarations}
    \cup UNION {[1..n -> {Row(name, shape, d, nullable) :
                            name \in {"a", "b"}, shape \in {"ok", "malformed"},
                            d \in few, nullable \in {"YES", "NO", "other"}}] : n \in 0..2}

FewClickHouse == {[text |-> l.text, tree |-> l] :
                    l \in {Leaf(<<"UUID">>, TRUE, <<"String">>), Leaf(<<"Int256">>, FALSE, << >>)}}
FewDoris == {Bare("INT"), Bare("LARGEINT")}

SchemaInit ==
    /\ \/ /\ dialect = "clickhouse"
          /\ rows \in RowsOver(ClickHouseDeclarations, FewClickHouse)
       \/ /\ dialect = "doris"
          /\ rows \in RowsOver(DorisDeclarations, FewDoris)
    /\ stage = "describe"
    /\ columns = << >>
    /\ selected = << >>
    /\ projection = << >>

\* No column twice, and at least one
NamesDistinct == \A i, j \in DOMAIN rows : i # j => rows[i].name # rows[j].name
RowsWellFormed ==
    rows # << >> /\ NamesDistinct /\ \A i \in DOMAIN rows : rows[i].shape = "ok"

-----------------------------------------------------------------------------
(* ClickHouse *)

ClickHouseColumn(row) ==
    LET declaredType == Strip(row.declared.text)
    IN  [name |-> row.name, declared |-> declaredType, transport |-> Transport(declaredType)]

\* parse_describe_columns
ColumnsAccepted ==
    RowsWellFormed /\ \A i \in DOMAIN rows : Valid(rows[i].declared.text)

DescribeColumns ==
    /\ stage = "describe"
    /\ dialect = "clickhouse"
    /\ IF ColumnsAccepted
       THEN /\ columns' = [i \in DOMAIN rows |-> ClickHouseColumn(rows[i])]
            /\ stage' = "probe"
       ELSE stage' = "refused" /\ UNCHANGED columns
    /\ UNCHANGED <<dialect, rows, selected, projection>>

\* The empty table read through the projection, and canonical_schema: the
\* names it comes with are the declared ones, or the server disagrees
ProbeSchema ==
    /\ stage = "probe"
    /\ stage' \in {"planned", "disagree"}
    /\ UNCHANGED <<dialect, rows, columns, selected, projection>>

\* cast_type: NoCast is None
NoCast == << >>

\* Mutant: only a type that is replaced as a whole is cast
CastTypeOutermost(column) ==
    IF column.transport[1] # column.declared[1] THEN column.transport ELSE NoCast

CastType(column) == IF column.transport # column.declared THEN column.transport ELSE NoCast

\* projection_for, for the columns a task needs, in its order
Project ==
    /\ stage = "planned"
    /\ dialect = "clickhouse"
    /\ \E order \in SetToAllKPermutations(DOMAIN columns) :
          /\ order # << >>
          /\ selected' = [k \in DOMAIN order |-> columns[order[k]].name]
          /\ projection' = [k \in DOMAIN order |->
                               [name |-> columns[order[k]].name,
                                cast |-> CastType(columns[order[k]])]]
    /\ stage' = "project"
    /\ UNCHANGED <<dialect, rows, columns>>

\* _render_projection: the names must be those of the task, and a cast must be
\* to a type that validates
ProjectionRenders ==
    /\ [k \in DOMAIN projection |-> projection[k].name] = selected
    /\ \A k \in DOMAIN projection :
          projection[k].cast = NoCast \/ Valid(projection[k].cast)

RenderProjection ==
    /\ stage = "project"
    /\ stage' = IF ProjectionRenders THEN "rendered" ELSE "failed"
    /\ UNCHANGED <<dialect, rows, columns, selected, projection>>

-----------------------------------------------------------------------------
(* Doris *)

\* parse_describe_rows, then doris_type_to_arrow for every column
DorisAccepted ==
    /\ RowsWellFormed
    /\ \A i \in DOMAIN rows :
          rows[i].nullable \in {"YES", "NO"} /\ DorisTypeToArrow(rows[i].declared) # NoArrow

DorisField(row) ==
    [name |-> row.name, arrow |-> DorisTypeToArrow(row.declared),
     nullable |-> row.nullable = "YES"]

DescribeRows ==
    /\ stage = "describe"
    /\ dialect = "doris"
    /\ IF DorisAccepted
       THEN /\ columns' = [i \in DOMAIN rows |-> DorisField(rows[i])]
            /\ stage' = "planned"
       ELSE stage' = "refused" /\ UNCHANGED columns
    /\ UNCHANGED <<dialect, rows, selected, projection>>

SchemaNext == DescribeColumns \/ ProbeSchema \/ Project \/ RenderProjection \/ DescribeRows

SchemaSpec == SchemaInit /\ [][SchemaNext]_schemaVars

-----------------------------------------------------------------------------
(* Reference *)

\* What Doris stores in a type, by the number of bits, digits or decimals
DorisHolds(d) ==
    LET bits == [BOOLEAN |-> 1, TINYINT |-> 8, SMALLINT |-> 16, INT |-> 32, BIGINT |-> 64,
                 LARGEINT |-> 128, FLOAT |-> 32, DOUBLE |-> 64]
    IN  CASE d.base \in DOMAIN bits -> [size |-> bits[d.base], scale |-> 0]
          [] d.base = "DECIMAL" /\ Len(d.args) = 2 ->
                [size |-> d.args[1], scale |-> d.args[2]]
          [] d.base = "DATETIME" /\ Len(d.args) = 1 -> [size |-> 0, scale |-> d.args[1]]
          [] OTHER -> [size |-> 0, scale |-> 0]

-----------------------------------------------------------------------------
(* Properties *)

(* A schema that was accepted can be read: every task's projection renders,
   although its types are validated again when the task is built, and what the
   server then sends for a column, cast or not, is the type the schema was
   probed with and needs no other cast to be carried by Arrow. *)
AcceptedSchemaRenders ==
    /\ stage # "failed"
    /\ stage = "rendered" =>
          \A k \in DOMAIN projection :
              LET column == CHOOSE c \in Range(columns) : c.name = projection[k].name
                  sent == IF projection[k].cast = NoCast THEN column.declared
                          ELSE projection[k].cast
              IN  sent = column.transport /\ Transport(sent) = sent

(* A Doris schema is accepted as a whole or not at all, and every value of
   every column fits into its Arrow type without rounding. *)
DorisValuesFit ==
    dialect = "doris" /\ stage = "planned" =>
        /\ Len(columns) = Len(rows)
        /\ \A i \in DOMAIN rows :
              LET held == DorisHolds(rows[i].declared)
                  arrow == columns[i].arrow
              IN  /\ columns[i].name = rows[i].name
                  /\ held.size <= arrow.size
                  /\ held.scale <= arrow.scale
                  /\ arrow.family = "decimal128" =>
                        arrow.size <= 38 /\ arrow.scale = held.scale
=============================================================================
