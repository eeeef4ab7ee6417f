---------------------------- MODULE SchemaMeaning ----------------------------
(***************************************************************************)
(* What the texts that ClickHouse's DESCRIBE returns mean, from the trees  *)
(* that were written down, and that clickhouse/schema.py reads them so.    *)
(***************************************************************************)
EXTENDS SchemaPlan

RECURSIVE Written(_, _)

\* As it is declared, or with every leaf as it is read
Written(tree, transported) ==
    LET one(e) == (IF e.field = << >> THEN << >> ELSE e.field \o <<"space">>)
                    \o Written(e.tree, transported)
    IN  IF tree.name = "leaf"
        THEN IF transported THEN tree.transport ELSE tree.text
        ELSE Construct(tree.name, [i \in DOMAIN tree.elements |-> one(tree.elements[i])])

RECURSIVE Good(_)
Good(tree) == tree.good /\ \A i \in DOMAIN tree.elements : Good(tree.elements[i].tree)

\* Without white space, but for the space between a field and its type
Squeezed(t) ==
    LET solid == {i \in DOMAIN t : t[i] # "space"}
        Before(i) == t[Max({j \in solid : j < i})]
        divides(i) == /\ t[i] # "space" /\ i > 1 /\ t[i - 1] = "space"
                      /\ \E j \in solid : j < i
                      /\ {t[i], Before(i)} \subseteq Words \cup {"backtick"}
    IN  FlattenSeq([i \in DOMAIN t |->
            IF t[i] = "space" THEN << >>
            ELSE IF divides(i) THEN <<"space", t[i]>> ELSE <<t[i]>>])

-----------------------------------------------------------------------------
(* A ClickHouse schema is accepted exactly when every declaration is the text
   of a supported type, however its lists are nested, named, quoted and
   spaced; and what a column is read as is its declared type with the leaves
   replaced that Arrow cannot carry, same nesting, same fields, same order. *)
TypesUnderstood ==
    dialect = "clickhouse" =>
        /\ stage = "refused" => ~RowsWellFormed \/ \E i \in DOMAIN rows : ~Good(rows[i].declared.tree)
        /\ columns # << >> =>
              \A i \in DOMAIN rows :
                  /\ Good(rows[i].declared.tree)
                  /\ Squeezed(columns[i].transport)
                        = Squeezed(Written(rows[i].declared.tree, TRUE))
=============================================================================
