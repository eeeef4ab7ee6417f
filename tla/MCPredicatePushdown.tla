------------------------ MODULE MCPredicatePushdown ------------------------
EXTENDS PredicatePushdown

Function == Op("function", <<Col(1)>>)

Comparisons ==
    {Op(o, <<l, r>>) : o \in DOMAIN Operator, l \in {Col(1), Lit(1)},
                       r \in {Col(2), Lit(1), Lit(Null), Lit(Odd), Function}}

Betweens ==
    {Op("between", <<Col(1), l, u>>) :
        l \in {Lit(0), Lit(1)}, u \in {Lit(1), Lit(2), Col(2), Lit(Null)}}

Ins ==
    {Op("is_in", <<e>> \o items) : e \in {Col(1), Lit(1)},
        items \in {<< >>, <<Lit(1)>>, <<Lit(0), Lit(2)>>, <<Lit(1), Lit(Null)>>,
                   <<Lit(1), Col(2)>>, <<Lit(0), Lit(Odd)>>}}

NullTests == {Op(k, <<e>>) : k \in {"is_null", "not_null"}, e \in {Col(1), Lit(1)}}

Atoms == Comparisons \cup Betweens \cup Ins \cup NullTests \cup {Col(1), Function}

\* One of each for the deeper filters
Few ==
    {Op("less_than", <<Col(1), Lit(1)>>), Op("equal", <<Col(1), Col(2)>>),
     Op("is_in", <<Col(2), Lit(0), Lit(2)>>), Op("is_in", <<Col(2), Lit(0), Lit(Null)>>),
     Op("not_null", <<Col(2)>>), Function}

Grown(these, those) ==
    {Op("not", <<e>>) : e \in these}
        \cup {Op(k, <<e, f>>) : k \in {"and", "or"}, e \in these, f \in those}

Twice == Grown(Few, Few)

MCFilters == Atoms \cup Grown(Atoms, Few) \cup Grown(Twice, Few)

\* Without a filter, with one that binds, and with one that does not
MCFewFilters == {Function, Op("less_than", <<Col(1), Lit(1)>>), Op("not_null", <<Col(2)>>)}

\* A name is as long as it gets: two of them do not stand side by side
Texts(kinds, n) ==
    LET texts == UNION {[1..l -> {Token(k) : k \in kinds}] : l \in 1..n}
    IN  {t \in texts : \A i \in 1..(Len(t) - 1) : ~({t[i], t[i + 1]} \subseteq Names)}

\* Literals and escapes up to five tokens, two different markers up to four
DorisTexts ==
    Texts({"colon", "p", "quote", "backslash", "%"}, 5)
        \cup Texts({"colon", "p", "q", "quote", "backtick", "backslash", "%"}, 4)

ClickHouseTexts ==
    Texts({"%", "(p)s", "(q)s", "quote"}, 5)
        \cup {<<Percent, Daft(0)>>, <<Percent, Percent, Daft(0)>>}

MCFragments ==
    [mysql |-> DorisTexts, flight |-> DorisTexts, clickhouse |-> ClickHouseTexts]
=============================================================================
