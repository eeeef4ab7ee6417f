---------------------------- MODULE MCSchemaPlan ----------------------------
EXTENDS SchemaMeaning

CONSTANT MaxTokens     \* bound: length of a text that need not be a type

Same(text) == Leaf(text, TRUE, text)
Unsupported(text) == Leaf(text, FALSE, << >>)

Zone == <<"quote", "zone", "quote">>
Text(kinds) == Leaf(<<"Enum8", "(">> \o kinds \o <<")">>, TRUE, <<"String">>)

GoodLeaves ==
    {Same(<<"Int8">>), Same(<<"Date32">>), Leaf(<<"Date">>, TRUE, <<"Date32">>),
     Leaf(<<"UUID">>, TRUE, <<"String">>),
     Leaf(<<"DateTime">>, TRUE, <<"DateTime64", "(", "n0", ")">>),
     Leaf(<<"DateTime", "(">> \o Zone \o <<")">>, TRUE,
          <<"DateTime64", "(", "n0", ",", "space">> \o Zone \o <<")">>),
     Same(<<"DateTime64", "(", "n9", ")">>),
     Same(<<"DateTime64", "(", "n0", ",", "space">> \o Zone \o <<")">>),
     Same(<<"Decimal", "(", "n38", ",", "space", "n38", ")">>),
     Same(<<"Decimal", "(", "n1", ",", "space", "n0", ")">>),
     Same(<<"Decimal32", "(", "n9", ")">>), Same(<<"Decimal64", "(", "n18", ")">>),
     Same(<<"FixedString", "(", "n1", ")">>),
     Text(<<"quote", ",", "quote">>), Text(<<"quote", "(", "quote", ",", "quote", "quote">>),
     Text(<<"quote", "backslash", "quote", ")", "quote">>)}

BadLeaves ==
    {Unsupported(t) : t \in
        {<<"Int256">>, <<"f">>, <<"Tuple">>, <<"Nullable">>, <<"Int8", "(", "n1", ")">>,
         <<"DateTime64", "(", "n10", ")">>, <<"DateTime64">>, <<"DateTime", "(", "n0", ")">>,
         <<"Decimal", "(", "n39", ",", "n1", ")">>, <<"Decimal", "(", "n9", ",", "n10", ")">>,
         <<"Decimal", "(", "n0", ",", "n0", ")">>, <<"Decimal", "(", "n9", ")">>,
         <<"Decimal256", "(", "n1", ")">>, <<"Decimal32", "(", "n10", ")">>,
         <<"FixedString", "(", "n0", ")">>, <<"Map", "(", "Int8", ")">>,
         <<"Array", "(", "Int8", ",", "Int8", ")">>, <<"Enum8", "(", "quote", ")">>}}

Leaves == GoodLeaves \cup BadLeaves

FewLeaves ==
    {Same(<<"Int8">>), Leaf(<<"Date">>, TRUE, <<"Date32">>), Text(<<"quote", ",", "quote">>),
     Text(<<"quote", "backslash", "quote", ")", "quote">>), Unsupported(<<"Int256">>)}

\* No name, a word, the name of a type, and quoted names with brackets and commas
Fields == {<< >>, <<"f">>, <<"Array">>, <<"backtick", "(", "backtick">>,
           <<"backtick", ",", "space", "backtick">>}

Unnamed(tree) == Element(<< >>, tree)

\* A tuple's bad elements are not named: the text after a name would have to
\* be a type
Grown(these, those) ==
    {Tree(w, <<Unnamed(t)>>) : w \in Wrappers, t \in these}
        \cup {Tree("Map", <<Unnamed(s), Unnamed(t)>>) : s \in those, t \in these}
        \cup {Tree("Tuple", <<Element(f, t)>>) : f \in Fields, t \in these}
        \cup {Tree("Tuple", <<Element(f, s), Element(g, t)>>) :
                  f \in Fields, g \in {<< >>, <<"f">>}, s \in those, t \in those}

Once == Grown(Leaves, FewLeaves)
Trees == Leaves \cup Once \cup Grown(Grown(FewLeaves, {Same(<<"Int8">>)}), FewLeaves)

\* The same text without white space where it may be left out, or with more
Dense(t) == FlattenSeq([i \in DOMAIN t |->
    IF t[i] = "space" /\ i > 1 /\ t[i - 1] = "," THEN << >> ELSE <<t[i]>>])
Loose(t) == <<"space">> \o FlattenSeq([i \in DOMAIN t |->
    IF t[i] = "(" THEN <<"space", "(", "space">>
    ELSE IF t[i] = ")" THEN <<"space", ")">> ELSE <<t[i]>>])

HasQuotes(t) == \E i \in DOMAIN t : t[i] \in QuoteMarks

OfTrees ==
    LET plain == {t \in Once : ~HasQuotes(Written(t, FALSE))}
    IN  {[text |-> Written(t, FALSE), tree |-> t] : t \in Trees}
            \cup {[text |-> Dense(Written(t, FALSE)), tree |-> t] : t \in plain}
            \cup {[text |-> Loose(Written(t, FALSE)), tree |-> t] : t \in plain}

\* Every short text that is not a type
ShortTypes ==
    LET int8 == Same(<<"Int8">>)
        named == {Element(f, int8) : f \in {<< >>, <<"f">>, <<"Int8">>, <<"Tuple">>}}
    IN  {Squeezed(Written(t, FALSE)) : t \in
            {int8} \cup {Tree("Tuple", <<e>>) : e \in named}
                   \cup {Tree("Tuple", <<Unnamed(int8), Unnamed(int8)>>)}}

Alphabet == {"Int8", "Tuple", "f", "(", ")", ",", "space"}

OfNothing ==
    LET short == UNION {[1..n -> Alphabet] : n \in 1..MaxTokens}
        texts == short \cup {<<"Tuple">> \o t : t \in short}
    IN  {[text |-> t, tree |-> NoTree] : t \in
            {u \in texts :
                /\ \A i \in 1..(Len(u) - 1) : ~({u[i], u[i + 1]} \subseteq Words)
                /\ Squeezed(u) \notin ShortTypes}}

MCClickHouseDeclarations == OfTrees \cup OfNothing

Bases == DOMAIN SimpleArrow \cup {"CHAR", "VARCHAR", "DATETIME", "DECIMAL", "LARGEINT"}
Numbers == {NotANumber, 0, 1, 6, 7, 38, 39, 255, 256, 65533, 65534}

MCDorisDeclarations ==
    {Bare(b) : b \in Bases}
        \cup {Declared(b, TRUE, args) : b \in Bases,
                 args \in UNION {[1..n -> Numbers] : n \in 0..2}}
=============================================================================
