-------------------------- MODULE MCSourceContracts --------------------------
EXTENDS SourceContracts

CONSTANTS MaxObjects,    \* bound: objects of the caller
          MaxItems,      \* bound: identifiers
          ItemWeights    \* weights an item may have

\* Containers hold at most two references
Contents == {<< >>} \cup {<<r>> : r \in 1..MaxObjects}
                \cup {<<r, s>> : r, s \in 1..MaxObjects}

MCCallerHeaps ==
    [1..MaxObjects -> {Object(k, << >>) : k \in Kinds} \cup {Container(c) : c \in Contents}]

MCWeights == UNION {[S -> ItemWeights] : S \in SUBSET (1..MaxItems)}
=============================================================================
