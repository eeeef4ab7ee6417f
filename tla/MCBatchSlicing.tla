--------------------------- MODULE MCBatchSlicing ---------------------------
EXTENDS BatchSlicing

RowBytes == {1, 3, 9}

\* Bytes of n rows after row o when row i has w[i] bytes, with one byte of
\* validity bitmap for every started group of four rows
LayoutOf(w) ==
    LET prefix[i \in 0..(2 * MaxRows)] ==
            IF i = 0 THEN 0
            ELSE prefix[i - 1] + IF i <= MaxRows THEN w[i] ELSE 0
    IN  [o \in Offsets |-> [n \in Offsets |->
            prefix[o + n] - prefix[o] + (n + 3) \div 4]]

MCLayouts == {LayoutOf(w) : w \in [1..MaxRows -> RowBytes]}
=============================================================================
