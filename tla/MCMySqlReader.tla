---------------------------- MODULE MCMySqlReader ----------------------------
EXTENDS MySqlReader

\* Bytes of the first n rows when row i has size[i] bytes
Prefixes(size) ==
    LET prefix[n \in 0..Rows] == IF n = 0 THEN 0 ELSE prefix[n - 1] + size[n]
    IN  prefix

\* Uniform rows of 1, 2, 3 and 9 bytes, and two uneven results, against
\* BatchBytes = 6 and batches with 0 or 3 extra bytes: a batch that fits, one
\* that only its extra bytes make too large, one that must shrink (rows of 2
\* bytes: to two rows, 7 bytes in all), a row that alone is too large, and a
\* large row first or last.
MCResults ==
    {Prefixes([i \in 1..Rows |-> b]) : b \in {1, 2, 3, 9}}
        \cup {Prefixes([i \in 1..Rows |-> IF i = 1 THEN 9 ELSE 1]),
              Prefixes([i \in 1..Rows |-> IF i = Rows THEN 9 ELSE 2])}
=============================================================================
