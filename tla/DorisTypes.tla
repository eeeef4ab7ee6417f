----------------------------- MODULE DorisTypes -----------------------------
(***************************************************************************)
(* doris_type_to_arrow of doris/schema.py: the Arrow type of a declared    *)
(* Doris scalar type.  A declaration is its base and what stands between   *)
(* the brackets, if there are any; an argument that is no number is "bad". *)
(* Letter case and white space are normalised by the code and left out.    *)
(***************************************************************************)
EXTENDS Integers, Sequences

\* A declaration; hasArgs tells "INT" from "INT()"
Declared(base, hasArgs, args) == [base |-> base, hasArgs |-> hasArgs, args |-> args]
Bare(base) == Declared(base, FALSE, << >>)

NotANumber == -1

\* An Arrow type: its family, and how much it holds
Arrow(family, size, scale) == [family |-> family, size |-> size, scale |-> scale]
NoArrow == Arrow("none", 0, 0)

\* One of each group of bases that the code treats alike
SimpleArrow ==
    [BOOLEAN |-> Arrow("bool", 1, 0), TINYINT |-> Arrow("int", 8, 0),
     SMALLINT |-> Arrow("int", 16, 0), INT |-> Arrow("int", 32, 0),
     BIGINT |-> Arrow("int", 64, 0), FLOAT |-> Arrow("float", 32, 0),
     DOUBLE |-> Arrow("float", 64, 0), STRING |-> Arrow("string", 0, 0),
     DATE |-> Arrow("date", 32, 0)]

StringLengthLimits == [CHAR |-> 255, VARCHAR |-> 65533]

\* Mutant: as many decimals as other databases have
MaxDateTimePrecisionWide == 9

MaxDateTimePrecision == 6

MaxPrecision == 38

\* _bounded_integer_argument
BoundedArgument(d, minimum, maximum) ==
    Len(d.args) = 1 /\ d.args[1] # NotANumber /\ d.args[1] \in minimum..maximum

\* _decimal_to_arrow: int() of a part that is no number is refused
DecimalToArrow(d) ==
    IF /\ Len(d.args) = 2
       /\ \A i \in 1..2 : d.args[i] # NotANumber
       /\ d.args[1] \in 1..MaxPrecision
       /\ d.args[2] \in 0..d.args[1]
    THEN Arrow("decimal128", d.args[1], d.args[2])
    ELSE NoArrow

\* NoArrow is the SchemaError
DorisTypeToArrow(d) ==
    CASE d.base \in DOMAIN SimpleArrow ->
            IF d.hasArgs THEN NoArrow ELSE SimpleArrow[d.base]
      [] d.base \in DOMAIN StringLengthLimits ->
            IF BoundedArgument(d, 1, StringLengthLimits[d.base])
            THEN Arrow("string", 0, 0) ELSE NoArrow
      [] d.base = "DATETIME" ->
            IF ~d.hasArgs \/ BoundedArgument(d, 0, MaxDateTimePrecision)
            THEN Arrow("timestamp", 64, 6) ELSE NoArrow
      [] d.base = "DECIMAL" -> DecimalToArrow(d)
      [] OTHER -> NoArrow          \* LARGEINT, HLL, ARRAY<...>, unknown
=============================================================================
