-------------------------------- MODULE MCWire --------------------------------
(* Instance of Wire for TLC: ints of 3 bits, JSON integers of 5 bits *)
EXTENDS Wire

Digits(n) == [form |-> "digits", halves |-> 2 * n]
Decimal(h) == [form |-> "decimal", halves |-> h]

\* The ids there can be and one that there is not, a number that narrows to an
\* id, a double that fits nothing, and what is no number
MCSpellings ==
    {Digits(n) : n \in {-1, 1, 2, 9}}
    \cup {Decimal(h) : h \in {2, 3, 20, 22}}
    \cup {[form |-> "boolean", halves |-> 2], [form |-> "other", halves |-> 0]}
=============================================================================
