\* Strings and keys that are read as they were and others, an integer, a double
\* that is written as an integer, a none and booleans.
SPECIFICATION Spec

CONSTANTS
    Texts = {1, 3}
    Ints = {2}
    Doubles = {4, 5}
    Keys = {1, 2, 3}
    Plain = {1, 2}
    Exact = {4}
    MaxTokens = 11
    MaxDepth = 3

\* A parser ends, and a text may be too long to go on.
CHECK_DEADLOCK FALSE

INVARIANTS
    ParsedAsWritten
