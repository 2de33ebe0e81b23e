---------------------------- MODULE MCW32Condition ----------------------------
\* Three takers, one of which may time out, and two posters that mix signals
\* and broadcasts.
EXTENDS W32Condition

CONSTANTS t1, t2, t3, p1, p2

MCTakers == {t1, t2, t3}
MCPosters == {p1, p2}
MCScript ==
    [p \in MCPosters |-> IF p = p1 THEN <<"signal", "broadcast">> ELSE <<"broadcast">>]

==============================================================================
