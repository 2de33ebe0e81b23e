\* Two threads, each with a conversation of every kind.
SPECIFICATION FairSpec

CONSTANTS
    Threads = {t1, t2}
    Kinds = {"filter", "capture", "detached"}
    Parent = Parent
    Load = 2
    Capacity = 1

\* The conversations end.
CHECK_DEADLOCK FALSE

INVARIANTS
    ZeroMeansWhole
    EndsAreClosed

PROPERTIES
    ConversationsEnd
