\* Two clients, two threads that stop the server, handlers that may stop it
\* too, and a listening socket that queues two connections.
SPECIFICATION FairSpec

CONSTANTS
    Owner = Owner
    Runner = Runner
    Clients = {c1, c2}
    Stoppers = {s1, s2}
    Backlog = 2

\* A run() whose accept blocks for ever may be all that is left.
CHECK_DEADLOCK FALSE

INVARIANTS
    ClientsLostOnlyByStop

PROPERTIES
    StopEndsRun
    NobodyServedAfterStop
    DestructorReturns
