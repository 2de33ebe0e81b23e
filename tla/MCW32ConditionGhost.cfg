SPECIFICATION Spec

CONSTANTS
    t1 = t1
    t2 = t2
    t3 = t3
    p1 = p1
    p2 = p2
    NoThread = NoThread
    Modulus = 16
    Takers <- MCTakers
    TimedTakers = {t3}
    Posters <- MCPosters
    Script <- MCScript

\* The threads end; and a broadcast after a timeout never returns.
CHECK_DEADLOCK FALSE

INVARIANTS
    BroadcastNeedsWaiters
