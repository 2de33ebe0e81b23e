\* Two workers.  The owner submits four jobs, one of which submits another;
\* three of the five throw, so that one worker, or both, may be lost.
SPECIFICATION Spec

CONSTANTS
    N = 2
    Empty = Empty
    Jobs = {"plain", "parent", "child", "bad", "late"}
    ClientJobs = {"plain", "parent", "bad", "late"}
    Spawns <- OneSpawns
    Throwing = {"bad", "child", "late"}

\* The owner need not destroy the pool, and a failed constructor hangs.
CHECK_DEADLOCK FALSE

INVARIANTS
    DrainedByDestructor
    NoUseAfterDestroy

PROPERTIES
    DestructorReturns
