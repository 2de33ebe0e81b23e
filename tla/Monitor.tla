------------------------------- MODULE Monitor -------------------------------
(***************************************************************************)
(* tinfra::thread::monitor: one mutex with one condition variable, and     *)
(* synchronizator, which holds the mutex for the life of a block.          *)
(*                                                                         *)
(* The mutex is a pthread mutex and the condition a pthread condition.     *)
(* pthread_cond_wait releases the mutex and joins the set of waiting       *)
(* threads in one step; a thread leaves that set when it is woken, by a    *)
(* broadcast or for no reason at all, and must then take the mutex again   *)
(* before the call returns.                                                *)
(***************************************************************************)
CONSTANTS
    Threads,    \* the threads that may enter the monitor
    NoThread    \* the owner of a mutex nobody holds

ASSUME ThreadsAssumption == NoThread \notin Threads

VARIABLES
    owner,      \* the thread that holds monitor::m, or NoThread
    waiters     \* the threads blocked inside pthread_cond_wait on monitor::c

monitorVars == <<owner, waiters>>

MonitorTypeOK ==
    /\ owner \in Threads \cup {NoThread}
    /\ waiters \subseteq Threads

MonitorInit ==
    /\ owner = NoThread
    /\ waiters = {}

Lock(t) ==
    /\ owner = NoThread
    /\ owner' = t
    /\ UNCHANGED waiters

Unlock(t) ==
    /\ owner = t
    /\ owner' = NoThread
    /\ UNCHANGED waiters

\* pthread_cond_wait up to the point where the thread sleeps.
Wait(t) ==
    /\ owner = t
    /\ owner' = NoThread
    /\ waiters' = waiters \cup {t}

\* pthread_cond_wait from the wake-up on: the call returns with the mutex.
Reacquire(t) ==
    /\ t \notin waiters
    /\ Lock(t)

Broadcast ==
    /\ waiters' = {}
    /\ UNCHANGED owner

\* POSIX lets pthread_cond_wait return although nobody signalled.
SpuriousWakeup(t) ==
    /\ t \in waiters
    /\ waiters' = waiters \ {t}
    /\ UNCHANGED owner

==============================================================================
