------------------------------ MODULE ThreadPool ------------------------------
(***************************************************************************)
(* tinfra::static_thread_pool_runner: a constructor that starts            *)
(* thread_count_ workers, a job queue they all get from, and a destructor  *)
(* that queues one empty runnable per worker and joins them.               *)
(*                                                                         *)
(* The queue is the linearizable FIFO that module Queue is shown to        *)
(* implement.  Jobs may submit jobs and may throw a std::exception, which  *)
(* thread_master_fun turns into the end of the worker's thread.            *)
(***************************************************************************)
EXTENDS Naturals, Sequences, FiniteSets

CONSTANTS
    N,          \* thread_count_
    Jobs,       \* the jobs
    Empty,      \* runnable::EMPTY_RUNNABLE
    ClientJobs, \* the jobs the pool's owner submits
    Spawns,     \* the jobs that each job submits while it runs
    Throwing    \* the jobs that end with an exception

ASSUME NAssumption == N \in Nat \ {0}

ASSUME JobsAssumption ==
    /\ Empty \notin Jobs
    /\ ClientJobs \subseteq Jobs
    /\ Spawns \in [Jobs -> SUBSET Jobs]
    /\ Throwing \subseteq Jobs

Workers == 1 .. N

VARIABLES
    queue,      \* queue_, oldest first
    queueAlive, \* whether the member queue_ is constructed and not destroyed
    threads,    \* threads_: the workers to join, in the order they were started
    owner,      \* where the owner of the pool is
    tokens,     \* how many empty runnables the destructor has queued
    wpc,        \* where each worker is
    job,        \* the job each worker runs, or Empty
    submitted,  \* the jobs given to the runner
    early,      \* the jobs given to it before the destructor began
    started     \* the jobs handed to operator(), each with how often

vars == <<queue, queueAlive, threads, owner, tokens, wpc, job, submitted, early, started>>

\* The owner: in the constructor, using the pool, in the destructor's two
\* loops, unwinding a constructor that threw, and after the object is gone.
OwnerPlaces == {"ctor", "use", "stop", "join", "unwind", "gone", "failed"}

Init ==
    /\ queue = <<>>
    /\ queueAlive = TRUE
    /\ threads = <<>>
    /\ owner = "ctor"
    /\ tokens = 0
    /\ wpc = [w \in Workers |-> "none"]
    /\ job = [w \in Workers |-> Empty]
    /\ submitted = {}
    /\ early = {}
    /\ started = [j \in Jobs |-> 0]

jobVars == <<job, submitted, early, started>>

-----------------------------------------------------------------------------
(* The owner's thread *)

\* threads_.start in the constructor's loop: pthread_create, then push_back.
StartWorker ==
    /\ owner = "ctor"
    /\ Len(threads) < N
    /\ LET w == Len(threads) + 1
       IN  /\ threads' = Append(threads, w)
           /\ wpc' = [wpc EXCEPT ![w] = "get"]
    /\ UNCHANGED <<queue, queueAlive, owner, tokens, jobVars>>

Constructed ==
    /\ owner = "ctor"
    /\ Len(threads) = N
    /\ owner' = "use"
    /\ UNCHANGED <<queue, queueAlive, threads, tokens, wpc, jobVars>>

\* pthread_create fails: the exception leaves the constructor, whose members
\* are destroyed in reverse order, queue_ first and then threads_.
StartFails ==
    /\ owner = "ctor"
    /\ Len(threads) < N
    /\ owner' = "unwind"
    /\ queueAlive' = FALSE
    /\ UNCHANGED <<queue, threads, tokens, wpc, jobVars>>

\* do_run, called by the owner or by a running job.
Submit(j) ==
    /\ j \notin submitted
    /\ queueAlive
    /\ queue' = Append(queue, j)
    /\ submitted' = submitted \cup {j}
    /\ early' = IF owner = "use" THEN early \cup {j} ELSE early
    /\ UNCHANGED <<queueAlive, threads, owner, tokens, wpc, job, started>>

ClientSubmit(j) ==
    /\ owner = "use"
    /\ Submit(j)

BeginDestroy ==
    /\ owner = "use"
    /\ owner' = "stop"
    /\ UNCHANGED <<queue, queueAlive, threads, tokens, wpc, jobVars>>

\* Fault: the empty runnables overtake the jobs.
PutTokenFirst ==
    /\ owner = "stop"
    /\ tokens < N
    /\ queue' = <<Empty>> \o queue
    /\ tokens' = tokens + 1
    /\ UNCHANGED <<queueAlive, threads, owner, wpc, jobVars>>

PutToken ==
    /\ owner = "stop"
    /\ tokens < N
    /\ queue' = Append(queue, Empty)
    /\ tokens' = tokens + 1
    /\ UNCHANGED <<queueAlive, threads, owner, wpc, jobVars>>

\* Fault: the loop of ~static_thread_pool_runner stops one token short.
BeginJoinEarly ==
    /\ owner = "stop"
    /\ tokens >= N - 1
    /\ owner' = "join"
    /\ UNCHANGED <<queue, queueAlive, threads, tokens, wpc, jobVars>>

BeginJoin ==
    /\ owner = "stop"
    /\ tokens = N
    /\ owner' = "join"
    /\ UNCHANGED <<queue, queueAlive, threads, tokens, wpc, jobVars>>

\* One turn of thread_set::join: pthread_join of the last thread, then erase.
JoinLast ==
    /\ owner \in {"join", "unwind"}
    /\ threads # <<>>
    /\ wpc[threads[Len(threads)]] = "exited"
    /\ threads' = SubSeq(threads, 1, Len(threads) - 1)
    /\ UNCHANGED <<queue, queueAlive, owner, tokens, wpc, jobVars>>

\* Fault: the members are destroyed while a thread is left to join.
DestroyedEarly ==
    /\ owner = "join"
    /\ Len(threads) < N
    /\ owner' = "gone"
    /\ queueAlive' = FALSE
    /\ UNCHANGED <<queue, threads, tokens, wpc, jobVars>>

\* join has returned, queue_ is destroyed; threads_ has nothing left to join.
Destroyed ==
    /\ owner = "join"
    /\ threads = <<>>
    /\ owner' = "gone"
    /\ queueAlive' = FALSE
    /\ UNCHANGED <<queue, threads, tokens, wpc, jobVars>>

\* The failed constructor has unwound.
Unwound ==
    /\ owner = "unwind"
    /\ threads = <<>>
    /\ owner' = "failed"
    /\ UNCHANGED <<queue, queueAlive, threads, tokens, wpc, jobVars>>

-----------------------------------------------------------------------------
(* worker_thread_func under thread_master_fun *)

\* queue.get() returns a job, which is called.
TakeJob(w) ==
    /\ wpc[w] = "get"
    /\ queueAlive
    /\ queue # <<>>
    /\ Head(queue) # Empty
    /\ wpc' = [wpc EXCEPT ![w] = "run"]
    /\ job' = [job EXCEPT ![w] = Head(queue)]
    /\ started' = [started EXCEPT ![Head(queue)] = @ + 1]
    /\ queue' = Tail(queue)
    /\ UNCHANGED <<queueAlive, threads, owner, tokens, submitted, early>>

\* queue.get() returns the empty runnable: the loop ends, and so the thread.
TakeToken(w) ==
    /\ wpc[w] = "get"
    /\ queueAlive
    /\ queue # <<>>
    /\ Head(queue) = Empty
    /\ wpc' = [wpc EXCEPT ![w] = "exited"]
    /\ queue' = Tail(queue)
    /\ UNCHANGED <<queueAlive, threads, owner, tokens, jobVars>>

JobSubmits(w) ==
    /\ wpc[w] = "run"
    /\ \E j \in Spawns[job[w]] : Submit(j)

\* The job has nothing more to submit: it is over.
JobOver(w) ==
    /\ wpc[w] = "run"
    /\ Spawns[job[w]] \subseteq submitted
    /\ job' = [job EXCEPT ![w] = Empty]
    /\ UNCHANGED <<queue, queueAlive, threads, owner, tokens, submitted, early, started>>

JobReturns(w) ==
    /\ JobOver(w)
    /\ job[w] \notin Throwing
    /\ wpc' = [wpc EXCEPT ![w] = "get"]

\* The exception leaves worker_thread_func; thread_master_fun logs it and
\* returns, which ends the thread.  Nobody replaces it.
JobThrows(w) ==
    /\ JobOver(w)
    /\ job[w] \in Throwing
    /\ wpc' = [wpc EXCEPT ![w] = "exited"]

WorkerStep(w) ==
    TakeJob(w) \/ TakeToken(w) \/ JobSubmits(w) \/ JobReturns(w) \/ JobThrows(w)

OwnerStep ==
    \/ StartWorker \/ Constructed
    \/ PutToken \/ BeginJoin \/ JoinLast \/ Destroyed \/ Unwound

Next ==
    \/ OwnerStep
    \/ StartFails
    \/ \E j \in ClientJobs : ClientSubmit(j)
    \/ BeginDestroy
    \/ \E w \in Workers : WorkerStep(w)

\* The owner goes on with the constructor or destructor it is in, every
\* worker is scheduled and every job ends.  Nobody is obliged to submit a job
\* or to destroy the pool.
Fairness ==
    /\ WF_vars(OwnerStep)
    /\ \A w \in Workers : WF_vars(WorkerStep(w))

Spec == Init /\ [][Next]_vars /\ Fairness

\* The submissions of a job for TLC: the job "parent" submits "child".
OneSpawns == [j \in Jobs |-> IF j = "parent" THEN {"child"} ELSE {}]

-----------------------------------------------------------------------------
(* Properties *)

TypeOK ==
    /\ queue \in Seq(Jobs \cup {Empty})
    /\ queueAlive \in BOOLEAN
    /\ threads \in Seq(Workers)
    /\ owner \in OwnerPlaces
    /\ tokens \in 0 .. N
    /\ wpc \in [Workers -> {"none", "get", "run", "exited"}]
    /\ job \in [Workers -> Jobs \cup {Empty}]
    /\ early \subseteq submitted /\ submitted \subseteq Jobs
    /\ started \in [Jobs -> Nat]
    /\ \A w \in Workers : wpc[w] = "run" <=> job[w] # Empty

Active(w) == wpc[w] \in {"get", "run"}

\* A submitted job is started once at most, whichever workers race for it.
StartedAtMostOnce == \A j \in Jobs : started[j] <= 1

\* A worker that an exception ended, as opposed to an empty runnable.
TokensTaken == tokens - Cardinality({i \in 1 .. Len(queue) : queue[i] = Empty})
AllWorkersDied == TokensTaken = 0

\* The destructor drains the queue: once the pool is gone, every job
\* submitted before the destructor began has been started, unless exceptions
\* had ended every worker.
DrainedByDestructor ==
    owner = "gone" => AllWorkersDied \/ \A j \in early : started[j] = 1

\* The queue is destroyed with no worker left that could use it, as long as
\* the constructor succeeded.
NoUseAfterDestroy ==
    owner = "gone" => \A w \in Workers : ~Active(w)

\* The destructor returns, whatever the jobs throw.
DestructorReturns == owner = "stop" ~> owner = "gone"

==============================================================================
