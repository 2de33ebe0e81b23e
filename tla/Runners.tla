-------------------------------- MODULE Runners --------------------------------
(***************************************************************************)
(* sequential_runner and thread_runner. A sequential runner runs a job in  *)
(* the call that submits it, unless it is running one already: then the    *)
(* call that runs goes on with the new job. A thread runner gives each job *)
(* a thread of its own, which deletes what the call has allocated.         *)
(***************************************************************************)
EXTENDS Integers, Sequences

CONSTANTS Jobs,
          MaxSubmissions    \* bound: submissions to either runner

BoundAssumption == MaxSubmissions \in Nat

VARIABLES
    queue_,
    currently_executing_,
    running,                \* the job that is running, <<>> if none; its number in the order of submission
    submitted,              \* history: how many jobs have been submitted
    started,                \* history: the jobs in the order of their starts
    thrown,                 \* history: has a job thrown since the last call that ended well?
    holder,                 \* thread_runner: what each call has allocated, "held" by the call,
                            \* "given" to the thread, "freed"
    entry,                  \* thread_entry_param of start_detached: the same, or "leaked"
    thread                  \* "none", "starts", "runs", "over"

sequential == << queue_, currently_executing_, running, submitted, started, thrown >>
detached == << holder, entry, thread >>
vars == << queue_, currently_executing_, running, submitted, started, thrown, holder, entry, thread >>

Init ==
    /\ queue_ = <<>> /\ currently_executing_ = FALSE /\ running = <<>>
    /\ submitted = 0 /\ started = <<>> /\ thrown = FALSE
    /\ holder = [j \in Jobs |-> "freed"]
    /\ entry = [j \in Jobs |-> "freed"]
    /\ thread = [j \in Jobs |-> "none"]

TypeOK ==
    /\ submitted \in 0 .. MaxSubmissions
    /\ queue_ \in Seq(1 .. MaxSubmissions)
    /\ currently_executing_ \in BOOLEAN

\* Fault: the new job overtakes those that wait.
EnqueueFront(q, j) == << j >> \o q
Enqueue(q, j) == Append(q, j)

\* The loop of do_run takes the next job; the guard sets the flag for as long as it runs.
StartNext(q) ==
    /\ running' = << Head(q) >>
    /\ started' = Append(started, Head(q))
    /\ queue_' = Tail(q)
    /\ currently_executing_' = TRUE

\* do_run from outside: there may be jobs in the queue, left by a call that has thrown.
Call ==
    /\ running = <<>> /\ submitted < MaxSubmissions
    /\ submitted' = submitted + 1
    /\ StartNext(Enqueue(queue_, submitted + 1))
    /\ UNCHANGED << thrown, detached >>

\* do_run from the job that is running.
SubmitInside ==
    /\ running # <<>> /\ currently_executing_ /\ submitted < MaxSubmissions
    /\ submitted' = submitted + 1
    /\ queue_' = Enqueue(queue_, submitted + 1)
    /\ UNCHANGED << currently_executing_, running, started, thrown, detached >>

\* The guard puts the flag back; the loop goes on, or the call returns.
JobReturns ==
    /\ running # <<>>
    /\ IF queue_ # <<>>
       THEN StartNext(queue_) /\ UNCHANGED thrown
       ELSE /\ running' = <<>>
            /\ currently_executing_' = FALSE
            /\ thrown' = FALSE
            /\ UNCHANGED << queue_, started >>
    /\ UNCHANGED << submitted, detached >>

\* The exception leaves the loop: what is in the queue waits for the next call.
JobThrows ==
    /\ running # <<>>
    /\ running' = <<>>
    /\ currently_executing_' = FALSE
    /\ thrown' = TRUE
    /\ UNCHANGED << queue_, submitted, started, detached >>

----------------------------------------------------------------------------
(* thread_runner: do_run, start_detached and static_runnable_invoker.      *)

Allocate(j) ==
    /\ holder[j] = "freed" /\ thread[j] \in {"none", "over"} /\ entry[j] = "freed"
    /\ holder' = [holder EXCEPT ![j] = "held"]
    /\ entry' = [entry EXCEPT ![j] = "held"]
    /\ UNCHANGED << sequential, thread >>

\* The thread may run, and end, before do_run lets go of the holder.
ThreadCreated(j) ==
    /\ holder[j] = "held" /\ entry[j] = "held" /\ thread[j] \in {"none", "over"}
    /\ thread' = [thread EXCEPT ![j] = "starts"]
    /\ entry' = [entry EXCEPT ![j] = "given"]
    /\ holder' = [holder EXCEPT ![j] = "given"]
    /\ UNCHANGED sequential

\* pthread_create fails: the entry is released before that is tested.
CreationFails(j) ==
    /\ holder[j] = "held" /\ entry[j] = "held"
    /\ entry' = [entry EXCEPT ![j] = "leaked"]
    /\ holder' = [holder EXCEPT ![j] = "freed"]
    /\ UNCHANGED << sequential, thread >>

ThreadRuns(j) ==
    /\ thread[j] = "starts"
    /\ thread' = [thread EXCEPT ![j] = "runs"]
    /\ UNCHANGED << sequential, holder, entry >>

\* The job returns or throws: both auto_ptrs are destroyed on the way out.
ThreadEnds(j) ==
    /\ thread[j] = "runs"
    /\ thread' = [thread EXCEPT ![j] = "over"]
    /\ holder' = [holder EXCEPT ![j] = "freed"]
    /\ entry' = [entry EXCEPT ![j] = "freed"]
    /\ UNCHANGED sequential

Next ==
    \/ Call \/ SubmitInside \/ JobReturns \/ JobThrows
    \/ \E j \in Jobs : Allocate(j) \/ ThreadCreated(j) \/ CreationFails(j) \/ ThreadRuns(j) \/ ThreadEnds(j)

Spec == Init /\ [][Next]_vars

----------------------------------------------------------------------------
\* Jobs are run one after the other in the order in which they were submitted, each once,
\* whoever submitted them; when a call has returned none is left. A job that throws delays
\* those behind it to the next call, and never lets two run at the same time or one be lost.
JobsRunInOrder ==
    /\ started \o queue_ = [k \in 1 .. submitted |-> k]
    /\ running # <<>> => running = << started[Len(started)] >>
    /\ currently_executing_ <=> running # <<>>
    /\ (running = <<>> /\ ~ thrown) => queue_ = <<>>
    /\ \A j \in Jobs : thread[j] \in {"starts", "runs"} => holder[j] = "given" /\ entry[j] = "given"

\* With the types of the history, this is kept by every step.
RunnersInv ==
    /\ TypeOK
    /\ started \in Seq(1 .. MaxSubmissions)
    /\ running # <<>> => started # <<>>
    /\ holder \in [Jobs -> {"held", "given", "freed"}] /\ entry \in [Jobs -> {"held", "given", "freed", "leaked"}]
    /\ thread \in [Jobs -> {"none", "starts", "runs", "over"}]
    /\ JobsRunInOrder
================================================================================
